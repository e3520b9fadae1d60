------------------------------ MODULE RunBroker ------------------------------
(***************************************************************************)
(* RabbitMQ as declare_topology sets it up and RabbitRunPublisher and      *)
(* RunConsumer use it: a quorum queue `process` with a delivery limit, a   *)
(* `retry` queue whose TTL moves messages to `process`, and a `dead` queue *)
(* that nothing consumes.                                                  *)
(*                                                                         *)
(* A message carries a run id and nothing else.  To tell the copies apart  *)
(* the model names them: <<r, 0>> is what publish_run sends for run r and  *)
(* <<r, k>> what publish_retry sends after attempt k failed.  Each is sent *)
(* at most once; AgentRuns checks that (RetryCopiesAreFresh).              *)
(***************************************************************************)
EXTENDS AgentRunConstants

VARIABLES
    place,    \* place[m]: where message m is
    returns   \* returns[m]: the counted returns of m to the process queue

brokerVars == <<place, returns>>

Messages == Runs \X (0 .. MaxAttempts - 1)
RunOf(m) == m[1]

\* Still to be processed: a message here will reach a handler, again if need be.
Live   == {"process", "unacked", "retry"}
Places == {"unsent", "dead", "gone"} \union Live

BrokerTypeOK ==
    /\ place \in [Messages -> Places]
    /\ returns \in [Messages -> Nat]

BrokerInit ==
    /\ place = [m \in Messages |-> "unsent"]
    /\ returns = [m \in Messages |-> 0]

-----------------------------------------------------------------------------
\* The broker takes a published message.
Enqueue(m, queue) ==
    /\ place' = [place EXCEPT ![m] = queue]
    /\ UNCHANGED returns

\* The TTL of the retry queue runs out.
RetryDelayOver(m) ==
    /\ place[m] = "retry"
    /\ Enqueue(m, "process")

Take(m) ==
    /\ place[m] = "process"
    /\ Enqueue(m, "unacked")

Settle(m) == Enqueue(m, "gone")

\* The message goes back to the process queue, or past the delivery limit to
\* the dead queue.
PutBack(m, counted) ==
    /\ returns' = [returns EXCEPT ![m] = @ + counted]
    /\ place' = [place EXCEPT ![m] =
                   IF returns[m] + counted > DeliveryLimit THEN "dead" ELSE "process"]
=============================================================================
