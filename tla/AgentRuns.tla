------------------------------ MODULE AgentRuns ------------------------------
(***************************************************************************)
(* A user message from the POST that stores it to the answer or failure of *)
(* its agent run: the API requests (MessageService.send_message), the      *)
(* worker's message handlers (RunConsumer.handle around                    *)
(* AgentRunProcessor.process), the rows they share (RunStore) and the      *)
(* queues between them (RunBroker).                                        *)
(*                                                                         *)
(* One action is what runs between two awaits at which another actor can   *)
(* get in: one committed transaction, one call to the language model, one  *)
(* publication, one acknowledgement.  Everything that goes wrong is an     *)
(* action of its own, limited by MaxFaults and chosen by the constant      *)
(* Faults, so that a run can ask what holds under which failures.          *)
(***************************************************************************)
EXTENDS RunStore, RunBroker

CONSTANTS
    Handlers,    \* the tasks that can run RunConsumer.handle at one time
    NoMessage,   \* what an idle handler holds
    Faults,      \* the kinds of failure that may happen
    MaxFaults    \* how many of them

FaultKinds == {
    "crash",       \* a worker process dies, or shutdown cancels the task
    "connection",  \* the worker's channel closes under a running handler
    "database",    \* a transaction raises SQLAlchemyError, committed or not
    "refused",     \* connecting to PostgreSQL raises OSError
    "publish",     \* a publication fails and the broker has nothing
    "confirm",     \* a publication fails and the broker has the message
    "api" }        \* the API process dies, or its mark_failed does

ASSUME FaultAssumption ==
    /\ NoMessage \notin Messages
    /\ Faults \subseteq FaultKinds
    /\ MaxFaults \in Nat

VARIABLES
    req,       \* req[r]: where the POST that creates run r is
    handler,   \* handler[h]: where handler h is, with what
    called,    \* called[r]: the attempts of run r that called the model (ghost)
    faults     \* how many failures have happened

vars == <<storeVars, brokerVars, req, handler, called, faults>>

ReqState == {"new", "checked", "committed", "unpublished",
             "accepted", "unavailable", "refused", "lost"}

\* The steps of a handler, in the order of the code.
Working == {"context", "llm", "complete", "transient", "permanent"}
Step == {"idle", "claim", "expire", "republish", "giveup", "ack", "nack", "stuck"}
        \union Working

Idle == [pc |-> "idle", msg |-> NoMessage, attempt |-> 0, attached |-> FALSE]

HandlerState == [pc : Step, msg : Messages \union {NoMessage},
                 attempt : Nat, attached : BOOLEAN]

HandlerTypeOK ==
    /\ handler \in [Handlers -> HandlerState]
    /\ \A h \in Handlers : handler[h].pc # "idle" => handler[h].msg \in Messages

TypeOK ==
    /\ StoreTypeOK
    /\ BrokerTypeOK
    /\ HandlerTypeOK
    /\ req \in [Runs -> ReqState]
    /\ called \in [Runs -> SUBSET Nat]
    /\ faults \in Nat

Init ==
    /\ StoreInit
    /\ BrokerInit
    /\ req = [r \in Runs |-> "new"]
    /\ handler = [h \in Handlers |-> Idle]
    /\ called = [r \in Runs |-> {}]
    /\ faults = 0

Fault(kind) ==
    /\ kind \in Faults
    /\ faults < MaxFaults
    /\ faults' = faults + 1

-----------------------------------------------------------------------------
(* The API: POST /sessions/{id}/messages *)

Answer(r, from, to) == req[r] = from /\ req' = [req EXCEPT ![r] = to]

\* _get_session and the status test; the Session object stays in the
\* identity map of the request.
SendCheck(r) ==
    /\ \/ Runnable(SessionOf[r]) /\ Answer(r, "new", "checked")
       \/ ~Runnable(SessionOf[r]) /\ Answer(r, "new", "refused")
    /\ UNCHANGED <<storeVars, brokerVars, handler, called, faults>>

\* The transaction: MessageRepository.create locks the session row, whose
\* visibility the query tests again, while `status` is still the attribute
\* loaded by SendCheck (active); then the run, and the commit.
SendCommit(r) ==
    /\ \/ /\ Answer(r, "checked", "committed")
          /\ CreateRun(r)
       \/ /\ ~Accepts(SessionOf[r])
          /\ Answer(r, "checked", "refused")
          /\ UNCHANGED storeVars
    /\ UNCHANGED <<brokerVars, handler, called, faults>>

\* publish_run and its confirmation within the publish timeout.
SendPublish(r) ==
    /\ Answer(r, "committed", "accepted")
    /\ Enqueue(<<r, 0>>, "process")
    /\ UNCHANGED <<storeVars, handler, called, faults>>

SendPublishFails(r) ==
    /\ Answer(r, "committed", "unpublished")
    /\ \/ Fault("publish") /\ UNCHANGED brokerVars
       \/ Fault("confirm") /\ Enqueue(<<r, 0>>, "process")
    /\ UNCHANGED <<storeVars, handler, called>>

\* mark_failed, whose result the service does not look at, and the 503.
SendUnavailable(r) ==
    /\ Answer(r, "unpublished", "unavailable")
    /\ MarkFailed(r)
    /\ UNCHANGED <<brokerVars, handler, called, faults>>

\* The request ends after its commit without a publication, or without the
\* answer to a failed one (whose mark_failed may or may not be committed).
SendDies(r) ==
    /\ \/ Answer(r, "committed", "lost") /\ UNCHANGED storeVars
       \/ Answer(r, "unpublished", "lost") /\ (MarkFailed(r) \/ UNCHANGED storeVars)
    /\ Fault("api")
    /\ UNCHANGED <<brokerVars, handler, called>>

Request(r) == SendCheck(r) \/ SendCommit(r) \/ SendPublish(r) \/ SendUnavailable(r)

-----------------------------------------------------------------------------
(* The worker *)

At(h, pc)   == handler[h].pc = pc
Goto(h, pc) == handler' = [handler EXCEPT ![h].pc = pc]

Begin(h, k, pc) == handler' = [handler EXCEPT ![h].pc = pc, ![h].attempt = k]

\* process() returns or raises: what is left is to settle the delivery.
Conclude(h, pc) == Begin(h, 0, pc)
RunAt(h)    == RunOf(handler[h].msg)

Deliver(h, m) ==
    /\ At(h, "idle")
    /\ Take(m)
    /\ handler' = [handler EXCEPT ![h] =
                     [pc |-> "claim", msg |-> m, attempt |-> 0, attached |-> TRUE]]
    /\ UNCHANGED <<storeVars, req, called, faults>>

RetryExpires(m) ==
    /\ RetryDelayOver(m)
    /\ UNCHANGED <<storeVars, req, handler, called, faults>>

WithinLimitOffByOne(k) == k <= MaxAttempts + 1
WithinLimit(k) == k <= MaxAttempts

\* _claim, and what _process decides on the attempt number it returns.
Claim(h) ==
    LET r == RunAt(h)
        k == ClaimedRow(run[r]).attempt
    IN /\ At(h, "claim")
       /\ ClaimRun(r)
       /\ \/ ~Claimable(r) /\ Conclude(h, "ack")
          \/ Claimable(r) /\ WithinLimit(k) /\ Begin(h, k, "context")
          \/ Claimable(r) /\ ~WithinLimit(k) /\ Begin(h, k, "expire")
       /\ UNCHANGED <<brokerVars, req, called, faults>>

\* _fail: the run that keeps being redelivered.
Expire(h) ==
    /\ At(h, "expire")
    /\ MarkError(RunAt(h), handler[h].attempt, "failed", "run_timeout")
    /\ Conclude(h, "ack")
    /\ UNCHANGED <<brokerVars, req, called, faults>>

\* _load_context, then the call to the model goes out.  A conversation no
\* longer visible has no message to load and a context may be refused, which
\* are permanent errors; running out of time is a transient one.
LoadContext(h) ==
    /\ At(h, "context")
    /\ \/ /\ Visible(SessionOf[RunAt(h)])
          /\ Goto(h, "llm")
          /\ called' = [called EXCEPT ![RunAt(h)] = @ \union {handler[h].attempt}]
       \/ /\ \E outcome \in {"transient", "permanent"} : Goto(h, outcome)
          /\ UNCHANGED called
    /\ UNCHANGED <<storeVars, brokerVars, req, faults>>

\* A response, which is permanently refused when it is blank (_validate_response),
\* a timeout or provider failure, or anything else.
Responses == {"complete", "transient", "permanent"}

Respond(h) ==
    /\ At(h, "llm")
    /\ \E outcome \in Responses : Goto(h, outcome)
    /\ UNCHANGED <<storeVars, brokerVars, req, called, faults>>

\* _complete; MessageRepository.create raises for a session that is gone or
\* completed.
Complete(h) ==
    /\ At(h, "complete")
    /\ \/ /\ Runnable(SessionOf[RunAt(h)])
          /\ CompleteRun(RunAt(h), handler[h].attempt)
          /\ Conclude(h, "ack")
       \/ /\ ~Runnable(SessionOf[RunAt(h)])
          /\ Goto(h, "permanent")
          /\ UNCHANGED storeVars
    /\ UNCHANGED <<brokerVars, req, called, faults>>

\* _handle_error up to its commit.
Retries(h)    == At(h, "transient") /\ handler[h].attempt < MaxAttempts
MarkRetry(h)  == MarkError(RunAt(h), handler[h].attempt, "queued", "provider_unavailable")
MarkFinal(h)  == MarkError(RunAt(h), handler[h].attempt, "failed",
                           IF At(h, "transient") THEN "provider_unavailable" ELSE "rejected")

Republishes(h) == Owns(RunAt(h), handler[h].attempt)

HandleError(h) ==
    /\ \/ At(h, "transient")
       \/ At(h, "permanent")
    /\ \/ /\ Retries(h)
          /\ MarkRetry(h)
          /\ IF Republishes(h) THEN Goto(h, "republish") ELSE Conclude(h, "ack")
       \/ /\ ~Retries(h)
          /\ MarkFinal(h)
          /\ Conclude(h, "ack")
    /\ UNCHANGED <<brokerVars, req, called, faults>>

RetryCopy(h) == <<RunAt(h), handler[h].attempt>>

PublishRetry(h) ==
    /\ At(h, "republish")
    /\ Enqueue(RetryCopy(h), "retry")
    /\ Conclude(h, "ack")
    /\ UNCHANGED <<storeVars, req, called, faults>>

PublishRetryFails(h) ==
    /\ At(h, "republish")
    /\ Goto(h, "giveup")
    /\ \/ Fault("publish") /\ UNCHANGED brokerVars
       \/ Fault("confirm") /\ Enqueue(RetryCopy(h), "retry")
    /\ UNCHANGED <<storeVars, req, called>>

GiveUp(h) ==
    /\ At(h, "giveup")
    /\ MarkFailed(RunAt(h))
    /\ Conclude(h, "ack")
    /\ UNCHANGED <<brokerVars, req, called, faults>>

\* ack and nack reach the broker only on the channel of the delivery.
Release(h) == handler' = [handler EXCEPT ![h] = Idle]

Ack(h) ==
    /\ At(h, "ack")
    /\ IF handler[h].attached THEN Settle(handler[h].msg) ELSE UNCHANGED brokerVars
    /\ Release(h)
    /\ UNCHANGED <<storeVars, req, called, faults>>

NackDrops(h) ==
    /\ At(h, "nack")
    /\ IF handler[h].attached THEN Settle(handler[h].msg) ELSE UNCHANGED brokerVars
    /\ Release(h)
    /\ UNCHANGED <<storeVars, req, called, faults>>

Nack(h) ==
    /\ At(h, "nack")
    /\ IF handler[h].attached THEN PutBack(handler[h].msg, 1) ELSE UNCHANGED brokerVars
    /\ Release(h)
    /\ UNCHANGED <<storeVars, req, called, faults>>

Handle(h) ==
    \/ Claim(h) \/ Expire(h) \/ LoadContext(h) \/ Respond(h) \/ Complete(h)
    \/ HandleError(h) \/ PublishRetry(h) \/ GiveUp(h) \/ Ack(h) \/ Nack(h)

-----------------------------------------------------------------------------
(* Failures of the worker *)

\* The process is gone; a supervisor starts another.  The broker returns what
\* was not acknowledged, and may or may not count it as a failed delivery.
Crash(h) ==
    /\ ~At(h, "idle")
    /\ Fault("crash")
    /\ IF handler[h].attached
       THEN \E counted \in 0 .. 1 : PutBack(handler[h].msg, counted)
       ELSE UNCHANGED brokerVars
    /\ Release(h)
    /\ UNCHANGED <<storeVars, req, called>>

\* The broker returns the message while the handler goes on with its copy.
ConnectionLost(h) ==
    /\ ~At(h, "idle") /\ handler[h].attached
    /\ Fault("connection")
    /\ \E counted \in 0 .. 1 : PutBack(handler[h].msg, counted)
    /\ IF At(h, "stuck") THEN Release(h)
       ELSE handler' = [handler EXCEPT ![h].attached = FALSE]
    /\ UNCHANGED <<storeVars, req, called>>

\* The transaction of each step that has one.
Transaction(h) ==
    LET r == RunAt(h)
        k == handler[h].attempt
    IN \/ At(h, "claim") /\ ClaimRun(r)
       \/ At(h, "expire") /\ MarkError(r, k, "failed", "run_timeout")
       \/ At(h, "context") /\ UNCHANGED storeVars
       \/ At(h, "complete") /\ Runnable(SessionOf[r]) /\ CompleteRun(r, k)
       \/ Retries(h) /\ MarkRetry(h)
       \/ (At(h, "transient") \/ At(h, "permanent")) /\ ~Retries(h) /\ MarkFinal(h)
       \/ At(h, "giveup") /\ MarkFailed(r)

TransactionSteps == {"claim", "expire", "context", "complete", "transient",
                     "permanent", "giveup"}

\* SQLAlchemyError: the commit went through and the reply to it was lost, or
\* nothing was written; process() answers NACK_REQUEUE either way.
DatabaseFails(h) ==
    /\ handler[h].pc \in TransactionSteps
    /\ Fault("database")
    /\ Transaction(h) \/ UNCHANGED storeVars
    /\ Conclude(h, "nack")
    /\ UNCHANGED <<brokerVars, req, called>>

\* A refused connection is an OSError.  Inside the try block it is one more error
\* of the attempt: transient as a ConnectionError, permanent when the address is
\* not found or several were tried (_is_transient).  Elsewhere it leaves process()
\* and handle(), and the message is neither acknowledged nor returned.
ConnectRefused(h) ==
    /\ handler[h].pc \in TransactionSteps
    /\ Fault("refused")
    /\ IF At(h, "context") \/ At(h, "complete")
       THEN \E error \in {"transient", "permanent"} : Goto(h, error)
       ELSE Conclude(h, "stuck")
    /\ UNCHANGED <<storeVars, brokerVars, req, called>>

-----------------------------------------------------------------------------
\* The other requests that write the rows of a run's conversation.
Conversation ==
    /\ \/ \E s \in Sessions : CreateSession(s) \/ CompleteSession(s) \/ DeleteSession(s)
       \/ \E a \in Agents : DeleteAgent(a)
    /\ UNCHANGED <<brokerVars, req, handler, called, faults>>

Failure ==
    \/ \E r \in Runs : SendPublishFails(r) \/ SendDies(r)
    \/ \E h \in Handlers : \/ PublishRetryFails(h) \/ Crash(h) \/ ConnectionLost(h)
                           \/ DatabaseFails(h) \/ ConnectRefused(h)

Next ==
    \/ \E r \in Runs : Request(r)
    \/ \E h \in Handlers, m \in Messages : Deliver(h, m)
    \/ \E m \in Messages : RetryExpires(m)
    \/ \E h \in Handlers : Handle(h)
    \/ Conversation
    \/ Failure

Spec == Init /\ [][Next]_vars

-----------------------------------------------------------------------------
(* Safety *)

\* No attempt calls the model twice and no run calls it more often than
\* agent_run_max_attempts, whatever is redelivered (processor.py, _process).
LlmBudget ==
    \A h \in Handlers : At(h, "context") =>
        /\ handler[h].attempt \in 1 .. MaxAttempts
        /\ handler[h].attempt \notin called[RunAt(h)]

\* publish_retry sends each copy once: no two attempts of a run bring the same
\* number to the retry queue (what the names of the messages rest on).
RetryCopiesAreFresh ==
    \A h \in Handlers : At(h, "republish") => place[RetryCopy(h)] = "unsent"

\* Why the two above hold: the attempt numbers.  A handler that has claimed a
\* run holds a number up to the row's, two handlers never hold the same one,
\* the model was called and retries were sent under numbers given out before,
\* and a number that has sent its retry never owns the run again.
Numbered(h) ==
    handler[h].pc \in Working \union {"expire", "republish", "giveup"}

AttemptsGivenOut ==
    /\ \A r \in Runs : run[r].status = "none" => run[r].attempt = 0
    /\ \A r \in Runs : called[r] \subseteq 1 .. run[r].attempt
    /\ \A h \in Handlers :
          Numbered(h) => handler[h].attempt \in 1 .. run[RunAt(h)].attempt

AttemptsDistinct ==
    \A h1, h2 \in Handlers :
        Numbered(h1) /\ Numbered(h2) /\ RunAt(h1) = RunAt(h2) /\ h1 # h2 =>
            handler[h1].attempt # handler[h2].attempt

AttemptsLimited ==
    \A h \in Handlers :
        /\ Numbered(h) /\ ~At(h, "expire") => handler[h].attempt <= MaxAttempts
        /\ At(h, "republish") => handler[h].attempt < MaxAttempts

RetriesDisowned ==
    /\ \A r \in Runs : \A k \in 1 .. MaxAttempts - 1 :
          place[<<r, k>>] # "unsent" => k <= run[r].attempt /\ ~Owns(r, k)
    /\ \A h \in Handlers :
          At(h, "republish") => ~Owns(RunAt(h), handler[h].attempt)

HeldWasSent ==
    \A h \in Handlers : ~At(h, "idle") => place[handler[h].msg] # "unsent"

AttemptInv ==
    /\ AttemptsGivenOut
    /\ AttemptsDistinct
    /\ AttemptsLimited
    /\ RetriesDisowned
    /\ HeldWasSent
    /\ LlmBudget
    /\ RetryCopiesAreFresh

\* An attempt that is still at work and has not been taken over finds its run
\* in processing: nobody else ends or requeues it (repository.py, the docstring
\* of mark_failed: "for runs with no live attempt").
OwnerKeepsRun ==
    \A h \in Handlers :
        At(h, "context") \/ At(h, "llm") \/ At(h, "complete") =>
            \/ run[RunAt(h)].attempt # handler[h].attempt
            \/ Owns(RunAt(h), handler[h].attempt)

\* A run in processing is written by the handler that holds its attempt and by
\* nobody else, or taken over by the next attempt: a handler that was taken over
\* still runs, and neither completes, requeues nor fails what is no longer its
\* (repository.py, _finish_attempt).
OnlyOwnerWrites ==
    [][\A r \in Runs : run[r].status = "processing" /\ run'[r] # run[r] =>
          \/ run'[r].status = "processing" /\ run'[r].attempt = run[r].attempt + 1
          \/ \E h \in Handlers :
                /\ Numbered(h) /\ RunAt(h) = r /\ handler[h].attempt = run[r].attempt
                /\ handler'[h] # handler[h]]_vars

\* An unfinished run is still going to be worked on: the request has yet to
\* publish it or to give it up, a message of it is in a queue or with a
\* handler, or a handler is about to publish one or to give up.
Driven(r) ==
    \/ req[r] \in {"committed", "unpublished"}
    \/ \E m \in Messages : RunOf(m) = r /\ place[m] \in Live
    \/ \E h \in Handlers : (At(h, "republish") \/ At(h, "giveup")) /\ RunAt(h) = r

\* No run is forgotten in a conversation where it could be processed.
ActiveRunIsDriven ==
    \A r \in Runs : Claimable(r) => Driven(r)

\* The 503 tells the truth: the run it is about has failed and its slot is
\* free (README.md, step 2 of the flow of a message).
UnavailableMeansFailed ==
    \A r \in Runs : req[r] = "unavailable" => run[r].status = "failed"

\* A run waits only in a conversation that is open (message/repository.py,
\* ConflictError("Session is completed")).
ActiveOnlyInOpenSession ==
    \A r \in Runs : Active(r) => session[SessionOf[r]].status = "active"

-----------------------------------------------------------------------------
(* Liveness *)

\* The event loops, the broker and the queue's TTL go on; nobody is obliged to
\* send a message, and no failure is obliged to happen.
Fairness ==
    /\ \A r \in Runs : WF_vars(SendCommit(r) \/ SendPublish(r) \/ SendUnavailable(r))
    /\ \A m \in Messages : /\ WF_vars(RetryExpires(m))
                           /\ WF_vars(\E h \in Handlers : Deliver(h, m))
    /\ \A h \in Handlers : WF_vars(Handle(h))

FairSpec == Spec /\ Fairness

\* A stored request is not lost: its run ends, unless its conversation is
\* closed or loses its agent first.
RequestNotLost ==
    \A r \in Runs : Active(r) ~> Terminal(r) \/ ~Runnable(SessionOf[r])
=============================================================================
