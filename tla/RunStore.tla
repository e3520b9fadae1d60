------------------------------ MODULE RunStore ------------------------------
(***************************************************************************)
(* The PostgreSQL rows behind an agent run, and the repository operations  *)
(* that write them.  Each operation is the effect of one committed         *)
(* transaction: the code locks the row it decides on (SELECT ... FOR       *)
(* UPDATE on the session, UPDATE ... WHERE on the run) before it decides,  *)
(* so what it tests is what it commits against.  What a process read in an *)
(* earlier step is the business of the module with the steps, AgentRuns.   *)
(***************************************************************************)
EXTENDS AgentRunConstants

VARIABLES
    run,           \* run[r]: the row of agent_runs ("none" before the insert)
    replies,       \* replies[r]: the attempts whose assistant message is committed
    session,       \* session[s]: status and deleted_at of the row of sessions
                   \* ("none" before the insert)
    deletedAgents  \* the agents with deleted_at set

storeVars == <<run, replies, session, deletedAgents>>

\* "canceled" (model.py) is left out: nothing writes it.
ActiveStatus   == {"queued", "processing"}
TerminalStatus == {"completed", "failed"}
RunStatus      == {"none"} \union ActiveStatus \union TerminalStatus

\* error_code; "rejected" stands for the two codes of a permanent failure
\* (invalid_agent_response, processing_failed).
ErrorCode == {"none", "queue_unavailable", "provider_unavailable",
              "run_timeout", "rejected"}

RunRow     == [status : RunStatus, attempt : Nat, error : ErrorCode]
SessionRow == [status : {"none", "active", "completed"}, deleted : BOOLEAN]

StoreTypeOK ==
    /\ run \in [Runs -> RunRow]
    /\ replies \in [Runs -> SUBSET Nat]
    /\ session \in [Sessions -> SessionRow]
    /\ deletedAgents \subseteq Agents

StoreInit ==
    /\ run = [r \in Runs |-> [status |-> "none", attempt |-> 0, error |-> "none"]]
    /\ replies = [r \in Runs |-> {}]
    /\ session = [s \in Sessions |-> [status |-> "none", deleted |-> FALSE]]
    /\ deletedAgents = {}

-----------------------------------------------------------------------------
(* Conditions the queries test *)

Active(r)   == run[r].status \in ActiveStatus
Terminal(r) == run[r].status \in TerminalStatus

\* The WHERE clause every query on a conversation shares.
Visible(s) ==
    /\ session[s].status # "none" /\ ~session[s].deleted
    /\ AgentOf[s] \notin deletedAgents

\* A conversation in which a message may be sent and a run claimed.
Runnable(s) == Visible(s) /\ session[s].status = "active"

ClaimableQueued(r) == run[r].status = "queued" /\ Runnable(SessionOf[r])
Claimable(r)       == Active(r) /\ Runnable(SessionOf[r])

\* The partial unique index: no other run of the session is active.
ProcessingSlotFree(s) ==
    \A r \in Runs : SessionOf[r] = s => run[r].status # "processing"

SlotFree(s) == \A r \in Runs : SessionOf[r] = s => ~Active(r)

OwnsNumber(r, k) == run[r].attempt = k

\* Fencing: attempt k is the one that currently owns the run.
Owns(r, k) == run[r].status = "processing" /\ run[r].attempt = k

-----------------------------------------------------------------------------
(* Transactions *)

NegativeRow == [status |-> "queued", attempt |-> 0 - 1, error |-> "none"]
NewRow      == [status |-> "queued", attempt |-> 0, error |-> "none"]

AcceptsUnseen(s) == SlotFree(s)
AcceptsBusy(s)   == Visible(s)
Accepts(s)       == Visible(s) /\ SlotFree(s)

\* POST /sessions; the agent is looked up, with the user and the base prompt,
\* and not locked.
CreateSession(s) ==
    /\ session[s].status = "none"
    /\ AgentOf[s] \notin deletedAgents
    /\ session' = [session EXCEPT ![s].status = "active"]
    /\ UNCHANGED <<run, replies, deletedAgents>>

\* The user message and its run under a fresh id, with the session row locked.
CreateRun(r) ==
    /\ run[r].status = "none"
    /\ Accepts(SessionOf[r])
    /\ run' = [run EXCEPT ![r] = NewRow]
    /\ UNCHANGED <<replies, session, deletedAgents>>

ReclaimedRow(row) == [row EXCEPT !.status = "processing", !.error = "none"]
ClaimedRow(row) ==
    [status |-> "processing", attempt |-> row.attempt + 1, error |-> "none"]

\* One atomic UPDATE ... RETURNING attempt_count.
ClaimRun(r) ==
    /\ run' = IF Claimable(r) THEN [run EXCEPT ![r] = ClaimedRow(@)] ELSE run
    /\ UNCHANGED <<replies, session, deletedAgents>>

\* What the UPDATE of a transition sets; the attempt number stays.
Transition(row, status, error) == [status |-> status, attempt |-> row.attempt, error |-> error]

MarkErrorUnfenced(r, k, status, error) ==
    /\ run' = IF Active(r)
              THEN [run EXCEPT ![r] = Transition(@, status, error)]
              ELSE run
    /\ UNCHANGED <<replies, session, deletedAgents>>

\* mark_error: the attempt that owns the run puts it back or fails it.
MarkError(r, k, status, error) ==
    /\ run' = IF Owns(r, k)
              THEN [run EXCEPT ![r] = Transition(@, status, error)]
              ELSE run
    /\ UNCHANGED <<replies, session, deletedAgents>>

FailableInProcessing(r) == run[r].status = "processing"
Failable(r) == Active(r)

\* mark_failed: fails the run whichever attempt owns it.
MarkFailed(r) ==
    /\ run' = IF Failable(r)
              THEN [run EXCEPT ![r] = Transition(@, "failed", "queue_unavailable")]
              ELSE run
    /\ UNCHANGED <<replies, session, deletedAgents>>

CompleteUnfenced(r, k) ==
    /\ run' = IF Owns(r, k)
              THEN [run EXCEPT ![r] = Transition(@, "completed", "none")]
              ELSE run
    /\ replies' = [replies EXCEPT ![r] = @ \union {k}]
    /\ UNCHANGED <<session, deletedAgents>>

\* The assistant message (with its proposal) and the completion of the run in
\* one transaction, rolled back when the attempt does not own the run.
CompleteRun(r, k) ==
    /\ IF Owns(r, k)
       THEN /\ run' = [run EXCEPT ![r] = Transition(@, "completed", "none")]
            /\ replies' = [replies EXCEPT ![r] = @ \union {k}]
       ELSE UNCHANGED <<run, replies>>
    /\ UNCHANGED <<session, deletedAgents>>

MayCloseQueued(s) ==
    Visible(s) /\ \A r \in Runs : SessionOf[r] = s => run[r].status # "queued"

\* What complete_session and delete_session require, with the row locked.
MayClose(s) == Visible(s) /\ SlotFree(s)

CompleteSession(s) ==
    /\ MayClose(s)
    /\ session' = [session EXCEPT ![s].status = "completed"]
    /\ UNCHANGED <<run, replies, deletedAgents>>

DeleteSession(s) ==
    /\ MayClose(s)
    /\ session' = [session EXCEPT ![s].deleted = TRUE]
    /\ UNCHANGED <<run, replies, deletedAgents>>

\* delete_agent looks at no session and no run.
DeleteAgent(a) ==
    /\ a \notin deletedAgents
    /\ deletedAgents' = deletedAgents \union {a}
    /\ UNCHANGED <<run, replies, session>>

StoreNext ==
    \/ \E r \in Runs : CreateRun(r) \/ ClaimRun(r) \/ MarkFailed(r)
    \/ \E r \in Runs, k \in Nat :
          \/ CompleteRun(r, k)
          \/ \E status \in {"queued", "failed"}, error \in ErrorCode :
                MarkError(r, k, status, error)
    \/ \E s \in Sessions : CreateSession(s) \/ CompleteSession(s) \/ DeleteSession(s)
    \/ \E a \in Agents : DeleteAgent(a)

\* Every order of transactions whatever, with no process behind them.
StoreSpec == StoreInit /\ [][StoreNext]_storeVars

-----------------------------------------------------------------------------
(* What the rows satisfy *)

\* A run has an answer exactly when it is completed, and then one only: the
\* message of the attempt that completed it.  Crashes, duplicates and takeovers
\* leave no second assistant message behind (processor.py, _complete).
SingleReply ==
    \A r \in Runs :
        replies[r] = IF run[r].status = "completed" THEN {run[r].attempt} ELSE {}

\* A conversation has at most one run queued or in processing (model.py, the
\* partial unique index; message/service.py, the ConflictError).
SlotExclusive ==
    \A r1, r2 \in Runs :
        Active(r1) /\ Active(r2) /\ SessionOf[r1] = SessionOf[r2] => r1 = r2

\* Nothing is left to do in a deleted conversation, although the request that
\* sends a message looks at the session before the deletion may commit.
DeletedIsQuiet ==
    \A s \in Sessions : session[s].deleted => SlotFree(s)

\* A conversation is not closed under an attempt: what is in processing was
\* claimed in an active session, and no completion or deletion went between.
ProcessingInOpenSession ==
    \A r \in Runs : run[r].status = "processing" =>
        /\ session[SessionOf[r]].status = "active"
        /\ ~session[SessionOf[r]].deleted

\* What has ended stays as it ended: a late claim, completion, error or
\* mark_failed changes neither the row nor the answer.
TerminalIsFinal ==
    [][\A r \in Runs : Terminal(r) =>
          run'[r] = run[r] /\ replies'[r] = replies[r]]_storeVars

-----------------------------------------------------------------------------
\* The rows keep the promise made to the senders.
Outcome(r) ==
    CASE run[r].status = "none"      -> "absent"
      [] Active(r)                   -> "pending"
      [] run[r].status = "completed" -> "answered"
      [] run[r].status = "failed"    -> "failed"

Contract == INSTANCE RunContract WITH
    outcome <- [r \in Runs |-> Outcome(r)],
    answers <- replies,
    removed <- {s \in Sessions : session[s].deleted}

\* Whatever the processes do and whichever of them fail, the rows behave as
\* RunContract allows.
ContractKept == Contract!Spec
=============================================================================
