--------------------------- MODULE RunStoreProofs ---------------------------
(***************************************************************************)
(* The rows keep their invariants, and the contract, in every order of     *)
(* transactions: for any number of runs, conversations and attempts.       *)
(***************************************************************************)
EXTENDS RunStore, TLAPS

\* Inductive as it stands: SlotExclusive and DeletedIsQuiet rest on what is
\* tested under the session lock, ProcessingInOpenSession on the claim,
\* SingleReply on the fence.
StoreInv ==
    /\ StoreTypeOK
    /\ SingleReply
    /\ SlotExclusive
    /\ DeletedIsQuiet
    /\ ProcessingInOpenSession

\* The empty database satisfies the invariant.
LEMMA StoreInitInv == StoreInit => StoreInv
BY RunAssumption
   DEF StoreInit, StoreInv, StoreTypeOK, RunRow, SessionRow, RunStatus, ErrorCode,
       ActiveStatus, TerminalStatus, SingleReply, SlotExclusive, DeletedIsQuiet,
       SlotFree, Active, ProcessingInOpenSession

\* Every transaction keeps the rows in their types.
LEMMA StoreTypeStep == StoreTypeOK /\ [StoreNext]_storeVars => StoreTypeOK'
<1> SUFFICES ASSUME StoreTypeOK, [StoreNext]_storeVars
             PROVE  StoreTypeOK'
    OBVIOUS
<1> USE DEF StoreTypeOK, RunRow, SessionRow, RunStatus, ErrorCode, ActiveStatus,
            TerminalStatus
<1>1. ASSUME NEW r \in Runs, CreateRun(r) PROVE StoreTypeOK'
    BY <1>1 DEF CreateRun, NewRow
<1>2. ASSUME NEW r \in Runs, ClaimRun(r) PROVE StoreTypeOK'
    BY <1>2 DEF ClaimRun, ClaimedRow
<1>3. ASSUME NEW r \in Runs, MarkFailed(r) PROVE StoreTypeOK'
    BY <1>3 DEF MarkFailed, Transition
<1>4. ASSUME NEW r \in Runs, NEW k \in Nat, CompleteRun(r, k) PROVE StoreTypeOK'
  <2>1. Transition(run[r], "completed", "none") \in RunRow
    BY DEF Transition
  <2>2. CASE Owns(r, k)
    <3>1. run' \in [Runs -> RunRow]
      BY <1>4, <2>1, <2>2 DEF CompleteRun
    <3>2. replies' \in [Runs -> SUBSET Nat] /\ UNCHANGED <<session, deletedAgents>>
      BY <1>4, <2>2 DEF CompleteRun
    <3>3. QED
      BY <3>1, <3>2
  <2>3. CASE ~Owns(r, k)
    BY <1>4, <2>3 DEF CompleteRun
  <2>4. QED
    BY <2>2, <2>3
<1>5. ASSUME NEW r \in Runs, NEW k \in Nat, NEW status \in {"queued", "failed"},
             NEW error \in ErrorCode, MarkError(r, k, status, error)
      PROVE  StoreTypeOK'
    BY <1>5 DEF MarkError, Transition
<1>6. ASSUME NEW s \in Sessions, CreateSession(s) \/ CompleteSession(s) \/ DeleteSession(s)
      PROVE  StoreTypeOK'
  <2>1. CASE CreateSession(s)
    BY <2>1 DEF CreateSession
  <2>2. CASE CompleteSession(s)
    BY <2>2 DEF CompleteSession
  <2>3. CASE DeleteSession(s)
    BY <2>3 DEF DeleteSession
  <2>4. QED
    BY <1>6, <2>1, <2>2, <2>3
<1>7. ASSUME NEW a \in Agents, DeleteAgent(a) PROVE StoreTypeOK'
    BY <1>7 DEF DeleteAgent
<1>8. CASE UNCHANGED storeVars
    BY <1>8 DEF storeVars
<1>9. QED
    BY <1>1, <1>2, <1>3, <1>4, <1>5, <1>6, <1>7, <1>8 DEF StoreNext

\* Every transaction keeps the whole invariant.
LEMMA StoreStep == StoreInv /\ [StoreNext]_storeVars => StoreInv'
<1> SUFFICES ASSUME StoreInv, [StoreNext]_storeVars
             PROVE  SingleReply' /\ SlotExclusive' /\ DeletedIsQuiet'
                    /\ ProcessingInOpenSession'
    BY StoreTypeStep DEF StoreInv
<1> DEFINE Goal == SingleReply' /\ SlotExclusive' /\ DeletedIsQuiet'
                   /\ ProcessingInOpenSession'
<1> USE RunAssumption
    DEF StoreInv, StoreTypeOK, RunRow, SessionRow, SingleReply, SlotExclusive,
        DeletedIsQuiet, ProcessingInOpenSession, SlotFree, Active, ActiveStatus
\* The index and the visibility of the session make room for the new run.
<1>1. ASSUME NEW r \in Runs, CreateRun(r) PROVE Goal
    BY <1>1 DEF CreateRun, NewRow, Accepts, Visible
\* A claim leaves an active run active, in a session that is open.
<1>2. ASSUME NEW r \in Runs, ClaimRun(r) PROVE Goal
    BY <1>2 DEF ClaimRun, ClaimedRow, Claimable, Runnable, Visible
<1>3. ASSUME NEW r \in Runs, MarkFailed(r) PROVE Goal
    BY <1>3 DEF MarkFailed, Transition, Failable
\* Only a run in processing, hence without a reply, gets one.
<1>4. ASSUME NEW r \in Runs, NEW k \in Nat, CompleteRun(r, k) PROVE Goal
  <2>1. CASE Owns(r, k)
    <3>1. run' = [run EXCEPT ![r] = Transition(@, "completed", "none")]
      BY <1>4, <2>1 DEF CompleteRun
    <3>2. replies[r] = {} /\ replies' = [replies EXCEPT ![r] = {k}]
      BY <1>4, <2>1 DEF CompleteRun, Owns
    <3>3. UNCHANGED session
      BY <1>4 DEF CompleteRun
    <3>4. SingleReply'
      BY <2>1, <3>1, <3>2 DEF Owns, Transition
    <3>5. SlotExclusive' /\ DeletedIsQuiet' /\ ProcessingInOpenSession'
      BY <3>1, <3>3 DEF Transition
    <3>6. QED
      BY <3>4, <3>5
  <2>2. CASE ~Owns(r, k)
    BY <1>4, <2>2 DEF CompleteRun
  <2>3. QED
    BY <2>1, <2>2
<1>5. ASSUME NEW r \in Runs, NEW k \in Nat, NEW status \in {"queued", "failed"},
             NEW error \in ErrorCode, MarkError(r, k, status, error)
      PROVE  Goal
    BY <1>5 DEF MarkError, Transition, Owns
\* No run of the session is active, so none is in processing.
<1>6. ASSUME NEW s \in Sessions, CompleteSession(s) PROVE Goal
    BY <1>6 DEF CompleteSession, MayClose
<1>7. ASSUME NEW s \in Sessions, DeleteSession(s) PROVE Goal
    BY <1>7 DEF DeleteSession, MayClose
<1>8. ASSUME NEW a \in Agents, DeleteAgent(a) PROVE Goal
    BY <1>8 DEF DeleteAgent
<1>9. ASSUME NEW s \in Sessions, CreateSession(s) PROVE Goal
    BY <1>9 DEF CreateSession
<1>10. ASSUME UNCHANGED storeVars PROVE Goal
    BY <1>10 DEF storeVars
<1> HIDE DEF Goal
<1>11. Goal
    BY ONLY <1>1, <1>2, <1>3, <1>4, <1>5, <1>6, <1>7, <1>8, <1>9, <1>10,
            [StoreNext]_storeVars DEF StoreNext
<1>12. QED
    BY <1>11 DEF Goal

\* The rows satisfy their invariants whatever the order of the transactions.
THEOREM StoreInvariant == StoreSpec => []StoreInv
<1>1. StoreInit => StoreInv
    BY StoreInitInv
<1>2. StoreInv /\ [StoreNext]_storeVars => StoreInv'
    BY StoreStep
<1>3. QED
    BY <1>1, <1>2, PTL DEF StoreSpec

-----------------------------------------------------------------------------
\* A run that ended is changed by no transaction: each tests that the run is
\* active, or in processing under the writing attempt.
LEMMA TerminalStep ==
    ASSUME StoreTypeOK, [StoreNext]_storeVars, NEW r \in Runs, Terminal(r)
    PROVE  run'[r] = run[r] /\ replies'[r] = replies[r]
<1> USE DEF StoreTypeOK, RunRow, Terminal, TerminalStatus
<1> DEFINE Goal == run'[r] = run[r] /\ replies'[r] = replies[r]
<1>1. ASSUME NEW q \in Runs, CreateRun(q) PROVE Goal
    BY <1>1 DEF CreateRun
<1>2. ASSUME NEW q \in Runs, ClaimRun(q) PROVE Goal
    BY <1>2 DEF ClaimRun, Claimable, Active, ActiveStatus
<1>3. ASSUME NEW q \in Runs, MarkFailed(q) PROVE Goal
    BY <1>3 DEF MarkFailed, Transition, Failable, Active, ActiveStatus
<1>4. ASSUME NEW q \in Runs, NEW k \in Nat, CompleteRun(q, k) PROVE Goal
    BY <1>4 DEF CompleteRun, Transition, Owns
<1>5. ASSUME NEW q \in Runs, NEW k \in Nat, NEW status \in {"queued", "failed"},
             NEW error \in ErrorCode, MarkError(q, k, status, error)
      PROVE  Goal
    BY <1>5 DEF MarkError, Transition, Owns
<1>6. ASSUME NEW s \in Sessions, CreateSession(s) \/ CompleteSession(s) \/ DeleteSession(s)
      PROVE  Goal
    BY <1>6 DEF CreateSession, CompleteSession, DeleteSession
<1>7. ASSUME NEW a \in Agents, DeleteAgent(a) PROVE Goal
    BY <1>7 DEF DeleteAgent
<1>8. CASE UNCHANGED storeVars
    BY <1>8 DEF storeVars
<1>9. QED
    BY <1>1, <1>2, <1>3, <1>4, <1>5, <1>6, <1>7, <1>8 DEF StoreNext

\* What has ended stays as it ended, in every order of transactions.
THEOREM StoreTerminalIsFinal == StoreSpec => TerminalIsFinal
<1> DEFINE Kept == \A r \in Runs : Terminal(r) =>
                      run'[r] = run[r] /\ replies'[r] = replies[r]
<1>1. StoreTypeOK /\ [StoreNext]_storeVars => [Kept]_storeVars
    BY TerminalStep
<1>2. StoreInv => StoreTypeOK
    BY DEF StoreInv
<1>3. QED
    BY <1>1, <1>2, StoreInvariant, PTL DEF StoreSpec, TerminalIsFinal

-----------------------------------------------------------------------------
\* The initial rows are an initial state of the contract.
LEMMA ContractInit == StoreInit => Contract!Init
BY DEF StoreInit, Contract!Init, Outcome, Active, ActiveStatus

\* Every transaction is a step of the contract or none.
LEMMA ContractStep ==
    ASSUME StoreInv, [StoreNext]_storeVars
    PROVE  [Contract!Next]_(Contract!contractVars)
<1> USE RunAssumption
    DEF StoreInv, StoreTypeOK, RunRow, SessionRow, RunStatus, ActiveStatus,
        TerminalStatus, Active, Outcome
<1> DEFINE outcome == [r \in Runs |-> Outcome(r)]
           removed == {s \in Sessions : session[s].deleted}
           Stutter == outcome' = outcome /\ replies' = replies /\ removed' = removed
           Goal    == Contract!Next \/ Stutter
<1>1. ASSUME NEW r \in Runs, CreateRun(r) PROVE Goal
  <2>1. outcome' = [outcome EXCEPT ![r] = "pending"]
    BY <1>1 DEF CreateRun, NewRow
  <2>2. outcome[r] = "absent" /\ SessionOf[r] \notin removed
    BY <1>1 DEF CreateRun, Accepts, Visible
  <2>3. Contract!Pending(SessionOf[r]) = {}
    BY <1>1 DEF CreateRun, Accepts, SlotFree, Contract!Pending
  <2>4. removed' = removed /\ replies' = replies
    BY <1>1 DEF CreateRun
  <2>5. Contract!Accept(r)
    BY <2>1, <2>2, <2>3, <2>4 DEF Contract!Accept
  <2>6. QED
    BY <2>5 DEF Contract!Next
\* Queued and in processing are both pending.
<1>2. ASSUME NEW r \in Runs, ClaimRun(r) PROVE Goal
    BY <1>2 DEF ClaimRun, ClaimedRow, Claimable
<1>3. ASSUME NEW r \in Runs, MarkFailed(r) PROVE Goal
  <2>1. CASE Failable(r)
    <3>1. outcome' = [outcome EXCEPT ![r] = "failed"] /\ outcome[r] = "pending"
      BY <1>3, <2>1 DEF MarkFailed, Transition, Failable
    <3>2. removed' = removed /\ replies' = replies
      BY <1>3 DEF MarkFailed, Transition
    <3>3. Contract!Fail(r)
      BY <3>1, <3>2 DEF Contract!Fail
    <3>4. QED
      BY <3>3 DEF Contract!Next
  <2>2. CASE ~Failable(r)
    BY <1>3, <2>2 DEF MarkFailed
  <2>3. QED
    BY <2>1, <2>2
<1>4. ASSUME NEW r \in Runs, NEW k \in Nat, CompleteRun(r, k) PROVE Goal
  <2>1. CASE Owns(r, k)
    <3> USE DEF Transition, Owns
    <3>0. run' = [run EXCEPT ![r] = Transition(@, "completed", "none")]
      BY <1>4, <2>1 DEF CompleteRun
    <3>1. outcome' = [outcome EXCEPT ![r] = "answered"] /\ outcome[r] = "pending"
      BY <2>1, <3>0
    <3>2. replies' = [replies EXCEPT ![r] = {k}] /\ k \in replies'[r]
      BY <1>4, <2>1 DEF CompleteRun, Transition, Owns, SingleReply
    <3>3. removed' = removed
      BY <1>4 DEF CompleteRun, Transition
    <3>4. Contract!Answer(r)
      BY <3>1, <3>2, <3>3 DEF Contract!Answer
    <3>5. QED
      BY <3>4 DEF Contract!Next
  <2>2. CASE ~Owns(r, k)
    BY <1>4, <2>2 DEF CompleteRun
  <2>3. QED
    BY <2>1, <2>2
<1>5. ASSUME NEW r \in Runs, NEW k \in Nat, NEW status \in {"queued", "failed"},
             NEW error \in ErrorCode, MarkError(r, k, status, error)
      PROVE  Goal
  <2>1. CASE Owns(r, k) /\ status = "failed"
    <3>1. outcome' = [outcome EXCEPT ![r] = "failed"] /\ outcome[r] = "pending"
      BY <1>5, <2>1 DEF MarkError, Transition, Owns
    <3>2. removed' = removed /\ replies' = replies
      BY <1>5 DEF MarkError, Transition
    <3>3. Contract!Fail(r)
      BY <3>1, <3>2 DEF Contract!Fail
    <3>4. QED
      BY <3>3 DEF Contract!Next
  <2>2. CASE Owns(r, k) /\ status = "queued"
    BY <1>5, <2>2 DEF MarkError, Transition, Owns
  <2>3. CASE ~Owns(r, k)
    BY <1>5, <2>3 DEF MarkError
  <2>4. QED
    BY <2>1, <2>2, <2>3
<1>6. ASSUME NEW s \in Sessions, CompleteSession(s) PROVE Goal
    BY <1>6 DEF CompleteSession
<1>7. ASSUME NEW s \in Sessions, DeleteSession(s) PROVE Goal
  <2>1. Contract!Pending(s) = {}
    BY <1>7 DEF DeleteSession, MayClose, SlotFree, Contract!Pending
  <2>2. removed' = removed \union {s}
    BY <1>7 DEF DeleteSession
  <2>3. outcome' = outcome /\ replies' = replies
    BY <1>7 DEF DeleteSession
  <2>4. Contract!Remove(s)
    BY <2>1, <2>2, <2>3 DEF Contract!Remove
  <2>5. QED
    BY <2>4 DEF Contract!Next
<1>8. ASSUME NEW a \in Agents, DeleteAgent(a) PROVE Goal
    BY <1>8 DEF DeleteAgent
<1>9. ASSUME NEW s \in Sessions, CreateSession(s) PROVE Goal
    BY <1>9 DEF CreateSession
<1>10. ASSUME UNCHANGED storeVars PROVE Goal
  <2>1. outcome' = outcome
    BY <1>10 DEF storeVars
  <2>2. removed' = removed /\ replies' = replies
    BY <1>10 DEF storeVars
  <2>3. QED
    BY <2>1, <2>2
<1> HIDE DEF Goal
<1>11. Goal
    BY ONLY <1>1, <1>2, <1>3, <1>4, <1>5, <1>6, <1>7, <1>8, <1>9, <1>10,
            [StoreNext]_storeVars DEF StoreNext
<1>12. QED
    BY <1>11 DEF Goal, Contract!contractVars

\* The rows implement the contract: one answer or one failure per accepted
\* run, one pending run per conversation, none in a removed one.
THEOREM StoreKeepsContract == StoreSpec => ContractKept
<1>1. StoreInit => Contract!Init
    BY ContractInit
<1>2. StoreInv /\ [StoreNext]_storeVars => [Contract!Next]_(Contract!contractVars)
    BY ContractStep
<1>3. QED
    BY <1>1, <1>2, StoreInvariant, PTL DEF StoreSpec, ContractKept, Contract!Spec

-----------------------------------------------------------------------------
(* Rows only go forward *)

\* How far a run is within one attempt number: at work, put back, ended.
Stage(row) ==
    CASE row.status = "processing"      -> 0
      [] row.status = "queued"          -> 1
      [] row.status \in TerminalStatus  -> 2

\* new can follow old in the life of a run: the row was created in between, or
\* the run was active and got a later attempt, or went on within its attempt.
Later(new, old) ==
    /\ new.status # "none"
    /\ \/ old.status = "none"
       \/ /\ old.status \in ActiveStatus
          /\ \/ new.attempt > old.attempt
             \/ new.attempt = old.attempt /\ Stage(new) > Stage(old)

RowsForward == \A r \in Runs : run'[r] = run[r] \/ Later(run'[r], run[r])

RowsGoForward == [][RowsForward]_storeVars

\* Later is a strict order, so nobody who reads a row twice and finds the same
\* one has missed a change in between.
LEMMA LaterIsStrict ==
    /\ \A p \in RunRow : ~Later(p, p)
    /\ \A p, q, o \in RunRow : Later(p, q) /\ Later(q, o) => Later(p, o)
BY DEF Later, Stage, RunRow, RunStatus, ActiveStatus, TerminalStatus

\* Each transaction moves the rows it changes forward.
LEMMA ForwardStep ==
    ASSUME StoreTypeOK, [StoreNext]_storeVars
    PROVE  RowsForward
<1> SUFFICES ASSUME NEW r \in Runs
             PROVE  run'[r] = run[r] \/ Later(run'[r], run[r])
    BY DEF RowsForward
<1> DEFINE Goal == run'[r] = run[r] \/ Later(run'[r], run[r])
<1> USE DEF StoreTypeOK, RunRow, RunStatus, ActiveStatus, TerminalStatus, Later, Stage
<1>1. ASSUME NEW q \in Runs, CreateRun(q) PROVE Goal
    BY <1>1 DEF CreateRun, NewRow
<1>2. ASSUME NEW q \in Runs, ClaimRun(q) PROVE Goal
    BY <1>2 DEF ClaimRun, ClaimedRow, Claimable, Active
<1>3. ASSUME NEW q \in Runs, MarkFailed(q) PROVE Goal
    BY <1>3 DEF MarkFailed, Transition, Failable, Active
<1>4. ASSUME NEW q \in Runs, NEW k \in Nat, CompleteRun(q, k) PROVE Goal
    BY <1>4 DEF CompleteRun, Transition, Owns
<1>5. ASSUME NEW q \in Runs, NEW k \in Nat, NEW status \in {"queued", "failed"},
             NEW error \in ErrorCode, MarkError(q, k, status, error)
      PROVE  Goal
    BY <1>5 DEF MarkError, Transition, Owns
<1>6. ASSUME NEW s \in Sessions, CreateSession(s) \/ CompleteSession(s) \/ DeleteSession(s)
      PROVE  Goal
    BY <1>6 DEF CreateSession, CompleteSession, DeleteSession
<1>7. ASSUME NEW a \in Agents, DeleteAgent(a) PROVE Goal
    BY <1>7 DEF DeleteAgent
<1>8. CASE UNCHANGED storeVars
    BY <1>8 DEF storeVars
<1>9. QED
    BY <1>1, <1>2, <1>3, <1>4, <1>5, <1>6, <1>7, <1>8 DEF StoreNext

\* No transaction, in whatever order, takes a run back to a row it had before:
\* a retry is queued under the number it failed with and claimed under the next
\* (repository.py, attempt_count + 1 in the claim and nowhere else).
THEOREM StoreRowsGoForward == StoreSpec => RowsGoForward
<1>1. StoreTypeOK /\ [StoreNext]_storeVars => [RowsForward]_storeVars
    BY ForwardStep
<1>2. StoreInv => StoreTypeOK
    BY DEF StoreInv
<1>3. QED
    BY <1>1, <1>2, StoreInvariant, PTL DEF StoreSpec, RowsGoForward
=============================================================================
