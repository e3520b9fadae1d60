--------------------------- MODULE AgentRunsProofs ---------------------------
(***************************************************************************)
(* The processes of AgentRuns, under any failures and for any number of    *)
(* runs, handlers and attempts: their types, what they do to the rows, and *)
(* the bound on the calls to the language model.                           *)
(***************************************************************************)
EXTENDS AgentRuns, RunStoreProofs

\* A message names a run, and a handler that is not idle has a message.
LEMMA MessageRun == \A m \in Messages : RunOf(m) \in Runs
BY DEF Messages, RunOf

LEMMA HandlerRun ==
    ASSUME HandlerTypeOK, NEW h \in Handlers, ~At(h, "idle")
    PROVE  RunAt(h) \in Runs /\ handler[h].attempt \in Nat /\ handler[h].msg \in Messages
BY MessageRun DEF HandlerTypeOK, HandlerState, At, RunAt

-----------------------------------------------------------------------------
(* Every step is a transaction of RunStore or leaves the rows alone *)

\* The transaction of a handler's step.
LEMMA TransactionIsStoreStep ==
    ASSUME HandlerTypeOK, NEW h \in Handlers, ~At(h, "idle"), Transaction(h)
    PROVE  [StoreNext]_storeVars
<1>1. RunAt(h) \in Runs /\ handler[h].attempt \in Nat
    BY HandlerRun
<1>2. QED
    BY <1>1 DEF Transaction, StoreNext, storeVars, MarkRetry, MarkFinal, ErrorCode

LEMMA StepIsStoreStep ==
    ASSUME HandlerTypeOK, [Next]_vars
    PROVE  [StoreNext]_storeVars
<1>1. ASSUME NEW r \in Runs, Request(r) PROVE [StoreNext]_storeVars
    BY <1>1 DEF Request, SendCheck, SendCommit, SendPublish, SendUnavailable, StoreNext
<1>2. ASSUME NEW h \in Handlers, NEW m \in Messages, Deliver(h, m)
      PROVE  [StoreNext]_storeVars
    BY <1>2 DEF Deliver
<1>3. ASSUME NEW m \in Messages, RetryExpires(m) PROVE [StoreNext]_storeVars
    BY <1>3 DEF RetryExpires
<1>4. ASSUME NEW h \in Handlers, Handle(h) PROVE [StoreNext]_storeVars
  <2>1. CASE Claim(h)
    <3>1. ~At(h, "idle") /\ Transaction(h)
      BY <2>1 DEF Claim, At, Transaction
    <3>2. QED
      BY <3>1, TransactionIsStoreStep
  <2>2. CASE Expire(h)
    <3>1. ~At(h, "idle") /\ Transaction(h)
      BY <2>2 DEF Expire, At, Transaction
    <3>2. QED
      BY <3>1, TransactionIsStoreStep
  <2>3. CASE LoadContext(h)
    BY <2>3 DEF LoadContext
  <2>4. CASE Respond(h)
    BY <2>4 DEF Respond, Responses
  <2>5. CASE Complete(h)
    <3>1. ~At(h, "idle") /\ (Transaction(h) \/ UNCHANGED storeVars)
      BY <2>5 DEF Complete, At, Transaction
    <3>2. QED
      BY <3>1, TransactionIsStoreStep
  <2>6. CASE HandleError(h)
    <3>1. ~At(h, "idle") /\ Transaction(h)
      BY <2>6 DEF HandleError, At, Transaction
    <3>2. QED
      BY <3>1, TransactionIsStoreStep
  <2>7. CASE PublishRetry(h)
    BY <2>7 DEF PublishRetry
  <2>8. CASE GiveUp(h)
    <3>1. ~At(h, "idle") /\ Transaction(h)
      BY <2>8 DEF GiveUp, At, Transaction
    <3>2. QED
      BY <3>1, TransactionIsStoreStep
  <2>9. CASE Ack(h) \/ Nack(h)
    BY <2>9 DEF Ack, Nack
  <2>10. QED
    BY <1>4, <2>1, <2>2, <2>3, <2>4, <2>5, <2>6, <2>7, <2>8, <2>9 DEF Handle
<1>5. ASSUME Conversation PROVE [StoreNext]_storeVars
    BY <1>5 DEF Conversation, StoreNext
<1>6. ASSUME Failure PROVE [StoreNext]_storeVars
  <2>1. ASSUME NEW r \in Runs, SendPublishFails(r) \/ SendDies(r)
        PROVE  [StoreNext]_storeVars
    BY <2>1 DEF SendPublishFails, SendDies, StoreNext
  <2>2. ASSUME NEW h \in Handlers, DatabaseFails(h) PROVE [StoreNext]_storeVars
    <3>1. ~At(h, "idle") /\ (Transaction(h) \/ UNCHANGED storeVars)
      BY <2>2 DEF DatabaseFails, TransactionSteps, At
    <3>2. QED
      BY <3>1, TransactionIsStoreStep
  <2>3. ASSUME NEW h \in Handlers, PublishRetryFails(h) \/ Crash(h)
                                   \/ ConnectionLost(h) \/ ConnectRefused(h)
        PROVE  [StoreNext]_storeVars
    BY <2>3 DEF PublishRetryFails, Crash, ConnectionLost, ConnectRefused
  <2>4. QED
    BY <1>6, <2>1, <2>2, <2>3 DEF Failure
<1>7. CASE UNCHANGED vars
    BY <1>7 DEF vars
<1>8. QED
    BY <1>1, <1>2, <1>3, <1>4, <1>5, <1>6, <1>7 DEF Next

-----------------------------------------------------------------------------
(* Types *)

\* What a step does to a handler keeps the handlers in their type.
LEMMA GotoType ==
    ASSUME HandlerTypeOK, NEW h \in Handlers, ~At(h, "idle"),
           NEW pc \in Step, NEW k \in Nat, Goto(h, pc) \/ Begin(h, k, pc)
    PROVE  HandlerTypeOK'
<1> USE DEF HandlerTypeOK, HandlerState, At
<1>1. CASE Goto(h, pc)
    BY <1>1 DEF Goto
<1>2. CASE Begin(h, k, pc)
    BY <1>2 DEF Begin
<1>3. QED
    BY <1>1, <1>2

LEMMA ReleaseType ==
    ASSUME HandlerTypeOK, NEW h \in Handlers, Release(h)
    PROVE  HandlerTypeOK'
BY DEF HandlerTypeOK, HandlerState, Release, Idle, Step

\* What a step does to the queues keeps the messages in their places.
LEMMA EnqueueType ==
    ASSUME BrokerTypeOK, NEW m, NEW queue \in Places, Enqueue(m, queue)
    PROVE  BrokerTypeOK'
BY DEF BrokerTypeOK, Enqueue

LEMMA PutBackType ==
    ASSUME BrokerTypeOK, NEW m, NEW counted \in 0 .. 1, PutBack(m, counted)
    PROVE  BrokerTypeOK'
<1>1. place' \in [Messages -> Places]
    BY DEF BrokerTypeOK, PutBack, Places, Live
<1>2. returns' \in [Messages -> Nat]
  <2>1. \A n \in Nat : n + counted \in Nat
    OBVIOUS
  <2>2. QED
    BY <2>1 DEF BrokerTypeOK, PutBack
<1>3. QED
    BY <1>1, <1>2 DEF BrokerTypeOK

LEMMA HandlerTypeStep ==
    ASSUME HandlerTypeOK, RunAssumption, StoreTypeOK, [Next]_vars
    PROVE  HandlerTypeOK'
<1> DEFINE Steps(h) == \E pc \in Step : ~At(h, "idle") /\ (Goto(h, pc) \/ Conclude(h, pc))
<1>1. ASSUME NEW r \in Runs, Request(r) \/ SendPublishFails(r) \/ SendDies(r)
      PROVE  HandlerTypeOK'
    BY <1>1 DEF Request, SendCheck, SendCommit, SendPublish, SendUnavailable,
                SendPublishFails, SendDies, HandlerTypeOK
<1>2. ASSUME NEW h \in Handlers, NEW m \in Messages, Deliver(h, m)
      PROVE  HandlerTypeOK'
  <2>1. [pc |-> "claim", msg |-> m, attempt |-> 0, attached |-> TRUE] \in HandlerState
    BY DEF HandlerState, Step
  <2>2. QED
    BY <1>2, <2>1 DEF Deliver, HandlerTypeOK
<1>3. ASSUME NEW m \in Messages, RetryExpires(m) PROVE HandlerTypeOK'
    BY <1>3 DEF RetryExpires, HandlerTypeOK
<1>4. ASSUME NEW h \in Handlers, Steps(h) PROVE HandlerTypeOK'
    BY <1>4, GotoType DEF Conclude
<1>5. ASSUME NEW h \in Handlers, Claim(h) PROVE HandlerTypeOK'
  <2>1. ClaimedRow(run[RunAt(h)]).attempt \in Nat
    BY <1>5, HandlerRun DEF Claim, At, ClaimedRow, StoreTypeOK, RunRow
  <2>2. CASE Claimable(RunAt(h))
    BY <1>5, <2>1, <2>2, GotoType DEF Claim, At, Step, Working
  <2>3. CASE ~Claimable(RunAt(h))
    BY <1>5, <2>3, <1>4 DEF Claim, At, Step
  <2>4. QED
    BY <2>2, <2>3
<1>6. ASSUME NEW h \in Handlers,
             Expire(h) \/ LoadContext(h) \/ Respond(h) \/ Complete(h) \/ HandleError(h)
             \/ PublishRetry(h) \/ GiveUp(h)
      PROVE  HandlerTypeOK'
  <2> USE DEF At, Step, Working
  <2>1. CASE Expire(h)
    BY <2>1, <1>4 DEF Expire
  <2>2. CASE LoadContext(h)
    BY <2>2, <1>4 DEF LoadContext
  <2>3. CASE Respond(h)
    BY <2>3, <1>4 DEF Respond, Responses
  <2>4. CASE Complete(h)
    BY <2>4, <1>4 DEF Complete
  <2>5. CASE HandleError(h)
    BY <2>5, <1>4 DEF HandleError
  <2>6. CASE PublishRetry(h)
    BY <2>6, <1>4 DEF PublishRetry
  <2>7. CASE GiveUp(h)
    BY <2>7, <1>4 DEF GiveUp
  <2>8. QED
    BY <1>6, <2>1, <2>2, <2>3, <2>4, <2>5, <2>6, <2>7
<1>7. ASSUME NEW h \in Handlers, Ack(h) \/ Nack(h) \/ Crash(h) PROVE HandlerTypeOK'
    BY <1>7, ReleaseType DEF Ack, Nack, Crash
<1>8. ASSUME NEW h \in Handlers,
             PublishRetryFails(h) \/ DatabaseFails(h) \/ ConnectRefused(h)
      PROVE  HandlerTypeOK'
  <2> USE DEF At, Step, Working
  <2>1. CASE PublishRetryFails(h)
    BY <2>1, <1>4 DEF PublishRetryFails
  <2>2. CASE DatabaseFails(h)
    BY <2>2, <1>4 DEF DatabaseFails, TransactionSteps
  <2>3. CASE ConnectRefused(h)
    BY <2>3, <1>4 DEF ConnectRefused, TransactionSteps
  <2>4. QED
    BY <1>8, <2>1, <2>2, <2>3
<1>9. ASSUME NEW h \in Handlers, ConnectionLost(h) PROVE HandlerTypeOK'
  <2>1. CASE At(h, "stuck")
    BY <1>9, <2>1, ReleaseType DEF ConnectionLost
  <2>2. CASE ~At(h, "stuck")
    <3>1. handler' = [handler EXCEPT ![h].attached = FALSE]
      BY <1>9, <2>2 DEF ConnectionLost
    <3>2. QED
      BY <3>1 DEF HandlerTypeOK, HandlerState
  <2>3. QED
    BY <2>1, <2>2
<1>10. ASSUME Conversation \/ UNCHANGED vars PROVE HandlerTypeOK'
    BY <1>10 DEF Conversation, vars, HandlerTypeOK
<1>11. QED
    BY <1>1, <1>2, <1>3, <1>5, <1>6, <1>7, <1>8, <1>9, <1>10 DEF Next, Handle, Failure

LEMMA BrokerTypeStep ==
    ASSUME BrokerTypeOK, [Next]_vars
    PROVE  BrokerTypeOK'
<1> DEFINE Moves == \/ UNCHANGED brokerVars
                    \/ \E queue \in Places : \E m : Enqueue(m, queue)
                    \/ \E counted \in 0 .. 1 : \E m : PutBack(m, counted)
<1>1. ASSUME NEW r \in Runs, Request(r) \/ SendPublishFails(r) \/ SendDies(r) PROVE Moves
    BY <1>1 DEF Request, SendCheck, SendCommit, SendPublish, SendUnavailable,
                SendPublishFails, SendDies, Places, Live
<1>2. ASSUME NEW h \in Handlers, NEW m \in Messages, Deliver(h, m) \/ RetryExpires(m)
      PROVE  Moves
    BY <1>2 DEF Deliver, Take, RetryExpires, RetryDelayOver, Places, Live
<1>3. ASSUME NEW m \in Messages, RetryExpires(m) PROVE Moves
    BY <1>3 DEF RetryExpires, RetryDelayOver, Places, Live
<1>4. ASSUME NEW h \in Handlers, Handle(h) PROVE Moves
    BY <1>4 DEF Handle, Claim, Expire, LoadContext, Respond, Responses, Complete, HandleError,
                PublishRetry, GiveUp, Ack, Nack, Settle, Places, Live
<1>5. ASSUME NEW h \in Handlers,
             PublishRetryFails(h) \/ Crash(h) \/ ConnectionLost(h) \/ DatabaseFails(h)
             \/ ConnectRefused(h)
      PROVE  Moves
    BY <1>5 DEF PublishRetryFails, Crash, ConnectionLost, DatabaseFails, ConnectRefused,
                Places, Live
<1>6. ASSUME Conversation \/ UNCHANGED vars PROVE Moves
    BY <1>6 DEF Conversation, vars
<1>7. Moves
    BY <1>1, <1>2, <1>3, <1>4, <1>5, <1>6 DEF Next, Failure
<1>8. QED
    BY <1>7, EnqueueType, PutBackType DEF BrokerTypeOK, brokerVars

LEMMA TypeStep == TypeOK /\ [Next]_vars => TypeOK'
<1> SUFFICES ASSUME TypeOK, [Next]_vars
             PROVE  TypeOK'
    OBVIOUS
<1>1. StoreTypeOK'
    BY StepIsStoreStep, StoreTypeStep DEF TypeOK
<1>2. BrokerTypeOK'
    BY BrokerTypeStep DEF TypeOK
<1>3. HandlerTypeOK'
    BY HandlerTypeStep, RunAssumption DEF TypeOK
<1>4. req' \in [Runs -> ReqState]
  <2>1. ASSUME NEW r \in Runs, NEW from, NEW to \in ReqState, Answer(r, from, to)
        PROVE  req' \in [Runs -> ReqState]
    BY <2>1 DEF TypeOK, Answer
  <2>2. ASSUME NEW r \in Runs, Request(r) \/ SendPublishFails(r) \/ SendDies(r)
        PROVE  req' \in [Runs -> ReqState]
    BY <2>1, <2>2 DEF Request, SendCheck, SendCommit, SendPublish, SendUnavailable,
                      SendPublishFails, SendDies, ReqState
  <2>3. ASSUME NEW h \in Handlers, NEW m \in Messages, Deliver(h, m)
        PROVE  UNCHANGED req
    BY <2>3 DEF Deliver
  <2>4. ASSUME NEW m \in Messages, RetryExpires(m) PROVE UNCHANGED req
    BY <2>4 DEF RetryExpires
  <2>5. ASSUME NEW h \in Handlers, Handle(h) PROVE UNCHANGED req
    BY <2>5 DEF Handle, Claim, Expire, LoadContext, Respond, Responses, Complete, HandleError,
                PublishRetry, GiveUp, Ack, Nack
  <2>6. ASSUME NEW h \in Handlers,
               PublishRetryFails(h) \/ Crash(h) \/ ConnectionLost(h) \/ DatabaseFails(h)
               \/ ConnectRefused(h)
        PROVE  UNCHANGED req
    BY <2>6 DEF PublishRetryFails, Crash, ConnectionLost, DatabaseFails, ConnectRefused
  <2>7. Conversation \/ UNCHANGED vars => UNCHANGED req
    BY DEF Conversation, vars
  <2>8. QED
    BY <2>2, <2>3, <2>4, <2>5, <2>6, <2>7 DEF Next, Failure, TypeOK
<1>5. called' \in [Runs -> SUBSET Nat] /\ faults' \in Nat
  <2>1. ASSUME NEW kind, Fault(kind) PROVE faults' \in Nat
    BY <2>1 DEF Fault, TypeOK
  <2>2. ASSUME NEW r \in Runs, Request(r) \/ SendPublishFails(r) \/ SendDies(r)
        PROVE  UNCHANGED called /\ faults' \in Nat
    BY <2>1, <2>2 DEF Request, SendCheck, SendCommit, SendPublish, SendUnavailable,
                      SendPublishFails, SendDies, TypeOK
  <2>3. ASSUME NEW h \in Handlers, NEW m \in Messages, Deliver(h, m)
        PROVE  UNCHANGED <<called, faults>>
    BY <2>3 DEF Deliver
  <2>4. ASSUME NEW m \in Messages, RetryExpires(m) PROVE UNCHANGED <<called, faults>>
    BY <2>4 DEF RetryExpires
  <2>5. ASSUME NEW h \in Handlers, Handle(h)
        PROVE  called' \in [Runs -> SUBSET Nat] /\ UNCHANGED faults
    <3>1. CASE LoadContext(h)
      BY <3>1, HandlerRun DEF LoadContext, TypeOK, At
    <3>2. CASE ~LoadContext(h)
      BY <2>5, <3>2 DEF Handle, Claim, Expire, Respond, Responses, Complete, HandleError,
                        PublishRetry, GiveUp, Ack, Nack, TypeOK
    <3>3. QED
      BY <3>1, <3>2
  <2>6. ASSUME NEW h \in Handlers,
               PublishRetryFails(h) \/ Crash(h) \/ ConnectionLost(h) \/ DatabaseFails(h)
               \/ ConnectRefused(h)
        PROVE  UNCHANGED called /\ faults' \in Nat
    BY <2>1, <2>6 DEF PublishRetryFails, Crash, ConnectionLost, DatabaseFails,
                      ConnectRefused
  <2>7. Conversation \/ UNCHANGED vars => UNCHANGED <<called, faults>>
    BY DEF Conversation, vars
  <2>8. QED
    BY <2>2, <2>3, <2>4, <2>5, <2>6, <2>7 DEF Next, Failure, TypeOK
<1>6. QED
    BY <1>1, <1>2, <1>3, <1>4, <1>5 DEF TypeOK

LEMMA InitType == Init => TypeOK
<1> SUFFICES ASSUME Init PROVE TypeOK
    OBVIOUS
<1>1. StoreTypeOK
    BY StoreInitInv DEF Init, StoreInv
<1>2. BrokerTypeOK
    BY DEF Init, BrokerInit, BrokerTypeOK, Places
<1>3. HandlerTypeOK
    BY DEF Init, Idle, HandlerTypeOK, HandlerState, Step
<1>4. QED
    BY <1>1, <1>2, <1>3 DEF Init, TypeOK, ReqState

\* Every state of every behaviour is well typed, for all constants.
THEOREM TypeInvariant == Spec => []TypeOK
BY InitType, TypeStep, PTL DEF Spec

\* The processes do to the rows only what the transactions of RunStore allow,
\* so what RunStoreProofs says of the rows holds of the whole system.
THEOREM ImplementsStore == Spec => StoreSpec
<1>1. Init => StoreInit
    BY DEF Init
<1>2. TypeOK /\ [Next]_vars => [StoreNext]_storeVars
    BY StepIsStoreStep DEF TypeOK
<1>3. QED
    BY <1>1, <1>2, TypeInvariant, PTL DEF Spec, StoreSpec

\* The inductive invariant of the rows.
LEMMA RowsInvariant == Spec => []StoreInv
BY ImplementsStore, StoreInvariant, PTL

\* A run is answered by one message when it is completed and by none otherwise,
\* whatever is redelivered, taken over or cut short.
THEOREM OneReply == Spec => []SingleReply
<1>1. StoreInv => SingleReply
    BY DEF StoreInv
<1>2. QED
    BY <1>1, RowsInvariant, PTL

\* A conversation has at most one active run, whatever requests race for it.
THEOREM OneActiveRun == Spec => []SlotExclusive
<1>1. StoreInv => SlotExclusive
    BY DEF StoreInv
<1>2. QED
    BY <1>1, RowsInvariant, PTL

\* A deleted conversation has no active run.
THEOREM NothingLeftInDeleted == Spec => []DeletedIsQuiet
<1>1. StoreInv => DeletedIsQuiet
    BY DEF StoreInv
<1>2. QED
    BY <1>1, RowsInvariant, PTL

\* No conversation is completed or deleted while an attempt is in processing.
THEOREM NothingClosedUnderAttempt == Spec => []ProcessingInOpenSession
<1>1. StoreInv => ProcessingInOpenSession
    BY DEF StoreInv
<1>2. QED
    BY <1>1, RowsInvariant, PTL

\* No failure and no late process changes a run that has ended.
THEOREM RunsEndOnce == Spec => TerminalIsFinal
BY ImplementsStore, StoreTerminalIsFinal, PTL

\* The whole system keeps the contract with the senders of messages.
THEOREM SystemKeepsContract == Spec => ContractKept
BY ImplementsStore, StoreKeepsContract, PTL

\* No redelivery, takeover, timeout or late write takes a run back to a row it
\* had before: attempts only follow each other, and an end is the end
\* (repository.py, claim_run, _finish_attempt, complete_attempt).
THEOREM RunsGoForward == Spec => RowsGoForward
BY ImplementsStore, StoreRowsGoForward, PTL
=============================================================================
