---------------------------- MODULE AttemptProofs ----------------------------
(***************************************************************************)
(* What the handlers do with their attempts.  Under any failures: why no   *)
(* attempt calls the language model twice, no run calls it more than       *)
(* MaxAttempts times or is claimed oftener than the failures allow, no     *)
(* retry copy is sent twice, an attempt that was taken over writes         *)
(* nothing, and the answers of a POST are true.  Under the failures each   *)
(* of them can bear: why an attempt at work keeps its run, and writes it   *)
(* alone, why the 503 is true, and why no run is forgotten.                *)
(***************************************************************************)
EXTENDS AgentRunsProofs, FiniteSetTheorems

\* The transactions hand out attempt numbers in order: a number is never taken
\* back, and one that was given out never owns its run again once it lost it.
LEMMA NumbersGrow ==
    ASSUME StoreTypeOK, AttemptsGivenOut, [StoreNext]_storeVars, NEW r \in Runs
    PROVE  /\ run[r].attempt \in Nat
           /\ run'[r].attempt \in Nat
           /\ run[r].attempt <= run'[r].attempt
           /\ run'[r].status = "none" => run'[r].attempt = 0
           /\ \A k \in 1 .. run[r].attempt : Owns(r, k)' => Owns(r, k)
<1> DEFINE Goal ==
             /\ run'[r].attempt \in Nat
             /\ run[r].attempt <= run'[r].attempt
             /\ run'[r].status = "none" => run'[r].attempt = 0
             /\ \A k \in 1 .. run[r].attempt : Owns(r, k)' => Owns(r, k)
<1>0. run[r].attempt \in Nat
    BY DEF StoreTypeOK, RunRow
<1> USE <1>0 DEF StoreTypeOK, RunRow, AttemptsGivenOut, Owns
<1>1. ASSUME NEW q \in Runs, CreateRun(q) PROVE Goal
    BY <1>1 DEF CreateRun, NewRow
<1>2. ASSUME NEW q \in Runs, ClaimRun(q) PROVE Goal
    BY <1>2 DEF ClaimRun, ClaimedRow
<1>3. ASSUME NEW q \in Runs, MarkFailed(q) PROVE Goal
    BY <1>3 DEF MarkFailed, Transition
<1>4. ASSUME NEW q \in Runs, NEW k \in Nat, CompleteRun(q, k) PROVE Goal
    BY <1>4 DEF CompleteRun, Transition
<1>5. ASSUME NEW q \in Runs, NEW k \in Nat, NEW status \in {"queued", "failed"},
             NEW error \in ErrorCode, MarkError(q, k, status, error)
      PROVE  Goal
    BY <1>5 DEF MarkError, Transition
<1>6. ASSUME NEW s \in Sessions, CreateSession(s) \/ CompleteSession(s) \/ DeleteSession(s)
      PROVE  Goal
    BY <1>6 DEF CreateSession, CompleteSession, DeleteSession
<1>7. ASSUME NEW a \in Agents, DeleteAgent(a) PROVE Goal
    BY <1>7 DEF DeleteAgent
<1>8. ASSUME UNCHANGED storeVars PROVE Goal
    BY <1>8 DEF storeVars
<1> HIDE DEF Goal
<1>9. Goal
    BY ONLY <1>1, <1>2, <1>3, <1>4, <1>5, <1>6, <1>7, <1>8, [StoreNext]_storeVars
       DEF StoreNext
<1>10. QED
    BY <1>9 DEF Goal

-----------------------------------------------------------------------------
\* A step that gives no handler a number, calls no model, starts no republication
\* and sends no retry copy keeps the invariant.
HandlersKept ==
    \A h \in Handlers :
        /\ Numbered(h)' =>
              /\ Numbered(h)
              /\ handler'[h].msg = handler[h].msg
              /\ handler'[h].attempt = handler[h].attempt
        /\ At(h, "context")' => At(h, "context")
        /\ At(h, "republish")' => At(h, "republish")
        /\ Numbered(h)' /\ At(h, "expire") => At(h, "expire")'

CopiesKept ==
    /\ \A m \in Messages : place[m] # "unsent" => place'[m] # "unsent"
    /\ \A r \in Runs : \A k \in 1 .. MaxAttempts - 1 :
          place'[<<r, k>>] # "unsent" => place[<<r, k>>] # "unsent"
    /\ HeldWasSent'

LEMMA NumberedRun ==
    ASSUME HandlerTypeOK, NEW h \in Handlers, Numbered(h)
    PROVE  RunAt(h) \in Runs /\ handler[h].attempt \in Nat
BY HandlerRun DEF Numbered, At, Working

LEMMA KeptStep ==
    ASSUME TypeOK, TypeOK', AttemptInv, [StoreNext]_storeVars,
           HandlersKept, CopiesKept, UNCHANGED called
    PROVE  AttemptInv'
<1>1. \A r \in Runs :
         /\ run[r].attempt \in Nat /\ run'[r].attempt \in Nat
         /\ run[r].attempt <= run'[r].attempt
         /\ run'[r].status = "none" => run'[r].attempt = 0
         /\ \A k \in 1 .. run[r].attempt : Owns(r, k)' => Owns(r, k)
    BY NumbersGrow DEF TypeOK, AttemptInv
<1>2. \A h \in Handlers : Numbered(h)' =>
         /\ RunAt(h) \in Runs /\ RunAt(h)' = RunAt(h)
         /\ handler'[h].attempt = handler[h].attempt
         /\ handler[h].attempt \in 1 .. run[RunAt(h)].attempt
    BY NumberedRun DEF HandlersKept, RunAt, TypeOK, AttemptInv, AttemptsGivenOut
<1>3. AttemptsGivenOut'
  <2>1. \A r \in Runs : called'[r] \subseteq 1 .. run'[r].attempt
    BY <1>1 DEF AttemptInv, AttemptsGivenOut
  <2>2. \A h \in Handlers : Numbered(h)' => handler'[h].attempt \in 1 .. run'[RunAt(h)'].attempt
    BY <1>1, <1>2
  <2>3. QED
    BY <1>1, <2>1, <2>2 DEF AttemptsGivenOut
<1>4. AttemptsDistinct'
    BY <1>2 DEF HandlersKept, AttemptInv, AttemptsDistinct
<1>5. AttemptsLimited'
  <2>1. \A h \in Handlers : At(h, "republish") => Numbered(h)
    BY DEF At, Numbered
  <2>2. \A h \in Handlers : At(h, "republish")' => Numbered(h)'
    BY DEF At, Numbered
  <2>3. QED
    BY <1>2, <2>1, <2>2 DEF HandlersKept, AttemptInv, AttemptsLimited
<1>6. RetriesDisowned'
  <2>1. \A h \in Handlers : At(h, "republish")' => Numbered(h)'
    BY DEF At, Numbered
  <2>2. \A h \in Handlers : At(h, "republish")' => ~Owns(RunAt(h), handler[h].attempt)'
    BY <1>1, <1>2, <2>1 DEF HandlersKept, AttemptInv, RetriesDisowned
  <2>3. ASSUME NEW r \in Runs, NEW k \in 1 .. MaxAttempts - 1, place'[<<r, k>>] # "unsent"
        PROVE  k <= run'[r].attempt /\ ~Owns(r, k)'
    <3>1. k <= run[r].attempt /\ ~Owns(r, k)
      BY <2>3 DEF CopiesKept, AttemptInv, RetriesDisowned
    <3>2. QED
      BY <1>1, <3>1
  <2>4. QED
    BY <2>2, <2>3 DEF RetriesDisowned
<1>7. LlmBudget'
  <2>1. \A h \in Handlers : At(h, "context")' => Numbered(h)'
    BY DEF At, Numbered, Working
  <2>2. QED
    BY <1>2, <2>1 DEF HandlersKept, AttemptInv, LlmBudget
<1>8. RetryCopiesAreFresh'
  <2>1. ASSUME NEW h \in Handlers, At(h, "republish")'
        PROVE  place'[RetryCopy(h)'] = "unsent"
    <3>1. Numbered(h)' /\ At(h, "republish") /\ Numbered(h)
      BY <2>1 DEF At, Numbered, HandlersKept
    <3>2. RunAt(h) \in Runs /\ handler[h].attempt \in 1 .. MaxAttempts - 1
      BY <3>1, <1>1, <1>2, RunAssumption DEF AttemptInv, AttemptsLimited
    <3>3. RetryCopy(h)' = RetryCopy(h) /\ place[RetryCopy(h)] = "unsent"
      BY <3>1, <1>2 DEF RetryCopy, AttemptInv, RetryCopiesAreFresh
    <3>4. QED
      BY <3>2, <3>3 DEF RetryCopy, CopiesKept
  <2>2. QED
    BY <2>1 DEF RetryCopiesAreFresh
<1>9. QED
    BY <1>3, <1>4, <1>5, <1>6, <1>7, <1>8 DEF AttemptInv, CopiesKept

-----------------------------------------------------------------------------
(* The steps that keep handlers and copies in this sense *)

\* Moving within a delivery to a step that needs no new number.
LEMMA MoveKeeps ==
    ASSUME HandlerTypeOK, NEW h \in Handlers, NEW pc \in Step,
           \/ Conclude(h, pc) /\ pc \in {"ack", "nack", "stuck"}
           \/ /\ Goto(h, pc)
              /\ pc \in {"llm", "complete", "transient", "permanent", "giveup"}
              /\ Numbered(h) /\ ~At(h, "expire")
    PROVE  HandlersKept
<1> USE DEF HandlerTypeOK, HandlersKept, Numbered, At, Working
<1>1. CASE Conclude(h, pc) /\ pc \in {"ack", "nack", "stuck"}
    BY <1>1 DEF Conclude, Begin
<1>2. CASE /\ Goto(h, pc)
           /\ pc \in {"llm", "complete", "transient", "permanent", "giveup"}
           /\ Numbered(h) /\ ~At(h, "expire")
    BY <1>2 DEF Goto
<1>3. QED
    BY <1>1, <1>2

LEMMA ReleaseKeeps ==
    ASSUME HandlerTypeOK, NEW h \in Handlers, Release(h)
    PROVE  HandlersKept
BY DEF HandlerTypeOK, HandlersKept, Release, Idle, Numbered, At, Working

\* A message that was sent stays sent wherever it goes.
LEMMA MoveKeepsCopies ==
    ASSUME BrokerTypeOK, HeldWasSent, NEW m \in Messages, place[m] # "unsent",
           \/ \E queue \in {"process", "unacked", "gone"} : Enqueue(m, queue)
           \/ \E counted \in 0 .. 1 : PutBack(m, counted),
           \A h \in Handlers : ~At(h, "idle")' =>
              handler'[h].msg = m \/ (~At(h, "idle") /\ handler'[h].msg = handler[h].msg),
           HandlerTypeOK'
    PROVE  CopiesKept
<1>1. \E where \in Places \ {"unsent"} : place' = [place EXCEPT ![m] = where]
    BY DEF Enqueue, PutBack, Places, Live
<1>2. HeldWasSent'
    BY <1>1 DEF BrokerTypeOK, HeldWasSent, HandlerTypeOK, At
<1>3. QED
    BY <1>1, <1>2 DEF CopiesKept, BrokerTypeOK

\* Handlers keep their messages and no message moves.
LEMMA StillKeepsCopies ==
    ASSUME HeldWasSent, UNCHANGED place,
           \A h \in Handlers : ~At(h, "idle")' =>
              ~At(h, "idle") /\ handler'[h].msg = handler[h].msg
    PROVE  CopiesKept
BY DEF CopiesKept, HeldWasSent, At

\* The first publication of a run touches no retry copy.
LEMMA PublishKeepsCopies ==
    ASSUME BrokerTypeOK, HeldWasSent, HandlerTypeOK, NEW r \in Runs,
           Enqueue(<<r, 0>>, "process"), UNCHANGED handler
    PROVE  CopiesKept
<1>1. <<r, 0>> \in Messages
    BY RunAssumption DEF Messages
<1>2. place' = [place EXCEPT ![<<r, 0>>] = "process"]
    BY DEF Enqueue
<1>3. HeldWasSent'
    BY <1>1, <1>2 DEF BrokerTypeOK, HeldWasSent, HandlerTypeOK, At
<1>4. QED
    BY <1>1, <1>2, <1>3 DEF CopiesKept, BrokerTypeOK

LEMMA SameHandlers == UNCHANGED handler => HandlersKept
BY DEF HandlersKept, Numbered, At

-----------------------------------------------------------------------------
(* The steps that hand out, use or send something *)

\* A claim takes the next number, which no handler holds and no call used.
LEMMA ClaimStep ==
    ASSUME TypeOK, TypeOK', AttemptInv, NEW h \in Handlers, Claim(h)
    PROVE  AttemptInv'
<1> DEFINE r == RunAt(h)
           k == run[r].attempt + 1
<1>1. r \in Runs /\ ~Numbered(h) /\ run[r].attempt \in Nat
    BY HandlerRun DEF TypeOK, Claim, At, Numbered, Working, StoreTypeOK, RunRow
<1>2. [StoreNext]_storeVars
    BY <1>1 DEF Claim, StoreNext
<1>3. CopiesKept
  <2>1. UNCHANGED place
    BY DEF Claim, brokerVars
  <2>2. \A g \in Handlers : ~At(g, "idle")' =>
            ~At(g, "idle") /\ handler'[g].msg = handler[g].msg
    BY DEF Claim, Conclude, Begin, At, TypeOK, HandlerTypeOK, HandlerState
  <2>3. QED
    BY <2>1, <2>2, StillKeepsCopies DEF AttemptInv
<1>4. CASE ~Claimable(r)
  <2>1. HandlersKept
    BY <1>4, MoveKeeps DEF Claim, TypeOK, Step
  <2>2. QED
    BY <1>2, <1>3, <2>1, KeptStep DEF Claim
<1>5. CASE Claimable(r)
  <2>1. run' = [run EXCEPT ![r] = ClaimedRow(@)] /\ UNCHANGED <<place, called>>
    BY <1>5 DEF Claim, ClaimRun, brokerVars
  <2>2. PICK pc \in {"context", "expire"} :
            /\ handler' = [handler EXCEPT ![h].pc = pc, ![h].attempt = k]
            /\ pc = "context" => k <= MaxAttempts
    BY <1>5 DEF Claim, Begin, ClaimedRow, WithinLimit
  <2>3. \A g \in Handlers : g # h => handler'[g] = handler[g]
    BY <2>2 DEF TypeOK, HandlerTypeOK
  <2>4. /\ handler'[h].pc = pc /\ handler'[h].attempt = k
        /\ handler'[h].msg = handler[h].msg
    BY <2>2 DEF TypeOK, HandlerTypeOK, HandlerState
  <2>5. RunAt(h)' = r /\ \A g \in Handlers : RunAt(g)' = RunAt(g)
    BY <2>3, <2>4 DEF RunAt
  <2>6. /\ run'[r].attempt = k /\ run'[r].status = "processing"
        /\ \A q \in Runs : q # r => run'[q] = run[q]
    BY <2>1, <1>1 DEF ClaimedRow, TypeOK, StoreTypeOK
  <2>7. k \notin called[r] /\ k \in 1 .. run'[r].attempt
    BY <1>1, <2>6 DEF AttemptInv, AttemptsGivenOut
  <2>8. \A g \in Handlers : Numbered(g) => handler[g].attempt \in 1 .. run[RunAt(g)].attempt
    BY DEF AttemptInv, AttemptsGivenOut
  <2>9. AttemptsGivenOut'
    BY <1>1, <2>1, <2>3, <2>4, <2>5, <2>6, <2>7, <2>8
       DEF AttemptInv, AttemptsGivenOut, Numbered
  <2>10. AttemptsDistinct'
    BY <1>1, <2>3, <2>4, <2>5, <2>8 DEF AttemptInv, AttemptsDistinct, Numbered
  <2>11. AttemptsLimited'
    BY <2>2, <2>3, <2>4 DEF AttemptInv, AttemptsLimited, Numbered, At
  <2>12. RetriesDisowned'
    <3>1. ASSUME NEW q \in Runs, NEW j \in 1 .. MaxAttempts - 1, place'[<<q, j>>] # "unsent"
          PROVE  j <= run'[q].attempt /\ ~Owns(q, j)'
      <4>1. j <= run[q].attempt /\ ~Owns(q, j)
        BY <2>1, <3>1 DEF AttemptInv, RetriesDisowned
      <4>2. QED
        BY <1>1, <2>6, <4>1 DEF Owns
    <3>2. ASSUME NEW g \in Handlers, At(g, "republish")'
          PROVE  ~Owns(RunAt(g), handler[g].attempt)'
      <4>1. g # h /\ At(g, "republish") /\ Numbered(g) /\ RunAt(g) \in Runs
        BY <2>2, <2>3, <2>4, <3>2, HandlerRun DEF At, Numbered, TypeOK
      <4>2. ~Owns(RunAt(g), handler[g].attempt)
        BY <4>1 DEF AttemptInv, RetriesDisowned
      <4>3. QED
        BY <1>1, <2>3, <2>5, <2>6, <2>8, <4>1, <4>2 DEF Owns
    <3>3. QED
      BY <3>1, <3>2 DEF RetriesDisowned
  <2>13. LlmBudget'
    <3>1. ASSUME NEW g \in Handlers, At(g, "context")', g # h
          PROVE  /\ handler'[g].attempt \in 1 .. MaxAttempts
                 /\ handler'[g].attempt \notin called'[RunAt(g)']
      BY <2>1, <2>3, <2>5, <3>1 DEF AttemptInv, LlmBudget, At
    <3>2. ASSUME At(h, "context")'
          PROVE  /\ handler'[h].attempt \in 1 .. MaxAttempts
                 /\ handler'[h].attempt \notin called'[RunAt(h)']
      BY <1>1, <2>1, <2>2, <2>4, <2>5, <2>7, <3>2, RunAssumption DEF At
    <3>3. QED
      BY <3>1, <3>2 DEF LlmBudget
  <2>14. RetryCopiesAreFresh'
    BY <2>1, <2>2, <2>3, <2>4, <2>5 DEF AttemptInv, RetryCopiesAreFresh, RetryCopy, At
  <2>15. QED
    BY <1>3, <2>9, <2>10, <2>11, <2>12, <2>13, <2>14 DEF AttemptInv, CopiesKept
<1>6. QED
    BY <1>4, <1>5

\* The call goes out under the number of its handler, which had not called yet.
LEMMA CallStep ==
    ASSUME TypeOK, TypeOK', AttemptInv, NEW h \in Handlers, At(h, "context"),
           Goto(h, "llm"), called' = [called EXCEPT ![RunAt(h)] = @ \union {handler[h].attempt}],
           UNCHANGED <<storeVars, brokerVars>>
    PROVE  AttemptInv'
<1>1. /\ \A g \in Handlers : g # h => handler'[g] = handler[g]
      /\ handler'[h].pc = "llm" /\ handler'[h].attempt = handler[h].attempt
      /\ handler'[h].msg = handler[h].msg
    BY DEF Goto, TypeOK, HandlerTypeOK, HandlerState
<1>2. Numbered(h) /\ RunAt(h) \in Runs /\ \A g \in Handlers : RunAt(g)' = RunAt(g)
    BY <1>1, HandlerRun DEF At, Numbered, Working, RunAt, TypeOK
<1>3. run' = run /\ place' = place
    BY DEF storeVars, brokerVars
<1>4. AttemptsGivenOut'
    BY <1>1, <1>2, <1>3 DEF AttemptInv, AttemptsGivenOut, Numbered, TypeOK, Working
<1>5. AttemptsDistinct' /\ AttemptsLimited'
    BY <1>1, <1>2 DEF AttemptInv, AttemptsDistinct, AttemptsLimited, Numbered, At, Working
<1>6. RetriesDisowned' /\ HeldWasSent' /\ RetryCopiesAreFresh'
    BY <1>1, <1>2, <1>3 DEF AttemptInv, RetriesDisowned, HeldWasSent, RetryCopiesAreFresh,
                            RetryCopy, At, Owns
\* Another handler about to call for the same run holds another number.
<1>7. LlmBudget'
  <2>1. ASSUME NEW g \in Handlers, At(g, "context")'
        PROVE  /\ handler'[g].attempt \in 1 .. MaxAttempts
               /\ handler'[g].attempt \notin called'[RunAt(g)']
    <3>1. g # h /\ At(g, "context") /\ Numbered(g)
      BY <1>1, <2>1 DEF At, Numbered, Working
    <3>2. RunAt(g) = RunAt(h) => handler[g].attempt # handler[h].attempt
      BY <1>2, <3>1 DEF AttemptInv, AttemptsDistinct
    <3>3. RunAt(g) \in Runs
      BY <3>1, HandlerRun DEF TypeOK, At
    <3>4. QED
      BY <1>1, <1>2, <3>1, <3>2, <3>3 DEF AttemptInv, LlmBudget, TypeOK
  <2>2. QED
    BY <2>1 DEF LlmBudget
<1>8. QED
    BY <1>4, <1>5, <1>6, <1>7 DEF AttemptInv

\* The attempt that gives its run back has not sent the copy of its number, since
\* those that have no longer own the run.
LEMMA RetryStep ==
    ASSUME TypeOK, TypeOK', AttemptInv, NEW h \in Handlers, Retries(h), MarkRetry(h),
           Republishes(h), Goto(h, "republish"), UNCHANGED <<brokerVars, called>>
    PROVE  AttemptInv'
<1> DEFINE r == RunAt(h)
           k == handler[h].attempt
<1>1. /\ \A g \in Handlers : g # h => handler'[g] = handler[g]
      /\ handler'[h].pc = "republish" /\ handler'[h].attempt = k
      /\ handler'[h].msg = handler[h].msg
    BY DEF Goto, TypeOK, HandlerTypeOK, HandlerState
<1>2. Numbered(h) /\ r \in Runs /\ \A g \in Handlers : RunAt(g)' = RunAt(g)
    BY <1>1, HandlerRun DEF Retries, At, Numbered, Working, RunAt, TypeOK
<1>3. k \in 1 .. run[r].attempt /\ k \in 1 .. MaxAttempts - 1 /\ run[r].attempt \in Nat
    BY <1>2, RunAssumption
       DEF Retries, AttemptInv, AttemptsGivenOut, TypeOK, StoreTypeOK, RunRow
<1>4. place' = place /\ place[<<r, k>>] = "unsent"
    BY <1>2, <1>3 DEF brokerVars, Republishes, AttemptInv, RetriesDisowned
<1>5. /\ run'[r].status = "queued" /\ run'[r].attempt = run[r].attempt
      /\ \A q \in Runs : q # r => run'[q] = run[q]
  <2>1. run' = [run EXCEPT ![r] = Transition(run[r], "queued", "provider_unavailable")]
    BY DEF MarkRetry, MarkError, Republishes
  <2>2. QED
    BY <1>2, <2>1 DEF Transition, TypeOK, StoreTypeOK
<1>6. AttemptsGivenOut'
  <2>1. \A q \in Runs : run'[q].attempt = run[q].attempt
    BY <1>5
  <2>2. \A q \in Runs : run'[q].status = "none" => run'[q].attempt = 0
    BY <1>5 DEF AttemptInv, AttemptsGivenOut
  <2>3. \A q \in Runs : called'[q] \subseteq 1 .. run'[q].attempt
    BY <2>1 DEF AttemptInv, AttemptsGivenOut
  <2>4. ASSUME NEW g \in Handlers, Numbered(g)'
        PROVE  handler'[g].attempt \in 1 .. run'[RunAt(g)'].attempt
    <3>1. Numbered(g) /\ RunAt(g) \in Runs
      BY <1>1, <1>2, <2>4, NumberedRun DEF Numbered, TypeOK
    <3>2. QED
      BY <1>1, <1>2, <2>1, <3>1 DEF AttemptInv, AttemptsGivenOut
  <2>5. QED
    BY <2>2, <2>3, <2>4 DEF AttemptsGivenOut
<1>7. AttemptsDistinct'
    BY <1>1, <1>2 DEF AttemptInv, AttemptsDistinct, Numbered
<1>8. AttemptsLimited'
    BY <1>1, <1>3, RunAssumption DEF AttemptInv, AttemptsLimited, Numbered, At
<1>9. RetriesDisowned'
  <2>1. ASSUME NEW g \in Handlers, At(g, "republish")'
        PROVE  ~Owns(RunAt(g), handler[g].attempt)'
    <3>1. CASE RunAt(g) = r
      <4>1. run'[RunAt(g)'].status = "queued"
        BY <1>2, <1>5, <3>1
      <4>2. QED
        BY <4>1 DEF Owns
    <3>2. CASE RunAt(g) # r
      <4>1. g # h /\ At(g, "republish") /\ RunAt(g) \in Runs
        BY <1>1, <2>1, <3>2, HandlerRun DEF At, TypeOK
      <4>2. QED
        BY <1>1, <1>2, <1>5, <3>2, <4>1 DEF AttemptInv, RetriesDisowned, Owns
    <3>3. QED
      BY <3>1, <3>2
  <2>2. ASSUME NEW q \in Runs, NEW j \in 1 .. MaxAttempts - 1, place'[<<q, j>>] # "unsent"
        PROVE  j <= run'[q].attempt /\ ~Owns(q, j)'
    BY <1>4, <1>5, <2>2 DEF AttemptInv, RetriesDisowned, Owns
  <2>3. QED
    BY <2>1, <2>2 DEF RetriesDisowned
<1>10. HeldWasSent'
  <2>1. ~At(h, "idle")
    BY DEF Retries, At
  <2>2. QED
    BY <1>1, <1>4, <2>1 DEF AttemptInv, HeldWasSent, At
<1>11. LlmBudget'
    BY <1>1, <1>2 DEF AttemptInv, LlmBudget, At
<1>12. RetryCopiesAreFresh'
    BY <1>1, <1>2, <1>4 DEF AttemptInv, RetryCopiesAreFresh, RetryCopy, At
<1>13. QED
    BY <1>6, <1>7, <1>8, <1>9, <1>10, <1>11, <1>12 DEF AttemptInv

\* Sending the copy: the handlers that are about to send another one of the same
\* run hold other numbers.
LEMMA SendCopyStep ==
    ASSUME TypeOK, TypeOK', AttemptInv, NEW h \in Handlers, At(h, "republish"),
           Enqueue(RetryCopy(h), "retry"), Conclude(h, "ack") \/ Goto(h, "giveup"),
           UNCHANGED <<storeVars, called>>
    PROVE  AttemptInv'
<1> DEFINE r == RunAt(h)
           k == handler[h].attempt
<1>1. /\ \A g \in Handlers : g # h => handler'[g] = handler[g]
      /\ handler'[h].pc \in {"ack", "giveup"} /\ handler'[h].msg = handler[h].msg
      /\ handler'[h].pc = "giveup" => handler'[h].attempt = k
    BY DEF Goto, Conclude, Begin, TypeOK, HandlerTypeOK, HandlerState
<1>2. Numbered(h) /\ r \in Runs /\ \A g \in Handlers : RunAt(g)' = RunAt(g)
    BY <1>1, HandlerRun DEF At, Numbered, RunAt, TypeOK
<1>3. run' = run
    BY DEF storeVars
<1>4. k \in 1 .. run[r].attempt /\ k \in 1 .. MaxAttempts - 1
    BY <1>2, RunAssumption
       DEF AttemptInv, AttemptsGivenOut, AttemptsLimited, TypeOK, StoreTypeOK, RunRow
<1>5. <<r, k>> \in Messages /\ place' = [place EXCEPT ![<<r, k>>] = "retry"]
    BY <1>2, <1>4, RunAssumption DEF Messages, Enqueue, RetryCopy
<1>6. AttemptsGivenOut'
    BY <1>1, <1>2, <1>3, <1>4 DEF AttemptInv, AttemptsGivenOut, Numbered, Working
<1>7. AttemptsDistinct'
    BY <1>1, <1>2 DEF AttemptInv, AttemptsDistinct, Numbered, Working
<1>8. AttemptsLimited'
    BY <1>1, <1>2, <1>4, RunAssumption
       DEF AttemptInv, AttemptsLimited, Numbered, Working, At
<1>9. RetriesDisowned'
  <2>1. ASSUME NEW q \in Runs, NEW j \in 1 .. MaxAttempts - 1, place'[<<q, j>>] # "unsent"
        PROVE  j <= run'[q].attempt /\ ~Owns(q, j)'
    <3>1. CASE q = r /\ j = k
      BY <1>3, <1>4, <3>1 DEF AttemptInv, RetriesDisowned, Owns
    <3>2. CASE ~(q = r /\ j = k)
      BY <1>3, <1>5, <2>1, <3>2 DEF AttemptInv, RetriesDisowned, Owns, Messages, TypeOK,
                                   BrokerTypeOK
    <3>3. QED
      BY <3>1, <3>2
  <2>2. \A g \in Handlers : At(g, "republish")' => ~Owns(RunAt(g), handler[g].attempt)'
    BY <1>1, <1>2, <1>3 DEF AttemptInv, RetriesDisowned, Owns, At
  <2>3. QED
    BY <2>1, <2>2 DEF RetriesDisowned
<1>10. HeldWasSent'
    BY <1>1, <1>2, <1>5 DEF AttemptInv, HeldWasSent, At, TypeOK, BrokerTypeOK, HandlerTypeOK,
                            Numbered
<1>11. LlmBudget'
    BY <1>1, <1>2 DEF AttemptInv, LlmBudget, At
<1>12. RetryCopiesAreFresh'
  <2>1. ASSUME NEW g \in Handlers, At(g, "republish")'
        PROVE  place'[RetryCopy(g)'] = "unsent"
    <3>1. g # h /\ At(g, "republish") /\ Numbered(g) /\ RunAt(g) \in Runs
      BY <1>1, <2>1, HandlerRun DEF At, Numbered, TypeOK
    <3>2. RunAt(g) = r => handler[g].attempt # k
      BY <1>2, <3>1 DEF AttemptInv, AttemptsDistinct
    <3>3. RetryCopy(g)' = RetryCopy(g) /\ RetryCopy(g) # <<r, k>>
      BY <1>1, <1>2, <3>1, <3>2 DEF RetryCopy
    <3>4. place[RetryCopy(g)] = "unsent"
      BY <3>1 DEF AttemptInv, RetryCopiesAreFresh
    <3>5. handler[g].attempt \in 1 .. MaxAttempts - 1
      BY <3>1, RunAssumption
         DEF AttemptInv, AttemptsGivenOut, AttemptsLimited, TypeOK, StoreTypeOK, RunRow
    <3>6. RetryCopy(g) \in Messages
      BY <3>1, <3>5, RunAssumption DEF RetryCopy, Messages
    <3>7. QED
      BY <1>5, <3>3, <3>4, <3>6 DEF TypeOK, BrokerTypeOK
  <2>2. QED
    BY <2>1 DEF RetryCopiesAreFresh
<1>13. QED
    BY <1>6, <1>7, <1>8, <1>9, <1>10, <1>11, <1>12 DEF AttemptInv

-----------------------------------------------------------------------------
(* The invariant, action by action *)

\* A handler moves on, whatever transaction its step commits.
LEMMA QuietStep ==
    ASSUME TypeOK, TypeOK', AttemptInv, [StoreNext]_storeVars,
           NEW h \in Handlers, NEW pc \in Step, ~At(h, "idle"),
           \/ Conclude(h, pc) /\ pc \in {"ack", "nack", "stuck"}
           \/ /\ Goto(h, pc)
              /\ pc \in {"llm", "complete", "transient", "permanent", "giveup"}
              /\ Numbered(h) /\ ~At(h, "expire"),
           UNCHANGED <<brokerVars, called>>
    PROVE  AttemptInv'
<1>1. HandlersKept
    BY MoveKeeps DEF TypeOK
<1>2. \A g \in Handlers : ~At(g, "idle")' =>
         ~At(g, "idle") /\ handler'[g].msg = handler[g].msg
    BY DEF Conclude, Begin, Goto, At, TypeOK, HandlerTypeOK, HandlerState
<1>3. CopiesKept
    BY <1>2, StillKeepsCopies DEF AttemptInv, brokerVars
<1>4. QED
    BY <1>1, <1>3, KeptStep

\* A handler is done with its delivery, or its delivery is taken from it.
LEMMA SettleStep ==
    ASSUME TypeOK, TypeOK', AttemptInv, NEW h \in Handlers, ~At(h, "idle"),
           \/ Release(h)
           \/ handler' = [handler EXCEPT ![h].attached = FALSE],
           \/ UNCHANGED brokerVars
           \/ Settle(handler[h].msg)
           \/ \E counted \in 0 .. 1 : PutBack(handler[h].msg, counted),
           UNCHANGED <<storeVars, called>>
    PROVE  AttemptInv'
<1>1. HandlersKept
  <2>1. CASE Release(h)
    BY <2>1, ReleaseKeeps DEF TypeOK
  <2>2. CASE handler' = [handler EXCEPT ![h].attached = FALSE]
    BY <2>2 DEF TypeOK, HandlerTypeOK, HandlerState, HandlersKept, Numbered, At
  <2>3. QED
    BY <2>1, <2>2
<1>2. \A g \in Handlers : ~At(g, "idle")' =>
         ~At(g, "idle") /\ handler'[g].msg = handler[g].msg
    BY DEF Release, Idle, At, TypeOK, HandlerTypeOK, HandlerState
<1>3. handler[h].msg \in Messages /\ place[handler[h].msg] # "unsent"
    BY HandlerRun DEF TypeOK, AttemptInv, HeldWasSent
<1>4. CopiesKept
  <2>1. CASE UNCHANGED brokerVars
    BY <1>2, <2>1, StillKeepsCopies DEF AttemptInv, brokerVars
  <2>2. CASE ~UNCHANGED brokerVars
    BY <1>2, <1>3, <2>2, MoveKeepsCopies DEF AttemptInv, TypeOK, Settle
  <2>3. QED
    BY <2>1, <2>2
<1>5. QED
    BY <1>1, <1>4, KeptStep

\* A request for an answer, or a change to the conversation.
LEMMA OutsideStep ==
    ASSUME TypeOK, TypeOK', AttemptInv, [StoreNext]_storeVars,
           UNCHANGED <<handler, called>>,
           UNCHANGED brokerVars \/ \E r \in Runs : Enqueue(<<r, 0>>, "process")
    PROVE  AttemptInv'
<1>1. HandlersKept
    BY SameHandlers
<1>2. CopiesKept
  <2>1. CASE UNCHANGED brokerVars
    BY <2>1, StillKeepsCopies DEF AttemptInv, brokerVars, At
  <2>2. CASE \E r \in Runs : Enqueue(<<r, 0>>, "process")
    BY <2>2, PublishKeepsCopies DEF AttemptInv, TypeOK
  <2>3. QED
    BY <2>1, <2>2
<1>3. QED
    BY <1>1, <1>2, KeptStep

LEMMA HandleStep ==
    ASSUME TypeOK, TypeOK', AttemptInv, [StoreNext]_storeVars,
           NEW h \in Handlers, Handle(h)
    PROVE  AttemptInv'
<1> USE DEF At, Numbered, Working, Step
<1>1. CASE Claim(h)
    BY <1>1, ClaimStep
<1>2. CASE Expire(h)
    BY <1>2, QuietStep DEF Expire
<1>3. CASE LoadContext(h)
    BY <1>3, CallStep, QuietStep DEF LoadContext
<1>4. CASE Respond(h)
    BY <1>4, QuietStep DEF Respond, Responses
<1>5. CASE Complete(h)
    BY <1>5, QuietStep DEF Complete
<1>6. CASE HandleError(h)
    BY <1>6, RetryStep, QuietStep DEF HandleError
<1>7. CASE PublishRetry(h)
    BY <1>7, SendCopyStep DEF PublishRetry
<1>8. CASE GiveUp(h)
    BY <1>8, QuietStep DEF GiveUp
<1>9. CASE Ack(h)
    BY <1>9, SettleStep DEF Ack
<1>10. CASE Nack(h)
    BY <1>10, SettleStep DEF Nack
<1>11. QED
    BY <1>1, <1>2, <1>3, <1>4, <1>5, <1>6, <1>7, <1>8, <1>9, <1>10 DEF Handle

LEMMA FailureStep ==
    ASSUME TypeOK, TypeOK', AttemptInv, [StoreNext]_storeVars, Failure
    PROVE  AttemptInv'
<1>1. ASSUME NEW r \in Runs, SendPublishFails(r) \/ SendDies(r)
      PROVE  AttemptInv'
    BY <1>1, OutsideStep DEF SendPublishFails, SendDies
<1>2. ASSUME NEW h \in Handlers, PublishRetryFails(h)
      PROVE  AttemptInv'
    BY <1>2, SendCopyStep, QuietStep DEF PublishRetryFails, At, Numbered, Step
<1>3. ASSUME NEW h \in Handlers, Crash(h) \/ ConnectionLost(h)
      PROVE  AttemptInv'
    BY <1>3, SettleStep DEF Crash, ConnectionLost
<1>4. ASSUME NEW h \in Handlers, DatabaseFails(h)
      PROVE  AttemptInv'
    BY <1>4, QuietStep DEF DatabaseFails, TransactionSteps, At, Step
<1>5. ASSUME NEW h \in Handlers, ConnectRefused(h)
      PROVE  AttemptInv'
    BY <1>5, QuietStep DEF ConnectRefused, TransactionSteps, At, Numbered, Working, Step
<1>6. QED
    BY <1>1, <1>2, <1>3, <1>4, <1>5 DEF Failure

LEMMA AttemptStep == TypeOK /\ TypeOK' /\ AttemptInv /\ [Next]_vars => AttemptInv'
<1> SUFFICES ASSUME TypeOK, TypeOK', AttemptInv, [Next]_vars
             PROVE  AttemptInv'
    OBVIOUS
<1>1. [StoreNext]_storeVars
    BY StepIsStoreStep DEF TypeOK
<1>2. ASSUME NEW r \in Runs, Request(r) PROVE AttemptInv'
    BY <1>1, <1>2, OutsideStep
       DEF Request, SendCheck, SendCommit, SendPublish, SendUnavailable
<1>3. ASSUME NEW h \in Handlers, NEW m \in Messages, Deliver(h, m)
      PROVE  AttemptInv'
  <2>1. HandlersKept
    BY <1>3 DEF Deliver, TypeOK, HandlerTypeOK, HandlersKept, Numbered, At, Working
  <2>2. \A g \in Handlers : ~At(g, "idle")' =>
           handler'[g].msg = m \/ (~At(g, "idle") /\ handler'[g].msg = handler[g].msg)
    BY <1>3 DEF Deliver, TypeOK, HandlerTypeOK, At
  <2>3. CopiesKept
    BY <1>3, <2>2, MoveKeepsCopies DEF Deliver, Take, TypeOK, AttemptInv
  <2>4. QED
    BY <1>1, <1>3, <2>1, <2>3, KeptStep DEF Deliver
<1>4. ASSUME NEW m \in Messages, RetryExpires(m) PROVE AttemptInv'
  <2>1. CopiesKept
    BY <1>4, MoveKeepsCopies DEF RetryExpires, RetryDelayOver, TypeOK, AttemptInv, At
  <2>2. QED
    BY <1>1, <1>4, <2>1, SameHandlers, KeptStep DEF RetryExpires
<1>5. ASSUME NEW h \in Handlers, Handle(h) PROVE AttemptInv'
    BY <1>1, <1>5, HandleStep
<1>6. CASE Conversation \/ UNCHANGED vars
    BY <1>1, <1>6, OutsideStep DEF Conversation, vars
<1>7. CASE Failure
    BY <1>1, <1>7, FailureStep
<1>8. QED
    BY <1>2, <1>3, <1>4, <1>5, <1>6, <1>7 DEF Next

LEMMA InitAttempt == Init => AttemptInv
<1> SUFFICES ASSUME Init PROVE AttemptInv
    OBVIOUS
<1>1. \A h \in Handlers : handler[h].pc = "idle"
    BY DEF Init, Idle
<1>2. \A r \in Runs : \A k \in 1 .. MaxAttempts - 1 : place[<<r, k>>] = "unsent"
    BY RunAssumption DEF Init, BrokerInit, Messages
<1>3. AttemptsGivenOut
    BY <1>1 DEF Init, StoreInit, AttemptsGivenOut, Numbered, Working
<1>4. QED
    BY <1>1, <1>2, <1>3
       DEF AttemptInv, AttemptsDistinct, AttemptsLimited, RetriesDisowned, HeldWasSent,
           LlmBudget, RetryCopiesAreFresh, Numbered, At, Working

\* The attempt numbers are used as AttemptInv says, under any failures.
THEOREM AttemptInvariant == Spec => []AttemptInv
<1>1. TypeOK /\ TypeOK' /\ AttemptInv /\ [Next]_vars => AttemptInv'
    BY AttemptStep
<1>2. QED
    BY <1>1, InitAttempt, TypeInvariant, PTL DEF Spec

\* No run calls the language model more than MaxAttempts times, and no attempt
\* calls it twice.
THEOREM CallsWithinBudget == Spec => []LlmBudget
<1>1. AttemptInv => LlmBudget
    BY DEF AttemptInv
<1>2. QED
    BY <1>1, AttemptInvariant, PTL

\* No retry copy is sent twice, so the names of the messages are unambiguous.
THEOREM RetriesSentOnce == Spec => []RetryCopiesAreFresh
<1>1. AttemptInv => RetryCopiesAreFresh
    BY DEF AttemptInv
<1>2. QED
    BY <1>1, AttemptInvariant, PTL

-----------------------------------------------------------------------------
(* Who may take a run from the attempt that owns it *)

\* With publications that succeed nobody calls mark_failed.
PublicationsSucceed == Faults \cap {"publish", "confirm"} = {}

AtWork(h) == At(h, "context") \/ At(h, "llm") \/ At(h, "complete")

OwnerInv ==
    /\ OwnerKeepsRun
    /\ \A r \in Runs : req[r] # "unpublished"
    /\ \A h \in Handlers : ~At(h, "giveup")

\* The run does not leave the hands of attempt k, unless to a later attempt.
Keeps(r, k) == Owns(r, k) => run'[r].status = "processing" \/ run'[r].attempt # k

LEMMA SameRunKeeps ==
    ASSUME NEW r, NEW k, run' = run PROVE Keeps(r, k)
BY DEF Keeps, Owns

\* The transaction of a handler that does not give up ends or requeues only the
\* run of its own attempt, and no other handler has that number.
LEMMA TransactionKeeps ==
    ASSUME TypeOK, AttemptInv, NEW g \in Handlers, NEW h \in Handlers, g # h,
           ~At(g, "idle"), ~At(g, "giveup"), AtWork(h), Transaction(g)
    PROVE  Keeps(RunAt(h), handler[h].attempt)
<1> DEFINE q == RunAt(g)
           j == handler[g].attempt
           r == RunAt(h)
           k == handler[h].attempt
<1>1. q \in Runs /\ r \in Runs
    BY HandlerRun DEF TypeOK, AtWork, At
<1>2. CASE At(g, "claim")
  <2>1. ClaimRun(q)
    BY <1>2 DEF Transaction, At, Retries
  <2>2. QED
    BY <1>1, <2>1 DEF ClaimRun, ClaimedRow, Keeps, Owns, TypeOK, StoreTypeOK
<1>3. CASE At(g, "context")
  <2>1. run' = run
    BY <1>3 DEF Transaction, At, Retries, storeVars
  <2>2. QED
    BY <2>1, SameRunKeeps
<1>4. CASE handler[g].pc \in {"expire", "complete", "transient", "permanent"}
  <2>1. Numbered(g) /\ Numbered(h)
    BY <1>4 DEF Numbered, Working, AtWork, At
  <2>2. ~(q = r /\ j = k)
    BY <2>1 DEF AttemptInv, AttemptsDistinct
  <2>3. run' = run \/ (Owns(q, j) /\ \E row : run' = [run EXCEPT ![q] = row])
    BY <1>4 DEF Transaction, At, Retries, MarkRetry, MarkFinal, MarkError, CompleteRun, storeVars
  <2>4. QED
    BY <1>1, <2>2, <2>3 DEF Keeps, Owns, TypeOK, StoreTypeOK
<1>5. QED
    BY <1>2, <1>3, <1>4 DEF Transaction, At, Retries

\* An attempt that stays at work keeps its run when the step leaves it there.
LEMMA StaysOwner ==
    ASSUME TypeOK, AttemptInv, OwnerInv, [StoreNext]_storeVars, NEW h \in Handlers,
           AtWork(h), RunAt(h)' = RunAt(h), handler'[h].attempt = handler[h].attempt,
           Keeps(RunAt(h), handler[h].attempt)
    PROVE  \/ run'[RunAt(h)'].attempt # handler'[h].attempt
           \/ Owns(RunAt(h), handler[h].attempt)'
<1> DEFINE r == RunAt(h)
           k == handler[h].attempt
<1>1. Numbered(h) /\ r \in Runs
    BY HandlerRun DEF TypeOK, Numbered, Working, AtWork, At
<1>2. CASE Owns(r, k)
    BY <1>2 DEF Keeps, Owns
<1>3. CASE ~Owns(r, k)
  <2>1. run[r].attempt # k
    BY <1>3 DEF OwnerInv, OwnerKeepsRun, AtWork
  <2>2. k \in 1 .. run[r].attempt
    BY <1>1 DEF AttemptInv, AttemptsGivenOut
  <2>3. run[r].attempt \in Nat /\ run'[r].attempt \in Nat /\ run[r].attempt <= run'[r].attempt
    BY <1>1, NumbersGrow DEF TypeOK, AttemptInv
  <2>4. run'[r].attempt # k
    BY <2>1, <2>2, <2>3
  <2>5. QED
    BY <2>4
<1>4. QED
    BY <1>2, <1>3

\* A step in which the handlers at work were at work before and their runs are kept.
LEMMA OwnersStay ==
    ASSUME TypeOK, AttemptInv, OwnerInv, [StoreNext]_storeVars,
           \A h \in Handlers : AtWork(h)' =>
              /\ AtWork(h) /\ RunAt(h)' = RunAt(h)
              /\ handler'[h].attempt = handler[h].attempt
              /\ Keeps(RunAt(h), handler[h].attempt)
    PROVE  OwnerKeepsRun'
BY StaysOwner DEF OwnerKeepsRun, AtWork

\* A step of handler g: the others stay, and so does g unless it claims.
LEMMA HandlerKeepsOwners ==
    ASSUME TypeOK, AttemptInv, OwnerInv, [StoreNext]_storeVars, NEW g \in Handlers,
           ~At(g, "idle"), Transaction(g) \/ UNCHANGED storeVars,
           \A h \in Handlers : h # g => handler'[h] = handler[h],
           AtWork(g)' => /\ AtWork(g) /\ handler'[g].msg = handler[g].msg
                         /\ handler'[g].attempt = handler[g].attempt
                         /\ UNCHANGED storeVars
    PROVE  OwnerKeepsRun'
<1>1. ~At(g, "giveup")
    BY DEF OwnerInv
<1>2. ASSUME NEW h \in Handlers, AtWork(h)'
      PROVE  /\ AtWork(h) /\ RunAt(h)' = RunAt(h)
             /\ handler'[h].attempt = handler[h].attempt
             /\ Keeps(RunAt(h), handler[h].attempt)
  <2>1. AtWork(h) /\ RunAt(h)' = RunAt(h) /\ handler'[h].attempt = handler[h].attempt
    BY <1>2 DEF AtWork, At, RunAt
  <2>2. CASE UNCHANGED storeVars
    BY <2>1, <2>2, SameRunKeeps DEF storeVars
  <2>3. CASE h # g /\ Transaction(g)
    BY <1>1, <2>1, <2>3, TransactionKeeps
  <2>4. QED
    BY <1>2, <2>1, <2>2, <2>3
<1>3. QED
    BY <1>2, OwnersStay

\* A claim makes its own attempt the owner.
LEMMA ClaimOwns ==
    ASSUME TypeOK, AttemptInv, OwnerInv, [StoreNext]_storeVars, NEW g \in Handlers, Claim(g)
    PROVE  OwnerKeepsRun'
<1> DEFINE q == RunAt(g)
<1>1. /\ \A h \in Handlers : h # g => handler'[h] = handler[h]
      /\ handler'[g].msg = handler[g].msg
      /\ ~At(g, "idle") /\ ~AtWork(g) /\ Transaction(g) /\ q \in Runs
    BY HandlerRun
       DEF Claim, Conclude, Begin, At, AtWork, Transaction, TypeOK, HandlerTypeOK, HandlerState
<1>2. CASE ~AtWork(g)'
    BY <1>1, <1>2, HandlerKeepsOwners
<1>3. CASE AtWork(g)'
  <2>1. Claimable(q) /\ handler'[g].attempt = ClaimedRow(run[q]).attempt
    BY <1>1, <1>3 DEF Claim, Conclude, Begin, AtWork, At, TypeOK, HandlerTypeOK, HandlerState
  <2>2. run'[q] = ClaimedRow(run[q])
    BY <1>1, <2>1 DEF Claim, ClaimRun, TypeOK, StoreTypeOK
  <2>3. Owns(RunAt(g), handler[g].attempt)'
    BY <1>1, <2>1, <2>2 DEF Owns, RunAt, ClaimedRow
  <2>4. ASSUME NEW h \in Handlers, AtWork(h)', h # g
        PROVE  \/ run'[RunAt(h)'].attempt # handler'[h].attempt
               \/ Owns(RunAt(h), handler[h].attempt)'
    <3>1. AtWork(h) /\ RunAt(h)' = RunAt(h) /\ handler'[h].attempt = handler[h].attempt
      BY <1>1, <2>4 DEF AtWork, At, RunAt
    <3>2. Keeps(RunAt(h), handler[h].attempt)
      BY <1>1, <2>4, <3>1, TransactionKeeps DEF OwnerInv
    <3>3. QED
      BY <3>1, <3>2, StaysOwner
  <2>5. QED
    BY <2>3, <2>4 DEF OwnerKeepsRun, AtWork
<1>4. QED
    BY <1>2, <1>3

LEMMA OwnerStep ==
    ASSUME PublicationsSucceed, TypeOK, AttemptInv, OwnerInv, [Next]_vars
    PROVE  OwnerInv'
<1>1. [StoreNext]_storeVars
    BY StepIsStoreStep DEF TypeOK
<1>2. ASSUME NEW kind \in {"publish", "confirm"} PROVE ~Fault(kind)
    BY <1>2 DEF Fault, PublicationsSucceed
<1>3. \A r \in Runs : req'[r] # "unpublished"
  <2>1. ASSUME NEW r \in Runs, Request(r) \/ SendDies(r)
        PROVE  \A q \in Runs : req'[q] # "unpublished"
    BY <2>1 DEF Request, SendCheck, SendCommit, SendPublish, SendUnavailable, SendDies,
                Answer, OwnerInv, TypeOK
  <2>2. CASE req' = req
    BY <2>2 DEF OwnerInv
  <2>3. QED
    BY <1>2, <2>1, <2>2
       DEF Next, Deliver, RetryExpires, Handle, Claim, Expire, LoadContext, Respond, Complete,
           HandleError, PublishRetry, GiveUp, Ack, Nack, Conversation, Failure,
           SendPublishFails, PublishRetryFails, Crash, ConnectionLost, DatabaseFails,
           ConnectRefused, vars
<1> DEFINE Goal == OwnerKeepsRun' /\ \A h \in Handlers : ~At(h, "giveup")'
<1>4. ASSUME NEW g \in Handlers, Handle(g) PROVE Goal
  <2>1. CASE Claim(g)
    <3>1. \A h \in Handlers : ~At(h, "giveup")'
      BY <2>1 DEF Claim, Conclude, Begin, OwnerInv, At, TypeOK, HandlerTypeOK, HandlerState
    <3>2. QED
      BY <1>1, <2>1, <3>1, ClaimOwns
  <2>2. CASE ~Claim(g)
    <3>1. /\ \A h \in Handlers : h # g => handler'[h] = handler[h]
          /\ ~At(g, "idle") /\ ~At(g, "giveup")' /\ (Transaction(g) \/ UNCHANGED storeVars)
          /\ AtWork(g)' => /\ AtWork(g) /\ handler'[g].msg = handler[g].msg
                           /\ handler'[g].attempt = handler[g].attempt
                           /\ UNCHANGED storeVars
      BY <1>4, <2>2
         DEF Handle, Expire, LoadContext, Respond, Responses, Complete, HandleError,
             PublishRetry, GiveUp, Ack, Nack, Release, Idle, Goto, Conclude, Begin, Transaction,
             AtWork, At, OwnerInv, TypeOK, HandlerTypeOK, HandlerState
    <3>2. QED
      BY <1>1, <3>1, HandlerKeepsOwners DEF OwnerInv, At
  <2>3. QED
    BY <2>1, <2>2
<1>5. ASSUME NEW g \in Handlers, \/ Crash(g) \/ ConnectionLost(g)
                                 \/ DatabaseFails(g) \/ ConnectRefused(g)
      PROVE  Goal
  <2>1. /\ \A h \in Handlers : h # g => handler'[h] = handler[h]
        /\ ~At(g, "idle") /\ ~At(g, "giveup")' /\ (Transaction(g) \/ UNCHANGED storeVars)
        /\ AtWork(g)' => /\ AtWork(g) /\ handler'[g].msg = handler[g].msg
                         /\ handler'[g].attempt = handler[g].attempt
                         /\ UNCHANGED storeVars
    BY <1>5
       DEF Crash, ConnectionLost, DatabaseFails, ConnectRefused, TransactionSteps, Release,
           Idle, Goto, Conclude, Begin, AtWork, At, OwnerInv, TypeOK, HandlerTypeOK,
           HandlerState
  <2>2. QED
    BY <1>1, <2>1, HandlerKeepsOwners DEF OwnerInv, At
\* Everything else: no run leaves an owner.
<1>6. ASSUME NEW g \in Handlers, NEW m \in Messages, Deliver(g, m) PROVE Goal
  <2>1. /\ \A h \in Handlers : h # g => handler'[h] = handler[h]
        /\ handler'[g].pc = "claim" /\ run' = run
    BY <1>6 DEF Deliver, TypeOK, HandlerTypeOK, storeVars
  <2>2. QED
    BY <1>1, <2>1, OwnersStay, SameRunKeeps DEF OwnerInv, AtWork, At, RunAt
<1>7. ASSUME UNCHANGED handler,
             run' = run \/ \E r \in Runs : CreateRun(r)
      PROVE  Goal
  <2>1. ASSUME NEW h \in Handlers, AtWork(h) PROVE Keeps(RunAt(h), handler[h].attempt)
    BY <1>7, <2>1, HandlerRun, SameRunKeeps
       DEF CreateRun, Keeps, Owns, TypeOK, StoreTypeOK, AtWork, At
  <2>2. QED
    BY <1>1, <1>7, <2>1, OwnersStay DEF OwnerInv, AtWork, At, RunAt
<1>8. ASSUME NEW r \in Runs, Request(r) \/ SendDies(r) PROVE Goal
  <2>1. UNCHANGED handler /\ (run' = run \/ \E q \in Runs : CreateRun(q))
    BY <1>8
       DEF Request, SendCheck, SendCommit, SendPublish, SendUnavailable, SendDies, Answer,
           OwnerInv, storeVars
  <2>2. QED
    BY ONLY <1>7, <2>1
<1>9. ASSUME Conversation \/ UNCHANGED vars \/ \E m \in Messages : RetryExpires(m)
      PROVE  Goal
  <2>1. UNCHANGED handler /\ run' = run
    BY <1>9
       DEF Conversation, CreateSession, CompleteSession, DeleteSession, DeleteAgent,
           RetryExpires, vars, storeVars
  <2>2. QED
    BY ONLY <1>7, <2>1
<1> HIDE DEF Goal
<1>10. Goal
    BY <1>2, <1>4, <1>5, <1>6, <1>8, <1>9 DEF Next, Failure, SendPublishFails, PublishRetryFails
<1>11. QED
    BY <1>3, <1>10 DEF Goal, OwnerInv

LEMMA OwnerInvariant ==
    ASSUME PublicationsSucceed PROVE Spec => []OwnerInv
<1>1. Init => OwnerInv
    BY DEF Init, Idle, OwnerInv, OwnerKeepsRun, At
<1>2. TypeOK /\ AttemptInv /\ OwnerInv /\ [Next]_vars => OwnerInv'
    BY OwnerStep
<1>3. QED
    BY <1>1, <1>2, TypeInvariant, AttemptInvariant, PTL DEF Spec

\* When publications succeed, an attempt at work that no later one has taken over
\* finds its run in processing, whatever else fails.
THEOREM OwnersKeepTheirRuns ==
    ASSUME PublicationsSucceed PROVE Spec => []OwnerKeepsRun
<1>1. OwnerInv => OwnerKeepsRun
    BY DEF OwnerInv
<1>2. QED
    BY <1>1, OwnerInvariant, PTL

-----------------------------------------------------------------------------
(* Why the 503 is true: nobody has heard of a run that was not published *)

\* A failed publication has left nothing with the broker.
ConfirmsArrive == "confirm" \notin Faults

Unpublished == {"new", "checked", "refused", "committed", "unpublished", "unavailable"}

UnpublishedInv ==
    /\ UnavailableMeansFailed
    /\ \A r \in Runs : req[r] \in {"committed", "unpublished"} => run[r].status = "queued"
    /\ \A m \in Messages : req[RunOf(m)] \in Unpublished => place[m] = "unsent"

\* The handlers have the messages of runs that were published.
LEMMA HandlerPublished ==
    ASSUME TypeOK, AttemptInv, UnpublishedInv, NEW h \in Handlers, ~At(h, "idle")
    PROVE  RunAt(h) \in Runs /\ req[RunAt(h)] \notin Unpublished
BY HandlerRun DEF TypeOK, AttemptInv, HeldWasSent, UnpublishedInv, RunAt

\* A step that sends nothing first and changes no row of an unpublished run.
LEMMA PublishedOnly ==
    ASSUME TypeOK, UnpublishedInv, UNCHANGED req,
           \A r \in Runs : req[r] \in Unpublished => run'[r] = run[r],
           \A m \in Messages : req[RunOf(m)] \in Unpublished => place'[m] = place[m]
    PROVE  UnpublishedInv'
BY DEF UnpublishedInv, UnavailableMeansFailed, Unpublished

\* The transaction of a handler's step changes the row of its run only.
LEMMA TransactionIsLocal ==
    ASSUME StoreTypeOK, NEW g \in Handlers, ~At(g, "idle"), RunAt(g) \in Runs,
           Transaction(g) \/ UNCHANGED storeVars
    PROVE  \A r \in Runs : r # RunAt(g) => run'[r] = run[r]
BY DEF Transaction, ClaimRun, MarkRetry, MarkFinal, MarkError, MarkFailed, CompleteRun,
       StoreTypeOK, storeVars

LEMMA HandlerIsPublished ==
    ASSUME TypeOK, AttemptInv, UnpublishedInv, UNCHANGED req, NEW g \in Handlers, ~At(g, "idle"),
           Transaction(g) \/ UNCHANGED storeVars,
           \/ UNCHANGED brokerVars
           \/ \E m \in Messages, where \in Places :
                 RunOf(m) = RunAt(g) /\ place' = [place EXCEPT ![m] = where]
    PROVE  UnpublishedInv'
<1>1. RunAt(g) \in Runs /\ req[RunAt(g)] \notin Unpublished
    BY HandlerPublished
<1>2. \A r \in Runs : req[r] \in Unpublished => run'[r] = run[r]
    BY <1>1, TransactionIsLocal DEF TypeOK
<1>3. \A m \in Messages : req[RunOf(m)] \in Unpublished => place'[m] = place[m]
    BY <1>1 DEF brokerVars, TypeOK, BrokerTypeOK
<1>4. QED
    BY <1>2, <1>3, PublishedOnly

\* A retry copy is a message of the run, and not its first one.
LEMMA RetryCopyIsMessage ==
    ASSUME TypeOK, AttemptInv, NEW g \in Handlers, At(g, "republish")
    PROVE  /\ RetryCopy(g) \in Messages /\ RunOf(RetryCopy(g)) = RunAt(g)
           /\ \A r \in Runs : RetryCopy(g) # <<r, 0>>
<1>1. RunAt(g) \in Runs /\ handler[g].attempt \in 1 .. MaxAttempts - 1
    BY HandlerRun, RunAssumption
       DEF AttemptInv, AttemptsGivenOut, AttemptsLimited, Numbered, At, TypeOK, StoreTypeOK, RunRow
<1>2. QED
    BY <1>1, RunAssumption DEF RetryCopy, Messages, RunOf

\* Where the messages that a handler sends or settles go.
LEMMA HandlerMoves ==
    ASSUME TypeOK, AttemptInv, NEW g \in Handlers, ~At(g, "idle")
    PROVE  /\ \A counted \in 0 .. 1 : PutBack(handler[g].msg, counted) =>
                 \E m \in Messages, where \in Places :
                    RunOf(m) = RunAt(g) /\ place' = [place EXCEPT ![m] = where]
           /\ Settle(handler[g].msg) =>
                 \E m \in Messages, where \in Places :
                    RunOf(m) = RunAt(g) /\ place' = [place EXCEPT ![m] = where]
           /\ At(g, "republish") /\ Enqueue(RetryCopy(g), "retry") =>
                 \E m \in Messages, where \in Places :
                    RunOf(m) = RunAt(g) /\ place' = [place EXCEPT ![m] = where]
<1>1. handler[g].msg \in Messages /\ RunAt(g) \in Runs
    BY HandlerRun DEF TypeOK
<1>2. At(g, "republish") => RetryCopy(g) \in Messages /\ RunOf(RetryCopy(g)) = RunAt(g)
    BY RetryCopyIsMessage
<1>3. QED
    BY <1>1, <1>2 DEF PutBack, Settle, Enqueue, Places, Live, RunAt

LEMMA UnpublishedStep ==
    ASSUME ConfirmsArrive, TypeOK, AttemptInv, UnpublishedInv, [Next]_vars
    PROVE  UnpublishedInv'
<1>1. ASSUME NEW r \in Runs, SendCheck(r) PROVE UnpublishedInv'
  <2>1. /\ \A q \in Runs : q # r => req'[q] = req[q]
        /\ req[r] = "new" /\ req'[r] \in {"checked", "refused"} /\ run' = run /\ place' = place
    BY <1>1 DEF SendCheck, Answer, TypeOK, storeVars, brokerVars
  <2>2. QED
    BY <2>1, MessageRun DEF UnpublishedInv, UnavailableMeansFailed, Unpublished
<1>2. ASSUME NEW r \in Runs, SendCommit(r) PROVE UnpublishedInv'
  <2>1. /\ \A q \in Runs : q # r => run'[q] = run[q] /\ req'[q] = req[q]
        /\ req[r] = "checked" /\ req'[r] \in {"committed", "refused"} /\ place' = place
        /\ req'[r] = "committed" => run'[r].status = "queued"
    BY <1>2 DEF SendCommit, Answer, CreateRun, NewRow, TypeOK, StoreTypeOK, storeVars, brokerVars
  <2>2. QED
    BY <2>1, MessageRun DEF UnpublishedInv, UnavailableMeansFailed, Unpublished
<1>3. ASSUME NEW r \in Runs, SendPublish(r) PROVE UnpublishedInv'
  <2>1. /\ \A q \in Runs : q # r => req'[q] = req[q]
        /\ req'[r] = "accepted" /\ run' = run
        /\ \A m \in Messages : RunOf(m) # r => place'[m] = place[m]
    BY <1>3 DEF SendPublish, Answer, Enqueue, TypeOK, BrokerTypeOK, RunOf, storeVars
  <2>2. QED
    BY <2>1, MessageRun DEF UnpublishedInv, UnavailableMeansFailed, Unpublished
<1>4. ASSUME NEW r \in Runs, SendPublishFails(r) PROVE UnpublishedInv'
  <2>1. /\ \A q \in Runs : q # r => req'[q] = req[q]
        /\ req[r] = "committed" /\ req'[r] = "unpublished" /\ run' = run /\ place' = place
    BY <1>4 DEF SendPublishFails, Fault, ConfirmsArrive, Answer, TypeOK, storeVars, brokerVars
  <2>2. QED
    BY <2>1, MessageRun DEF UnpublishedInv, UnavailableMeansFailed, Unpublished
\* Here the run must still be as it was committed for mark_failed to fail it.
<1>5. ASSUME NEW r \in Runs, SendUnavailable(r) PROVE UnpublishedInv'
  <2>1. run[r].status = "queued"
    BY <1>5 DEF SendUnavailable, Answer, UnpublishedInv
  <2>2. /\ \A q \in Runs : q # r => run'[q] = run[q] /\ req'[q] = req[q]
        /\ req[r] = "unpublished" /\ req'[r] = "unavailable" /\ place' = place
        /\ run'[r].status = "failed"
    BY <1>5, <2>1
       DEF SendUnavailable, Answer, MarkFailed, Failable, Active, ActiveStatus, Transition,
           TypeOK, StoreTypeOK, brokerVars
  <2>3. QED
    BY <2>2, MessageRun DEF UnpublishedInv, UnavailableMeansFailed, Unpublished
<1>6. ASSUME NEW r \in Runs, SendDies(r) PROVE UnpublishedInv'
  <2>1. /\ \A q \in Runs : q # r => run'[q] = run[q] /\ req'[q] = req[q]
        /\ req'[r] = "lost" /\ place' = place
    BY <1>6 DEF SendDies, Answer, MarkFailed, TypeOK, StoreTypeOK, storeVars, brokerVars
  <2>2. QED
    BY <2>1, MessageRun DEF UnpublishedInv, UnavailableMeansFailed, Unpublished
<1>7. ASSUME NEW g \in Handlers, NEW m \in Messages, Deliver(g, m)
      PROVE  UnpublishedInv'
  <2>1. /\ run' = run /\ req' = req /\ place[m] # "unsent"
        /\ \A n \in Messages : n # m => place'[n] = place[n]
    BY <1>7 DEF Deliver, Take, Enqueue, TypeOK, BrokerTypeOK, storeVars
  <2>2. QED
    BY <2>1, PublishedOnly DEF UnpublishedInv
<1>8. ASSUME NEW m \in Messages, RetryExpires(m) PROVE UnpublishedInv'
  <2>1. /\ run' = run /\ req' = req /\ place[m] # "unsent"
        /\ \A n \in Messages : n # m => place'[n] = place[n]
    BY <1>8 DEF RetryExpires, RetryDelayOver, Enqueue, TypeOK, BrokerTypeOK, storeVars
  <2>2. QED
    BY <2>1, PublishedOnly DEF UnpublishedInv
<1>9. ASSUME NEW g \in Handlers,
             \/ Handle(g) \/ PublishRetryFails(g) \/ Crash(g) \/ ConnectionLost(g)
             \/ DatabaseFails(g) \/ ConnectRefused(g)
      PROVE  UnpublishedInv'
  <2>1. ~At(g, "idle") /\ (Transaction(g) \/ UNCHANGED storeVars) /\ UNCHANGED req
    BY <1>9
       DEF Handle, Claim, Expire, LoadContext, Respond, Complete, HandleError, PublishRetry,
           GiveUp, Ack, Nack, Transaction, PublishRetryFails, Crash, ConnectionLost,
           DatabaseFails, ConnectRefused, TransactionSteps, At
  <2>2. \/ UNCHANGED brokerVars
        \/ \E counted \in 0 .. 1 : PutBack(handler[g].msg, counted)
        \/ Settle(handler[g].msg)
        \/ At(g, "republish") /\ Enqueue(RetryCopy(g), "retry")
    BY <1>9
       DEF Handle, Claim, Expire, LoadContext, Respond, Complete, HandleError, PublishRetry,
           GiveUp, Ack, Nack, PublishRetryFails, Crash, ConnectionLost, DatabaseFails,
           ConnectRefused
  <2>3. QED
    BY <2>1, <2>2, HandlerMoves, HandlerIsPublished
<1>10. ASSUME Conversation \/ UNCHANGED vars PROVE UnpublishedInv'
  <2>1. run' = run /\ req' = req /\ place' = place
    BY <1>10
       DEF Conversation, CreateSession, CompleteSession, DeleteSession, DeleteAgent, vars,
           storeVars, brokerVars
  <2>2. QED
    BY <2>1, PublishedOnly
<1>11. QED
    BY <1>1, <1>2, <1>3, <1>4, <1>5, <1>6, <1>7, <1>8, <1>9, <1>10
       DEF Next, Request, Failure

\* As long as no confirmation is lost, a request that was answered 503 has failed
\* its run, so the conversation is free for the next message.
THEOREM UnavailableIsTrue ==
    ASSUME ConfirmsArrive PROVE Spec => []UnavailableMeansFailed
<1>1. Init => UnpublishedInv
    BY MessageRun DEF Init, BrokerInit, UnpublishedInv, UnavailableMeansFailed
<1>2. TypeOK /\ AttemptInv /\ UnpublishedInv /\ [Next]_vars => UnpublishedInv'
    BY UnpublishedStep
<1>3. UnpublishedInv => UnavailableMeansFailed
    BY DEF UnpublishedInv
<1>4. QED
    BY <1>1, <1>2, <1>3, TypeInvariant, AttemptInvariant, PTL DEF Spec

-----------------------------------------------------------------------------
(* Why no run is forgotten: deliveries come back until somebody is done *)

\* The API and the channels stay up, and the delivery limit covers the failures.
DeliveriesReturn ==
    /\ Faults \cap {"connection", "api"} = {}
    /\ MaxFaults <= DeliveryLimit

HeldInv ==
    /\ \A h \in Handlers : ~At(h, "idle") =>
          handler[h].attached /\ place[handler[h].msg] = "unacked"
    /\ \A g, h \in Handlers :
          ~At(g, "idle") /\ ~At(h, "idle") /\ g # h => handler[g].msg # handler[h].msg
    /\ \A r \in Runs :
          req[r] \in {"new", "checked", "committed"} => place[<<r, 0>>] = "unsent"

ReturnsInv ==
    /\ faults <= MaxFaults
    /\ \A m \in Messages : returns[m] <= faults
    /\ \A h \in Handlers : At(h, "nack") => returns[handler[h].msg] < faults

\* A handler that will not acknowledge before the run has ended or is sent again.
Carries(h) ==
    \/ handler[h].pc \in {"claim", "republish", "giveup", "nack", "stuck"}
    \/ handler[h].pc \in Working \union {"expire"} /\ Owns(RunAt(h), handler[h].attempt)

Queued(m) == place[m] \in {"process", "retry"}

Carried(r) ==
    \/ req[r] \in {"committed", "unpublished"}
    \/ \E m \in Messages : RunOf(m) = r /\ Queued(m)
    \/ \E h \in Handlers : Carries(h) /\ RunAt(h) = r

CarriedInv ==
    /\ \A r \in Runs : Claimable(r) => Carried(r)
    /\ \A r \in Runs : run[r].status # "none" => session[SessionOf[r]].status # "none"

DrivenInv == HeldInv /\ ReturnsInv /\ CarriedInv

LEMMA CarriedIsDriven ==
    ASSUME TypeOK, HeldInv, NEW r \in Runs, Carried(r) PROVE Driven(r)
<1>1. CASE \E h \in Handlers : Carries(h) /\ RunAt(h) = r
  <2>1. PICK h \in Handlers : Carries(h) /\ RunAt(h) = r
    BY <1>1
  <2>2. ~At(h, "idle")
    BY <2>1 DEF Carries, Working, At
  <2>3. handler[h].msg \in Messages /\ place[handler[h].msg] = "unacked"
    BY <2>2, HandlerRun DEF TypeOK, HeldInv
  <2>4. QED
    BY <2>1, <2>3 DEF Driven, Live, RunAt
<1>2. CASE ~\E h \in Handlers : Carries(h) /\ RunAt(h) = r
    BY <1>2 DEF Carried, Queued, Driven, Live
<1>3. QED
    BY <1>1, <1>2

-----------------------------------------------------------------------------
(* Which handler holds which message *)

\* A handler goes on with its delivery and no message moves.
LEMMA MoveHeld ==
    ASSUME TypeOK, HeldInv, NEW g \in Handlers, ~At(g, "idle"),
           \A h \in Handlers : h # g => handler'[h] = handler[h],
           handler'[g].msg = handler[g].msg, handler'[g].attached = handler[g].attached,
           UNCHANGED <<place, req>>
    PROVE  HeldInv'
<1>1. \A h \in Handlers : ~At(h, "idle")' =>
         ~At(h, "idle") /\ handler'[h].msg = handler[h].msg
                        /\ handler'[h].attached = handler[h].attached
    BY DEF At
<1>2. QED
    BY <1>1 DEF HeldInv

\* A handler is done with its delivery.
LEMMA ReleaseHeld ==
    ASSUME TypeOK, AttemptInv, HeldInv, NEW g \in Handlers, ~At(g, "idle"), Release(g),
           NEW where \in Places, place' = [place EXCEPT ![handler[g].msg] = where],
           UNCHANGED req
    PROVE  HeldInv'
<1>1. \A h \in Handlers : ~At(h, "idle")' =>
         h # g /\ ~At(h, "idle") /\ handler'[h] = handler[h]
    BY DEF Release, Idle, At, TypeOK, HandlerTypeOK
<1>2. \A h \in Handlers : ~At(h, "idle")' =>
         handler[h].msg \in Messages /\ place'[handler[h].msg] = place[handler[h].msg]
    BY <1>1, HandlerRun DEF HeldInv, TypeOK, BrokerTypeOK
<1>3. place[handler[g].msg] # "unsent" /\ handler[g].msg \in Messages
    BY HandlerRun DEF AttemptInv, HeldWasSent, TypeOK
<1>4. \A r \in Runs : place[<<r, 0>>] = "unsent" => place'[<<r, 0>>] = "unsent"
    BY <1>3 DEF TypeOK, BrokerTypeOK
<1>5. QED
    BY <1>1, <1>2, <1>4 DEF HeldInv

\* A retry is sent under a name nobody holds, and which is not that of a first
\* publication.
LEMMA RetryHeld ==
    ASSUME TypeOK, AttemptInv, HeldInv, NEW g \in Handlers, At(g, "republish"),
           \A h \in Handlers : h # g => handler'[h] = handler[h],
           handler'[g].msg = handler[g].msg, handler'[g].attached = handler[g].attached,
           Enqueue(RetryCopy(g), "retry"), UNCHANGED req
    PROVE  HeldInv'
<1>1. RetryCopy(g) \in Messages /\ \A r \in Runs : RetryCopy(g) # <<r, 0>>
    BY RetryCopyIsMessage
<1>2. place' = [place EXCEPT ![RetryCopy(g)] = "retry"] /\ place[RetryCopy(g)] = "unsent"
    BY DEF Enqueue, AttemptInv, RetryCopiesAreFresh
<1>3. \A h \in Handlers : ~At(h, "idle")' =>
         ~At(h, "idle") /\ handler'[h].msg = handler[h].msg
                        /\ handler'[h].attached = handler[h].attached
    BY DEF At
<1>4. \A h \in Handlers : ~At(h, "idle") =>
         handler[h].msg \in Messages /\ place'[handler[h].msg] = place[handler[h].msg]
    BY <1>2, HandlerRun DEF HeldInv, TypeOK, BrokerTypeOK
<1>5. \A r \in Runs : place[<<r, 0>>] = "unsent" => place'[<<r, 0>>] = "unsent"
    BY <1>1, <1>2 DEF TypeOK, BrokerTypeOK
<1>6. QED
    BY <1>3, <1>4, <1>5 DEF HeldInv

\* A first publication is of a message nobody holds.
LEMMA PublishHeld ==
    ASSUME TypeOK, HeldInv, NEW r \in Runs, NEW to \in ReqState \ {"new", "checked", "committed"},
           Answer(r, "committed", to), Enqueue(<<r, 0>>, "process"), UNCHANGED handler
    PROVE  HeldInv'
<1>1. <<r, 0>> \in Messages
    BY RunAssumption DEF Messages
<1>2. place' = [place EXCEPT ![<<r, 0>>] = "process"] /\ place[<<r, 0>>] = "unsent"
    BY DEF Enqueue, HeldInv, Answer
<1>3. \A h \in Handlers : ~At(h, "idle") =>
         handler[h].msg \in Messages /\ place'[handler[h].msg] = place[handler[h].msg]
    BY <1>2, HandlerRun DEF HeldInv, TypeOK, BrokerTypeOK
<1>4. \A q \in Runs : req'[q] \in {"new", "checked", "committed"} =>
         q # r /\ req[q] \in {"new", "checked", "committed"} /\ place'[<<q, 0>>] = place[<<q, 0>>]
    BY <1>1, <1>2 DEF Answer, TypeOK, BrokerTypeOK
<1>5. QED
    BY <1>3, <1>4 DEF HeldInv, At

\* Everything else moves no message and no handler; a request only advances.
LEMMA OutsideHeld ==
    ASSUME HeldInv, UNCHANGED <<place, handler>>,
           \A r \in Runs : req'[r] \in {"new", "checked", "committed"} =>
              req[r] \in {"new", "checked", "committed"}
    PROVE  HeldInv'
BY DEF HeldInv, At

LEMMA HeldStep ==
    ASSUME DeliveriesReturn, TypeOK, AttemptInv, HeldInv, [Next]_vars
    PROVE  HeldInv'
<1>1. ASSUME NEW r \in Runs, Request(r) \/ SendPublishFails(r) \/ SendDies(r) PROVE HeldInv'
  <2>1. CASE SendPublish(r) \/ SendPublishFails(r)
    <3>1. CASE UNCHANGED brokerVars
      BY <2>1, <3>1, OutsideHeld
         DEF SendPublish, SendPublishFails, Answer, TypeOK, brokerVars
    <3>2. CASE ~UNCHANGED brokerVars
      BY <2>1, <3>2, PublishHeld DEF SendPublish, SendPublishFails, ReqState
    <3>3. QED
      BY <3>1, <3>2
  <2>2. CASE SendCheck(r) \/ SendCommit(r) \/ SendUnavailable(r) \/ SendDies(r)
    BY <2>2, OutsideHeld
       DEF SendCheck, SendCommit, SendUnavailable, SendDies, Answer, TypeOK, brokerVars
  <2>3. QED
    BY <1>1, <2>1, <2>2 DEF Request
<1>2. ASSUME NEW g \in Handlers, NEW m \in Messages, Deliver(g, m) PROVE HeldInv'
  <2>1. /\ \A h \in Handlers : h # g => handler'[h] = handler[h]
        /\ handler'[g].msg = m /\ handler'[g].attached
        /\ place[m] = "process" /\ place' = [place EXCEPT ![m] = "unacked"] /\ req' = req
    BY <1>2 DEF Deliver, Take, Enqueue, TypeOK, HandlerTypeOK
  <2>2. \A h \in Handlers : h # g /\ ~At(h, "idle") =>
           handler[h].msg \in Messages /\ handler[h].msg # m
    BY <2>1, HandlerRun DEF HeldInv, TypeOK
  <2>3. QED
    BY <2>1, <2>2 DEF HeldInv, At, TypeOK, BrokerTypeOK
<1>3. ASSUME NEW m \in Messages, RetryExpires(m) PROVE HeldInv'
  <2>1. place[m] = "retry" /\ place' = [place EXCEPT ![m] = "process"] /\ UNCHANGED <<handler, req>>
    BY <1>3 DEF RetryExpires, RetryDelayOver, Enqueue
  <2>2. \A h \in Handlers : ~At(h, "idle") =>
           handler[h].msg \in Messages /\ handler[h].msg # m
    BY <2>1, HandlerRun DEF HeldInv, TypeOK
  <2>3. QED
    BY <2>1, <2>2 DEF HeldInv, At, TypeOK, BrokerTypeOK
<1>4. ASSUME NEW g \in Handlers, Ack(g) \/ Nack(g) \/ Crash(g) PROVE HeldInv'
  <2>1. ~At(g, "idle") /\ handler[g].attached /\ Release(g) /\ UNCHANGED req
    BY <1>4 DEF Ack, Nack, Crash, At, HeldInv
  <2>2. \E where \in Places : place' = [place EXCEPT ![handler[g].msg] = where]
    BY <1>4, <2>1 DEF Ack, Nack, Crash, Settle, PutBack, Enqueue, Places, Live
  <2>3. QED
    BY <2>1, <2>2, ReleaseHeld
<1>5. ASSUME NEW g \in Handlers, PublishRetry(g) \/ PublishRetryFails(g) PROVE HeldInv'
  <2>1. /\ \A h \in Handlers : h # g => handler'[h] = handler[h]
        /\ handler'[g].msg = handler[g].msg /\ handler'[g].attached = handler[g].attached
        /\ At(g, "republish") /\ UNCHANGED req
    BY <1>5 DEF PublishRetry, PublishRetryFails, Conclude, Begin, Goto, TypeOK, HandlerTypeOK,
                HandlerState
  <2>2. CASE Enqueue(RetryCopy(g), "retry")
    BY <2>1, <2>2, RetryHeld
  <2>3. CASE ~Enqueue(RetryCopy(g), "retry")
    BY <1>5, <2>1, <2>3, MoveHeld DEF PublishRetry, PublishRetryFails, At, brokerVars
  <2>4. QED
    BY <2>2, <2>3
<1>6. ASSUME NEW g \in Handlers,
             \/ Claim(g) \/ Expire(g) \/ LoadContext(g) \/ Respond(g) \/ Complete(g)
             \/ HandleError(g) \/ GiveUp(g) \/ DatabaseFails(g) \/ ConnectRefused(g)
      PROVE  HeldInv'
  <2>1. /\ \A h \in Handlers : h # g => handler'[h] = handler[h]
        /\ handler'[g].msg = handler[g].msg /\ handler'[g].attached = handler[g].attached
    BY <1>6
       DEF Claim, Expire, LoadContext, Respond, Complete, HandleError, GiveUp, DatabaseFails,
           ConnectRefused, Conclude, Begin, Goto, TypeOK, HandlerTypeOK, HandlerState
  <2>2. ~At(g, "idle") /\ UNCHANGED <<place, req>>
    BY <1>6
       DEF Claim, Expire, LoadContext, Respond, Complete, HandleError, GiveUp, DatabaseFails,
           ConnectRefused, TransactionSteps, At, brokerVars
  <2>3. QED
    BY <2>1, <2>2, MoveHeld
<1>7. ASSUME Conversation \/ UNCHANGED vars PROVE HeldInv'
  <2>1. UNCHANGED <<place, handler, req>>
    BY <1>7 DEF Conversation, vars, brokerVars
  <2>2. QED
    BY <2>1, OutsideHeld
<1>8. \A g \in Handlers : ~ConnectionLost(g)
    BY DEF ConnectionLost, Fault, DeliveriesReturn
<1>9. QED
    BY <1>1, <1>2, <1>3, <1>4, <1>5, <1>6, <1>7, <1>8 DEF Next, Handle, Failure

-----------------------------------------------------------------------------
(* How often a message has come back *)

\* A message is returned with no failure, or after one more.
LEMMA QuietReturns ==
    ASSUME TypeOK, ReturnsInv, UNCHANGED returns,
           UNCHANGED faults \/ \E kind \in FaultKinds : Fault(kind),
           \A h \in Handlers : At(h, "nack")' =>
              /\ handler'[h].msg = handler[h].msg
              /\ At(h, "nack") \/ (~At(h, "idle") /\ faults' = faults + 1)
    PROVE  ReturnsInv'
<1>1. faults \in Nat /\ faults' \in {faults, faults + 1} /\ faults' <= MaxFaults
    BY FaultAssumption DEF TypeOK, ReturnsInv, Fault
<1>2. \A m \in Messages : returns[m] \in Nat /\ returns'[m] = returns[m] /\ returns[m] <= faults
    BY DEF TypeOK, BrokerTypeOK, ReturnsInv
<1>3. ASSUME NEW h \in Handlers, At(h, "nack")' PROVE returns'[handler'[h].msg] < faults'
  <2>1. handler'[h].msg = handler[h].msg /\ handler[h].msg \in Messages
    BY <1>3, HandlerRun DEF TypeOK, At
  <2>2. QED
    BY <1>1, <1>2, <1>3, <2>1 DEF ReturnsInv
<1>4. QED
    BY <1>1, <1>2, <1>3 DEF ReturnsInv

\* A counted return is paid for by a failure: the one that happens, or the one
\* that led to the nack.
LEMMA CountedReturn ==
    ASSUME TypeOK, HeldInv, ReturnsInv, NEW g \in Handlers, ~At(g, "idle"), Release(g),
           NEW counted \in 0 .. 1, PutBack(handler[g].msg, counted),
           \/ At(g, "nack") /\ UNCHANGED faults
           \/ \E kind \in FaultKinds : Fault(kind)
    PROVE  ReturnsInv' /\ returns[handler[g].msg] + counted <= MaxFaults
<1> DEFINE m == handler[g].msg
<1>1. m \in Messages /\ returns[m] \in Nat /\ returns[m] <= faults /\ faults \in Nat
      /\ MaxFaults \in Nat /\ faults <= MaxFaults
    BY HandlerRun, FaultAssumption DEF TypeOK, BrokerTypeOK, ReturnsInv
<1>2. faults' \in {faults, faults + 1} /\ faults' <= MaxFaults /\ returns[m] + counted <= faults'
    BY <1>1 DEF ReturnsInv, Fault
<1>3. returns'[m] = returns[m] + counted /\ \A n \in Messages : n # m => returns'[n] = returns[n]
    BY <1>1 DEF PutBack, TypeOK, BrokerTypeOK
<1>4. \A n \in Messages : returns'[n] <= faults'
    BY <1>1, <1>2, <1>3 DEF ReturnsInv, TypeOK, BrokerTypeOK
<1>5. ASSUME NEW h \in Handlers, At(h, "nack")' PROVE returns'[handler'[h].msg] < faults'
  <2>1. h # g /\ handler'[h] = handler[h] /\ At(h, "nack")
    BY <1>5 DEF Release, Idle, At, TypeOK, HandlerTypeOK
  <2>2. handler[h].msg \in Messages /\ handler[h].msg # m
    BY <2>1, HandlerRun DEF HeldInv, TypeOK, At
  <2>3. returns[handler[h].msg] \in Nat /\ returns[handler[h].msg] < faults
    BY <2>1, <2>2 DEF ReturnsInv, TypeOK, BrokerTypeOK
  <2>4. QED
    BY <1>1, <1>2, <1>3, <2>1, <2>2, <2>3
<1>6. QED
    BY <1>1, <1>2, <1>4, <1>5 DEF ReturnsInv

LEMMA ReturnsStep ==
    ASSUME DeliveriesReturn, TypeOK, HeldInv, ReturnsInv, [Next]_vars
    PROVE  ReturnsInv'
<1>1. ASSUME NEW g \in Handlers, Nack(g) \/ Crash(g) PROVE ReturnsInv'
  <2>1. ~At(g, "idle") /\ handler[g].attached /\ Release(g)
    BY <1>1 DEF Nack, Crash, At, HeldInv
  <2>2. \E counted \in 0 .. 1 :
           /\ PutBack(handler[g].msg, counted)
           /\ \/ At(g, "nack") /\ UNCHANGED faults
              \/ \E kind \in FaultKinds : Fault(kind)
    BY <1>1, <2>1 DEF Nack, Crash, FaultKinds
  <2>3. QED
    BY <2>1, <2>2, CountedReturn
<1>2. ASSUME NEW g \in Handlers,
             \/ Claim(g) \/ Expire(g) \/ LoadContext(g) \/ Respond(g) \/ Complete(g)
             \/ HandleError(g) \/ PublishRetry(g) \/ GiveUp(g) \/ Ack(g)
             \/ PublishRetryFails(g) \/ ConnectRefused(g)
      PROVE  ReturnsInv'
  <2>1. \A h \in Handlers : At(h, "nack")' => At(h, "nack") /\ handler'[h].msg = handler[h].msg
    BY <1>2
       DEF Claim, Expire, LoadContext, Respond, Responses, Complete, HandleError, PublishRetry,
           GiveUp, Ack, PublishRetryFails, ConnectRefused, Conclude, Begin, Goto, Release, Idle,
           At, TypeOK, HandlerTypeOK, HandlerState
  <2>2. UNCHANGED returns /\ (UNCHANGED faults \/ \E kind \in FaultKinds : Fault(kind))
    BY <1>2
       DEF Claim, Expire, LoadContext, Respond, Complete, HandleError, PublishRetry, GiveUp,
           Ack, PublishRetryFails, ConnectRefused, Settle, Enqueue, FaultKinds, brokerVars
  <2>3. QED
    BY <2>1, <2>2, QuietReturns
<1>3. ASSUME NEW g \in Handlers, DatabaseFails(g) PROVE ReturnsInv'
  <2>1. /\ \A h \in Handlers : h # g => handler'[h] = handler[h]
        /\ handler'[g].msg = handler[g].msg /\ ~At(g, "idle")
    BY <1>3 DEF DatabaseFails, TransactionSteps, Conclude, Begin, At, TypeOK, HandlerTypeOK,
                HandlerState
  <2>2. UNCHANGED returns /\ Fault("database")
    BY <1>3 DEF DatabaseFails, brokerVars
  <2>3. QED
    BY <2>1, <2>2, QuietReturns DEF At, Fault, FaultKinds
<1>4. ASSUME NEW g \in Handlers, NEW m \in Messages, Deliver(g, m) PROVE ReturnsInv'
  <2>1. \A h \in Handlers : At(h, "nack")' => At(h, "nack") /\ handler'[h].msg = handler[h].msg
    BY <1>4 DEF Deliver, At, TypeOK, HandlerTypeOK
  <2>2. QED
    BY <1>4, <2>1, QuietReturns DEF Deliver, Take, Enqueue
<1>5. ASSUME NEW r \in Runs, Request(r) \/ SendPublishFails(r) \/ SendDies(r) PROVE ReturnsInv'
  <2>1. UNCHANGED <<returns, handler>>
    BY <1>5 DEF Request, SendCheck, SendCommit, SendPublish, SendUnavailable, SendPublishFails,
                SendDies, Enqueue, brokerVars
  <2>2. UNCHANGED faults \/ \E kind \in FaultKinds : Fault(kind)
    BY <1>5 DEF Request, SendCheck, SendCommit, SendPublish, SendUnavailable, SendPublishFails,
                SendDies, FaultKinds
  <2>3. QED
    BY <2>1, <2>2, QuietReturns DEF At
<1>6. ASSUME Conversation \/ UNCHANGED vars \/ \E m \in Messages : RetryExpires(m)
      PROVE  ReturnsInv'
  <2>1. UNCHANGED <<returns, handler, faults>>
    BY <1>6 DEF Conversation, RetryExpires, RetryDelayOver, Enqueue, vars, brokerVars
  <2>2. QED
    BY <2>1, QuietReturns DEF At
<1>7. \A g \in Handlers : ~ConnectionLost(g)
    BY DEF ConnectionLost, Fault, DeliveriesReturn
<1>8. QED
    BY <1>1, <1>2, <1>3, <1>4, <1>5, <1>6, <1>7 DEF Next, Handle, Failure

-----------------------------------------------------------------------------
(* Who still has to do something about a run *)

\* No step but the insert of the run or of its session makes a run claimable that
\* was not, and a run has its session first.
LEMMA SessionFirst ==
    ASSUME StoreTypeOK, CarriedInv, [StoreNext]_storeVars, NEW r \in Runs
    PROVE  /\ run'[r].status # "none" => session'[SessionOf[r]].status # "none"
           /\ run'[r] = run[r] /\ Claimable(r)' => Claimable(r)
<1> DEFINE Goal == /\ run'[r].status # "none" => session'[SessionOf[r]].status # "none"
                   /\ run'[r] = run[r] /\ Claimable(r)' => Claimable(r)
<1> USE RunAssumption
    DEF StoreTypeOK, CarriedInv, Claimable, Active, ActiveStatus, Runnable, Visible
<1>1. ASSUME NEW q \in Runs, CreateRun(q) PROVE Goal
    BY <1>1 DEF CreateRun, Accepts
<1>2. ASSUME NEW q \in Runs, ClaimRun(q) PROVE Goal
    BY <1>2 DEF ClaimRun
<1>3. ASSUME NEW q \in Runs, MarkFailed(q) PROVE Goal
    BY <1>3 DEF MarkFailed, Failable
<1>4. ASSUME NEW q \in Runs, NEW k \in Nat, CompleteRun(q, k) PROVE Goal
    BY <1>4 DEF CompleteRun, Owns
<1>5. ASSUME NEW q \in Runs, NEW k \in Nat, NEW status \in {"queued", "failed"},
             NEW error \in ErrorCode, MarkError(q, k, status, error)
      PROVE  Goal
    BY <1>5 DEF MarkError, Owns
<1>6. ASSUME NEW s \in Sessions, CreateSession(s) PROVE Goal
    BY <1>6 DEF CreateSession
<1>7. ASSUME NEW s \in Sessions, CompleteSession(s) \/ DeleteSession(s) PROVE Goal
    BY <1>7 DEF CompleteSession, DeleteSession, MayClose, SessionRow
<1>8. ASSUME NEW a \in Agents, DeleteAgent(a) PROVE Goal
    BY <1>8 DEF DeleteAgent
<1>9. ASSUME UNCHANGED storeVars PROVE Goal
    BY <1>9 DEF storeVars
<1> HIDE DEF Goal
<1>10. Goal
    BY ONLY <1>1, <1>2, <1>3, <1>4, <1>5, <1>6, <1>7, <1>8, <1>9, [StoreNext]_storeVars
       DEF StoreNext
<1>11. QED
    BY <1>10 DEF Goal

\* A run whose row, request, queued messages and handlers stay as they were.
LEMMA StaysCarried ==
    ASSUME StoreTypeOK, CarriedInv, [StoreNext]_storeVars, NEW r \in Runs,
           run'[r] = run[r],
           req[r] \in {"committed", "unpublished"} => req'[r] \in {"committed", "unpublished"},
           \A m \in Messages : RunOf(m) = r /\ Queued(m) => Queued(m)',
           \A h \in Handlers : Carries(h) /\ RunAt(h) = r => handler'[h] = handler[h]
    PROVE  Claimable(r)' => Carried(r)'
<1>1. SUFFICES ASSUME Claimable(r)' PROVE Carried(r)'
    OBVIOUS
<1>2. Carried(r)
    BY <1>1, SessionFirst DEF CarriedInv
<1>3. ASSUME NEW h \in Handlers, Carries(h), RunAt(h) = r PROVE Carried(r)'
  <2>1. handler'[h] = handler[h] /\ RunAt(h)' = r
    BY <1>3 DEF RunAt
  <2>2. Carries(h)'
    BY <1>3, <2>1 DEF Carries, Owns
  <2>3. QED
    BY <2>1, <2>2 DEF Carried
<1>4. QED
    BY <1>2, <1>3 DEF Carried

\* A step of handler g leaves other runs to those who had them, and its own run
\* to itself or to a queue, unless the run is over or g had no part in it.
LEMMA HandlerCarries ==
    ASSUME TypeOK, CarriedInv, [StoreNext]_storeVars, NEW g \in Handlers,
           NEW q \in Runs, q = RunAt(g),
           \A r \in Runs : r # q => run'[r] = run[r],
           UNCHANGED req,
           \A h \in Handlers : h # g => handler'[h] = handler[h],
           \A m \in Messages : Queued(m) => Queued(m)',
           \/ ~Claimable(q)'
           \/ RunAt(g)' = q /\ Carries(g)'
           \/ \E m \in Messages : RunOf(m) = q /\ Queued(m)'
           \/ run'[q] = run[q] /\ ~Carries(g)
    PROVE  CarriedInv'
<1>1. ASSUME NEW r \in Runs, r # q PROVE Claimable(r)' => Carried(r)'
    BY <1>1, StaysCarried DEF TypeOK
<1>2. Claimable(q)' => Carried(q)'
  <2>1. CASE run'[q] = run[q] /\ ~Carries(g)
    BY <2>1, StaysCarried DEF TypeOK
  <2>2. CASE ~(run'[q] = run[q] /\ ~Carries(g))
    BY <2>2 DEF Carried
  <2>3. QED
    BY <2>1, <2>2
<1>3. QED
    BY <1>1, <1>2, SessionFirst DEF CarriedInv, TypeOK

\* The transaction of an attempt: its run is over, or it goes on owning it, or it
\* never did.
LEMMA AttemptCarries ==
    ASSUME TypeOK, NEW g \in Handlers, NEW q \in Runs, q = RunAt(g),
           Handle(g), ~PublishRetry(g), ~Nack(g)
    PROVE  \/ ~Claimable(q)'
           \/ RunAt(g)' = q /\ Carries(g)'
           \/ run'[q] = run[q] /\ ~Carries(g)
<1> DEFINE k == handler[g].attempt
<1> USE DEF TypeOK, HandlerTypeOK, HandlerState
<1>1. CASE Claim(g)
  <2>1. CASE ~Claimable(q)
    <3>1. run' = run /\ session' = session /\ deletedAgents' = deletedAgents
      BY <1>1, <2>1 DEF Claim, ClaimRun
    <3>2. QED
      BY <2>1, <3>1 DEF Claimable, Active, Runnable, Visible
  <2>2. CASE Claimable(q)
    <3>1. run'[q] = ClaimedRow(run[q])
      BY <1>1, <2>2 DEF Claim, ClaimRun, StoreTypeOK
    <3>2. /\ handler'[g].pc \in {"context", "expire"} /\ handler'[g].msg = handler[g].msg
          /\ handler'[g].attempt = ClaimedRow(run[q]).attempt
      BY <1>1, <2>2 DEF Claim, Begin
    <3>3. RunAt(g)' = q
      BY <3>2 DEF RunAt
    <3>4. Owns(q, handler[g].attempt)'
      BY <3>1, <3>2 DEF Owns, ClaimedRow
    <3>5. Carries(g)'
      BY <3>2, <3>3, <3>4 DEF Carries, Working, Owns
    <3>6. QED
      BY <3>3, <3>5
  <2>3. QED
    BY <2>1, <2>2
<1>2. CASE Expire(g) \/ (HandleError(g) /\ ~Retries(g))
  <2>1. At(g, "expire") \/ At(g, "transient") \/ At(g, "permanent")
    BY <1>2 DEF Expire, HandleError
  <2>2. \E error \in ErrorCode : MarkError(q, k, "failed", error)
    BY <1>2 DEF Expire, HandleError, MarkFinal, ErrorCode
  <2>3. CASE Owns(q, k)
    <3>1. run'[q].status = "failed"
      BY <2>2, <2>3 DEF MarkError, Transition, StoreTypeOK
    <3>2. QED
      BY <3>1 DEF Claimable, Active, ActiveStatus
  <2>4. CASE ~Owns(q, k)
    BY <2>1, <2>2, <2>4 DEF MarkError, Carries, At
  <2>5. QED
    BY <2>3, <2>4
<1>3. CASE HandleError(g) /\ Retries(g)
  <2>1. CASE Owns(q, k)
    <3>1. handler'[g].pc = "republish" /\ handler'[g].msg = handler[g].msg
      BY <1>3, <2>1 DEF HandleError, Republishes, Goto
    <3>2. QED
      BY <3>1 DEF Carries, RunAt
  <2>2. CASE ~Owns(q, k)
    BY <1>3, <2>2 DEF HandleError, Retries, MarkRetry, MarkError, Carries, At
  <2>3. QED
    BY <2>1, <2>2
<1>4. CASE LoadContext(g) \/ Respond(g)
  <2>1. /\ run' = run /\ handler[g].pc \in Working /\ handler'[g].pc \in Working
        /\ handler'[g].msg = handler[g].msg /\ handler'[g].attempt = k
    BY <1>4 DEF LoadContext, Respond, Responses, Goto, Working, At, storeVars
  <2>2. QED
    BY <2>1 DEF Carries, Working, RunAt, Owns
<1>5. CASE Complete(g)
  <2>1. CASE ~Runnable(SessionOf[q])
    BY <1>5, <2>1 DEF Complete, Claimable, Runnable, Visible, storeVars
  <2>2. CASE Runnable(SessionOf[q]) /\ Owns(q, k)
    <3>1. run'[q].status = "completed"
      BY <1>5, <2>2 DEF Complete, CompleteRun, Transition, StoreTypeOK
    <3>2. QED
      BY <3>1 DEF Claimable, Active, ActiveStatus
  <2>3. CASE Runnable(SessionOf[q]) /\ ~Owns(q, k)
    BY <1>5, <2>3 DEF Complete, CompleteRun, Carries, At
  <2>4. QED
    BY <2>1, <2>2, <2>3
<1>6. CASE GiveUp(g)
    BY <1>6 DEF GiveUp, MarkFailed, Failable, Transition, Claimable, Active, ActiveStatus,
                StoreTypeOK
<1>7. CASE Ack(g)
    BY <1>7 DEF Ack, Carries, Working, At, storeVars
<1>8. QED
    BY <1>1, <1>2, <1>3, <1>4, <1>5, <1>6, <1>7 DEF Handle

\* What a handler does to the queues: a delivery is not queued, and a retry goes
\* into a queue.
LEMMA QueuedStays ==
    ASSUME TypeOK, HeldInv, NEW g \in Handlers, ~At(g, "idle"),
           \/ UNCHANGED brokerVars
           \/ \E queue \in Places : Enqueue(handler[g].msg, queue)
           \/ \E counted \in 0 .. 1 : PutBack(handler[g].msg, counted)
           \/ Enqueue(RetryCopy(g), "retry")
    PROVE  \A m \in Messages : Queued(m) => Queued(m)'
<1>1. handler[g].msg \in Messages /\ ~Queued(handler[g].msg)
    BY HandlerRun DEF TypeOK, HeldInv, Queued
<1>2. QED
    BY <1>1 DEF Enqueue, PutBack, Queued, brokerVars, TypeOK, BrokerTypeOK

LEMMA HandlerCarriedStep ==
    ASSUME DeliveriesReturn, TypeOK, AttemptInv, HeldInv, ReturnsInv, CarriedInv,
           [StoreNext]_storeVars, NEW g \in Handlers,
           \/ Handle(g) \/ PublishRetryFails(g) \/ Crash(g)
           \/ DatabaseFails(g) \/ ConnectRefused(g)
    PROVE  CarriedInv'
<1>1. ~At(g, "idle") /\ (Transaction(g) \/ UNCHANGED storeVars) /\ UNCHANGED req
    BY DEF Handle, Claim, Expire, LoadContext, Respond, Complete, HandleError, PublishRetry,
           GiveUp, Ack, Nack, Transaction, PublishRetryFails, Crash, DatabaseFails,
           ConnectRefused, TransactionSteps, At
<1>2. PICK q \in Runs : q = RunAt(g)
    BY <1>1, HandlerRun DEF TypeOK
<1>3. \A r \in Runs : r # q => run'[r] = run[r]
    BY <1>1, <1>2, TransactionIsLocal DEF TypeOK
<1>4. \A h \in Handlers : h # g => handler'[h] = handler[h]
    BY DEF Handle, Claim, Expire, LoadContext, Respond, Complete, HandleError, PublishRetry,
           GiveUp, Ack, Nack, PublishRetryFails, Crash, DatabaseFails, ConnectRefused,
           Conclude, Begin, Goto, Release, TypeOK, HandlerTypeOK
<1>5. \A m \in Messages : Queued(m) => Queued(m)'
  <2>1. \/ UNCHANGED brokerVars
        \/ Enqueue(handler[g].msg, "gone")
        \/ \E counted \in 0 .. 1 : PutBack(handler[g].msg, counted)
        \/ Enqueue(RetryCopy(g), "retry")
    BY DEF Handle, Claim, Expire, LoadContext, Respond, Complete, HandleError, PublishRetry,
           GiveUp, Ack, Nack, PublishRetryFails, Crash, DatabaseFails, ConnectRefused, Settle
  <2>2. "gone" \in Places
    BY DEF Places
  <2>3. QED
    BY <1>1, <2>1, <2>2, QueuedStays
<1> DEFINE Left == \/ ~Claimable(q)'
                   \/ RunAt(g)' = q /\ Carries(g)'
                   \/ \E m \in Messages : RunOf(m) = q /\ Queued(m)'
                   \/ run'[q] = run[q] /\ ~Carries(g)
<1>6. CASE Handle(g) /\ ~PublishRetry(g) /\ ~Nack(g)
  <2>1. Left
    BY <1>2, <1>6, AttemptCarries
  <2>2. QED
    BY <1>1, <1>2, <1>3, <1>4, <1>5, <2>1, HandlerCarries
<1>7. CASE PublishRetry(g)
  <2>1. RetryCopy(g) \in Messages /\ RunOf(RetryCopy(g)) = q
    BY <1>2, <1>7, RetryCopyIsMessage DEF PublishRetry
  <2>2. PICK m \in Messages : m = RetryCopy(g)
    BY <2>1
  <2>3. place'[m] = "retry"
    BY <1>7, <2>2 DEF PublishRetry, Enqueue, TypeOK, BrokerTypeOK
  <2>4. Left
    BY <2>1, <2>2, <2>3 DEF Queued
  <2>5. QED
    BY <1>1, <1>2, <1>3, <1>4, <1>5, <2>4, HandlerCarries
\* The delivery limit is not reached: each counted return has cost a failure.
<1>8. CASE Nack(g) \/ Crash(g)
  <2>1. handler[g].attached /\ Release(g)
    BY <1>1, <1>8 DEF Nack, Crash, HeldInv
  <2>2. PICK counted \in 0 .. 1 :
           /\ PutBack(handler[g].msg, counted)
           /\ \/ At(g, "nack") /\ UNCHANGED faults
              \/ \E kind \in FaultKinds : Fault(kind)
    BY <1>8, <2>1 DEF Nack, Crash, FaultKinds
  <2>3. PICK m \in Messages : m = handler[g].msg
    BY <1>1, HandlerRun DEF TypeOK
  <2>4. returns[m] + counted <= MaxFaults
    BY <1>1, <2>1, <2>2, <2>3, CountedReturn
  <2>5. returns[m] \in Nat /\ MaxFaults \in Nat /\ DeliveryLimit \in Nat
    BY RunAssumption, FaultAssumption DEF TypeOK, BrokerTypeOK
  <2>6. ~(returns[m] + counted > DeliveryLimit)
    BY <2>4, <2>5 DEF DeliveriesReturn
  <2>7. place'[m] = "process"
    BY <2>2, <2>3, <2>6 DEF PutBack, TypeOK, BrokerTypeOK
  <2>8. RunOf(m) = q
    BY <1>2, <2>3 DEF RunAt
  <2>9. Left
    BY <2>7, <2>8 DEF Queued
  <2>10. QED
    BY <1>1, <1>2, <1>3, <1>4, <1>5, <2>9, HandlerCarries
<1>9. CASE PublishRetryFails(g) \/ DatabaseFails(g)
  <2>1. handler'[g].pc \in {"giveup", "nack"} /\ handler'[g].msg = handler[g].msg
    BY <1>9 DEF PublishRetryFails, DatabaseFails, Goto, Conclude, Begin, TypeOK, HandlerTypeOK,
                HandlerState
  <2>2. Left
    BY <1>2, <2>1 DEF Carries, RunAt
  <2>3. QED
    BY <1>1, <1>2, <1>3, <1>4, <1>5, <2>2, HandlerCarries
<1>10. CASE ConnectRefused(g)
  <2>1. run' = run /\ handler'[g].msg = handler[g].msg
    BY <1>10 DEF ConnectRefused, Goto, Conclude, Begin, storeVars, TypeOK, HandlerTypeOK,
                 HandlerState
  <2>2. \/ handler'[g].pc = "stuck"
        \/ /\ handler[g].pc \in {"context", "complete"}
           /\ handler'[g].pc \in {"transient", "permanent"}
           /\ handler'[g].attempt = handler[g].attempt
    BY <1>10 DEF ConnectRefused, Goto, Conclude, Begin, At, TypeOK, HandlerTypeOK, HandlerState
  <2>3. RunAt(g)' = q
    BY <1>2, <2>1 DEF RunAt
  <2>4. Left
    BY <1>2, <2>1, <2>2, <2>3 DEF Carries, Working, Owns
  <2>5. QED
    BY <1>1, <1>2, <1>3, <1>4, <1>5, <2>4, HandlerCarries
<1>11. QED
    BY <1>6, <1>7, <1>8, <1>9, <1>10

LEMMA RequestCarriedStep ==
    ASSUME DeliveriesReturn, TypeOK, CarriedInv, [StoreNext]_storeVars, NEW q \in Runs,
           Request(q) \/ SendPublishFails(q)
    PROVE  CarriedInv'
<1>1. /\ \A r \in Runs : r # q => run'[r] = run[r] /\ req'[r] = req[r]
      /\ UNCHANGED handler
    BY DEF Request, SendCheck, SendCommit, SendPublish, SendUnavailable, SendPublishFails,
           Answer, CreateRun, MarkFailed, TypeOK, StoreTypeOK, storeVars
<1>2. \A m \in Messages : Queued(m) => Queued(m)'
    BY DEF Request, SendCheck, SendCommit, SendPublish, SendUnavailable, SendPublishFails,
           Enqueue, Queued, brokerVars, TypeOK, BrokerTypeOK
<1>3. ASSUME NEW r \in Runs, r # q PROVE Claimable(r)' => Carried(r)'
    BY <1>1, <1>2, <1>3, StaysCarried DEF TypeOK
<1>4. Claimable(q)' => Carried(q)'
  <2>1. CASE SendCheck(q) \/ (SendCommit(q) /\ UNCHANGED storeVars)
    <3>1. run'[q] = run[q] /\ req[q] \notin {"committed", "unpublished"}
      BY <2>1 DEF SendCheck, SendCommit, Answer, storeVars
    <3>2. QED
      BY <1>1, <1>2, <3>1, StaysCarried DEF TypeOK
  <2>2. CASE SendPublishFails(q) \/ (SendCommit(q) /\ ~UNCHANGED storeVars)
    BY <2>2 DEF SendPublishFails, SendCommit, Answer, Carried, TypeOK
  <2>3. CASE SendPublish(q)
    <3>1. <<q, 0>> \in Messages
      BY RunAssumption DEF Messages
    <3>2. PICK m \in Messages : m = <<q, 0>>
      BY <3>1
    <3>3. RunOf(m) = q /\ place'[m] = "process"
      BY <2>3, <3>2 DEF SendPublish, Enqueue, RunOf, TypeOK, BrokerTypeOK
    <3>4. QED
      BY <3>3 DEF Carried, Queued
  <2>4. CASE SendUnavailable(q)
    BY <2>4 DEF SendUnavailable, MarkFailed, Failable, Transition, Claimable, Active,
                ActiveStatus, TypeOK, StoreTypeOK
  <2>5. QED
    BY <2>1, <2>2, <2>3, <2>4 DEF Request
<1>5. QED
    BY <1>3, <1>4, SessionFirst DEF CarriedInv, TypeOK

LEMMA CarriedStep ==
    ASSUME DeliveriesReturn, TypeOK, AttemptInv, DrivenInv, [Next]_vars
    PROVE  CarriedInv'
<1>1. [StoreNext]_storeVars /\ HeldInv /\ ReturnsInv /\ CarriedInv
    BY StepIsStoreStep DEF TypeOK, DrivenInv
<1>2. ASSUME NEW r \in Runs, Request(r) \/ SendPublishFails(r) PROVE CarriedInv'
    BY <1>1, <1>2, RequestCarriedStep
<1>3. ASSUME NEW g \in Handlers,
             \/ Handle(g) \/ PublishRetryFails(g) \/ Crash(g)
             \/ DatabaseFails(g) \/ ConnectRefused(g)
      PROVE  CarriedInv'
    BY <1>1, <1>3, HandlerCarriedStep
<1>4. ASSUME NEW g \in Handlers, NEW m \in Messages, Deliver(g, m) PROVE CarriedInv'
  <2>1. /\ \A h \in Handlers : h # g => handler'[h] = handler[h]
        /\ handler'[g].pc = "claim" /\ handler'[g].msg = m /\ ~Carries(g)
        /\ run' = run /\ req' = req
        /\ \A n \in Messages : n # m /\ Queued(n) => Queued(n)'
    BY <1>4 DEF Deliver, Take, Enqueue, Queued, Carries, Working, At, TypeOK, HandlerTypeOK,
                BrokerTypeOK, storeVars
  <2>2. Carries(g)' /\ RunAt(g)' = RunOf(m)
    BY <2>1 DEF Carries, RunAt
  <2>3. ASSUME NEW r \in Runs PROVE Claimable(r)' => Carried(r)'
    <3>1. CASE r = RunOf(m)
      BY <2>2, <3>1 DEF Carried
    <3>2. CASE r # RunOf(m)
      BY <1>1, <2>1, <3>2, StaysCarried DEF TypeOK
    <3>3. QED
      BY <3>1, <3>2
  <2>4. QED
    BY <1>1, <2>3, SessionFirst DEF CarriedInv, TypeOK
<1>5. ASSUME Conversation \/ UNCHANGED vars \/ \E m \in Messages : RetryExpires(m)
      PROVE  CarriedInv'
  <2>1. UNCHANGED <<run, req, handler>> /\ \A m \in Messages : Queued(m) => Queued(m)'
    BY <1>5 DEF Conversation, CreateSession, CompleteSession, DeleteSession, DeleteAgent,
                RetryExpires, RetryDelayOver, Enqueue, Queued, vars, storeVars, brokerVars,
                TypeOK, BrokerTypeOK
  <2>2. \A r \in Runs : Claimable(r)' => Carried(r)'
    BY <1>1, <2>1, StaysCarried DEF TypeOK
  <2>3. QED
    BY <1>1, <2>2, SessionFirst DEF CarriedInv, TypeOK
<1>6. (\A g \in Handlers : ~ConnectionLost(g)) /\ \A r \in Runs : ~SendDies(r)
    BY DEF ConnectionLost, SendDies, Fault, DeliveriesReturn
<1>7. QED
    BY <1>2, <1>3, <1>4, <1>5, <1>6 DEF Next, Failure

LEMMA DrivenInit == Init => DrivenInv
<1> SUFFICES ASSUME Init PROVE DrivenInv
    OBVIOUS
<1>1. \A h \in Handlers : handler[h].pc = "idle"
    BY DEF Init, Idle
<1>2. HeldInv
    BY <1>1, RunAssumption DEF Init, BrokerInit, Messages, HeldInv, At
<1>3. ReturnsInv
    BY <1>1, FaultAssumption DEF Init, BrokerInit, ReturnsInv, At
<1>4. CarriedInv
    BY DEF Init, StoreInit, CarriedInv, Claimable, Active, ActiveStatus
<1>5. QED
    BY <1>2, <1>3, <1>4 DEF DrivenInv

\* As long as the API and the channels stay up and fewer failures happen than a
\* message may be returned, every run that could be processed has a message on its
\* way or somebody who sends one or ends it.
THEOREM RunsAreDriven ==
    ASSUME DeliveriesReturn PROVE Spec => []ActiveRunIsDriven
<1>1. TypeOK /\ AttemptInv /\ DrivenInv /\ [Next]_vars => DrivenInv'
    BY HeldStep, ReturnsStep, CarriedStep DEF DrivenInv
<1>2. TypeOK /\ DrivenInv => ActiveRunIsDriven
    BY CarriedIsDriven DEF DrivenInv, CarriedInv, ActiveRunIsDriven
<1>3. QED
    BY <1>1, <1>2, DrivenInit, TypeInvariant, AttemptInvariant, PTL DEF Spec

-----------------------------------------------------------------------------
(* What one step does to the rows and to the handlers *)

\* A step of handler g, whatever happens in it: at most the transaction of the
\* step, and an attempt that goes on is still the same attempt.
MovedBy(g) ==
    /\ ~At(g, "idle")
    /\ \A h \in Handlers \ {g} : handler'[h] = handler[h]
    /\ Transaction(g) \/ UNCHANGED storeVars
    /\ handler'[g] # handler[g]
    /\ Numbered(g) /\ Numbered(g)' =>
          handler'[g].msg = handler[g].msg /\ handler'[g].attempt = handler[g].attempt

\* Any other step: no attempt is touched, and an existing run only by the
\* mark_failed of a request that could not publish it.
MovedOutside ==
    /\ \A h \in Handlers : handler'[h] = handler[h] \/ At(h, "idle")
    /\ \/ UNCHANGED <<run, replies>>
       \/ \E r \in Runs : CreateRun(r) \/ (req[r] = "unpublished" /\ MarkFailed(r))

LEMMA HandleMoves ==
    ASSUME TypeOK, NEW g \in Handlers, Handle(g)
    PROVE  MovedBy(g)
<1> USE DEF MovedBy, Numbered, Working, At, TypeOK, HandlerTypeOK, HandlerState, Goto, Conclude,
            Begin, RunAt
<1>1. CASE Claim(g)
    BY <1>1 DEF Claim, Transaction
<1>2. CASE Expire(g) \/ GiveUp(g) \/ PublishRetry(g)
    BY <1>2 DEF Expire, GiveUp, PublishRetry, Transaction
<1>3. CASE LoadContext(g) \/ Respond(g)
    BY <1>3 DEF LoadContext, Respond, Responses
<1>4. CASE Complete(g)
    BY <1>4 DEF Complete, Transaction
<1>5. CASE HandleError(g)
    BY <1>5 DEF HandleError, Transaction, Retries
<1>6. CASE Ack(g) \/ Nack(g)
    BY <1>6 DEF Ack, Nack, Release, Idle
<1>7. QED
    BY <1>1, <1>2, <1>3, <1>4, <1>5, <1>6 DEF Handle

LEMMA FailureMoves ==
    ASSUME TypeOK, NEW g \in Handlers,
           \/ PublishRetryFails(g) \/ Crash(g) \/ ConnectionLost(g)
           \/ DatabaseFails(g) \/ ConnectRefused(g)
    PROVE  MovedBy(g)
<1> USE DEF MovedBy, Numbered, Working, At, TypeOK, HandlerTypeOK, HandlerState, Goto, Conclude,
            Begin, RunAt, TransactionSteps
<1>1. CASE PublishRetryFails(g)
    BY <1>1 DEF PublishRetryFails
<1>2. CASE Crash(g)
    BY <1>2 DEF Crash, Release, Idle
<1>3. CASE ConnectionLost(g)
  <2>1. CASE Release(g)
    BY <1>3, <2>1 DEF ConnectionLost, Release, Idle
  <2>2. CASE handler' = [handler EXCEPT ![g].attached = FALSE]
    <3>1. ~handler'[g].attached /\ handler[g].attached
      BY <1>3, <2>2 DEF ConnectionLost
    <3>2. handler'[g] # handler[g]
      BY <3>1
    <3>3. QED
      BY <1>3, <2>2, <3>2 DEF ConnectionLost
  <2>3. QED
    BY <1>3, <2>1, <2>2 DEF ConnectionLost
<1>4. CASE DatabaseFails(g)
    BY <1>4 DEF DatabaseFails
<1>5. CASE ConnectRefused(g)
    BY <1>5 DEF ConnectRefused
<1>6. QED
    BY <1>1, <1>2, <1>3, <1>4, <1>5

LEMMA StepMoves ==
    ASSUME TypeOK, [Next]_vars
    PROVE  MovedOutside \/ \E g \in Handlers : MovedBy(g)
<1>1. ASSUME NEW r \in Runs, Request(r) \/ SendPublishFails(r) \/ SendDies(r)
      PROVE  MovedOutside
    BY <1>1 DEF Request, SendCheck, SendCommit, SendPublish, SendUnavailable, SendPublishFails,
                SendDies, Answer, MovedOutside, storeVars
<1>2. ASSUME NEW h \in Handlers, NEW m \in Messages, Deliver(h, m)
      PROVE  MovedOutside
    BY <1>2 DEF Deliver, MovedOutside, storeVars, TypeOK, HandlerTypeOK, At
<1>3. ASSUME NEW m \in Messages, RetryExpires(m) PROVE MovedOutside
    BY <1>3 DEF RetryExpires, MovedOutside, storeVars
<1>4. CASE Conversation \/ UNCHANGED vars
    BY <1>4 DEF Conversation, CreateSession, CompleteSession, DeleteSession, DeleteAgent,
                MovedOutside, vars, storeVars
<1>5. QED
    BY <1>1, <1>2, <1>3, <1>4, HandleMoves, FailureMoves DEF Next, Failure

-----------------------------------------------------------------------------
(* The attempts that were taken over *)

\* An attempt whose run has ended, was put back in the queue or has a later owner.
Lost(h) == Numbered(h) /\ ~Owns(RunAt(h), handler[h].attempt)

\* Such an attempt never gets its run back, and as long as it does not come to
\* give up after a failed publication it writes neither row nor answer, under
\* any failures (repository.py, _finish_attempt; processor.py, _complete).
FencedOut ==
    [][\A h \in Handlers : Lost(h) =>
          /\ Numbered(h)' => Lost(h)'
          /\ handler'[h] # handler[h] /\ ~At(h, "giveup") => UNCHANGED <<run, replies>>]_vars

\* The transaction of a fenced attempt changes nothing.
LEMMA LostWritesNothing ==
    ASSUME NEW h \in Handlers, Lost(h), ~At(h, "giveup"), Transaction(h)
    PROVE  UNCHANGED <<run, replies>>
BY DEF Lost, Numbered, Working, At, Transaction, MarkRetry, MarkFinal, MarkError, CompleteRun,
       Retries, storeVars

LEMMA LostStays ==
    ASSUME TypeOK, AttemptInv, [StoreNext]_storeVars, NEW h \in Handlers, Lost(h), Numbered(h)',
           RunAt(h)' = RunAt(h), handler'[h].attempt = handler[h].attempt
    PROVE  Lost(h)'
<1>1. RunAt(h) \in Runs
    BY NumberedRun DEF TypeOK, Lost
<1>2. handler[h].attempt \in 1 .. run[RunAt(h)].attempt
    BY DEF AttemptInv, AttemptsGivenOut, Lost
<1>3. ~Owns(RunAt(h), handler[h].attempt)'
    BY <1>1, <1>2, NumbersGrow DEF TypeOK, AttemptInv, Lost
<1>4. QED
    BY <1>3 DEF Lost, Owns

\* A handler that was taken over stays out and leaves the rows alone.
THEOREM TakenOverIsFenced == Spec => FencedOut
<1> DEFINE Fenced(h) ==
        Lost(h) =>
          /\ Numbered(h)' => Lost(h)'
          /\ handler'[h] # handler[h] /\ ~At(h, "giveup") => UNCHANGED <<run, replies>>
<1>1. ASSUME TypeOK, AttemptInv, [Next]_vars, NEW h \in Handlers PROVE Fenced(h)
  <2> SUFFICES ASSUME Lost(h)
               PROVE  /\ Numbered(h)' => Lost(h)'
                      /\ handler'[h] # handler[h] /\ ~At(h, "giveup") =>
                            UNCHANGED <<run, replies>>
    OBVIOUS
  <2>1. [StoreNext]_storeVars
    BY <1>1, StepIsStoreStep DEF TypeOK
  <2>2. CASE handler'[h] = handler[h]
    <3>1. RunAt(h)' = RunAt(h)
      BY <2>2 DEF RunAt
    <3>2. QED
      BY <1>1, <2>1, <2>2, <3>1, LostStays
  <2>3. CASE handler'[h] # handler[h]
    <3>1. MovedBy(h)
      BY <1>1, <2>3, StepMoves DEF MovedOutside, MovedBy, Lost, Numbered, Working, At
    <3>2. Numbered(h)' => Lost(h)'
      BY <1>1, <2>1, <3>1, LostStays DEF MovedBy, Lost, RunAt
    <3>3. ~At(h, "giveup") => UNCHANGED <<run, replies>>
      BY <3>1, LostWritesNothing DEF MovedBy, storeVars
    <3>4. QED
      BY <3>2, <3>3
  <2>4. QED
    BY <2>2, <2>3
<1>2. TypeOK /\ AttemptInv /\ [Next]_vars => [\A h \in Handlers : Fenced(h)]_vars
    BY <1>1
<1>3. QED
    BY <1>2, TypeInvariant, AttemptInvariant, PTL DEF Spec, FencedOut

\* The transaction of a handler that does not give up changes a run in
\* processing as its owner, or takes it over.
LEMMA TransactionOwns ==
    ASSUME TypeOK, AttemptInv, NEW g \in Handlers, ~At(g, "idle"), ~At(g, "giveup"),
           Transaction(g), NEW r \in Runs, run[r].status = "processing", run'[r] # run[r]
    PROVE  \/ run'[r].status = "processing" /\ run'[r].attempt = run[r].attempt + 1
           \/ Numbered(g) /\ RunAt(g) = r /\ handler[g].attempt = run[r].attempt
<1>1. RunAt(g) = r
    BY HandlerRun, TransactionIsLocal DEF TypeOK
<1>2. run \in [Runs -> RunRow]
    BY DEF TypeOK, StoreTypeOK
<1>3. CASE At(g, "claim")
    BY <1>1, <1>2, <1>3 DEF Transaction, At, Retries, ClaimRun, ClaimedRow
<1>4. CASE handler[g].pc \in {"expire", "complete", "transient", "permanent"}
  <2>1. Owns(r, handler[g].attempt)
    BY <1>1, <1>4 DEF Transaction, At, Retries, MarkRetry, MarkFinal, MarkError, CompleteRun
  <2>2. QED
    BY <1>1, <1>4, <2>1 DEF Owns, Numbered, Working
<1>5. QED
    BY <1>3, <1>4 DEF Transaction, At, Retries, storeVars

\* When publications succeed, the owner of a run writes it and nobody else.
THEOREM OwnersWriteAlone ==
    ASSUME PublicationsSucceed PROVE Spec => OnlyOwnerWrites
<1> DEFINE Owned(r) ==
        run[r].status = "processing" /\ run'[r] # run[r] =>
          \/ run'[r].status = "processing" /\ run'[r].attempt = run[r].attempt + 1
          \/ \E h \in Handlers :
                /\ Numbered(h) /\ RunAt(h) = r /\ handler[h].attempt = run[r].attempt
                /\ handler'[h] # handler[h]
<1>1. ASSUME TypeOK, AttemptInv, OwnerInv, [Next]_vars, NEW r \in Runs
      PROVE  Owned(r)
  <2> SUFFICES ASSUME run[r].status = "processing", run'[r] # run[r]
               PROVE  \/ run'[r].status = "processing" /\ run'[r].attempt = run[r].attempt + 1
                      \/ \E h \in Handlers :
                            /\ Numbered(h) /\ RunAt(h) = r
                            /\ handler[h].attempt = run[r].attempt
                            /\ handler'[h] # handler[h]
    OBVIOUS
  <2>1. ~MovedOutside
    BY <1>1 DEF MovedOutside, CreateRun, OwnerInv, TypeOK, StoreTypeOK
  <2>2. PICK g \in Handlers : MovedBy(g)
    BY <1>1, <2>1, StepMoves
  <2>3. Transaction(g)
    BY <2>2 DEF MovedBy, storeVars
  <2>4. \/ run'[r].status = "processing" /\ run'[r].attempt = run[r].attempt + 1
        \/ Numbered(g) /\ RunAt(g) = r /\ handler[g].attempt = run[r].attempt
    BY <1>1, <2>2, <2>3, TransactionOwns DEF MovedBy, OwnerInv
  <2>5. QED
    BY <2>2, <2>4 DEF MovedBy
<1>2. TypeOK /\ AttemptInv /\ OwnerInv /\ [Next]_vars => [\A r \in Runs : Owned(r)]_vars
    BY <1>1
<1>3. QED
    BY <1>2, TypeInvariant, AttemptInvariant, OwnerInvariant, PTL DEF Spec, OnlyOwnerWrites

-----------------------------------------------------------------------------
(* How often the model is called *)

\* The numbers under which run r called the model are among the first MaxAttempts.
CallsNumbered == \A r \in Runs : called[r] \subseteq 1 .. MaxAttempts

\* No run costs more than agent_run_max_attempts calls of the model.
CallsBounded ==
    \A r \in Runs : IsFiniteSet(called[r]) /\ Cardinality(called[r]) <= MaxAttempts

\* Only an attempt that has read its context calls the model.
LEMMA CallsBy ==
    ASSUME [Next]_vars
    PROVE  \/ UNCHANGED called
           \/ \E h \in Handlers :
                 /\ At(h, "context")
                 /\ called' = [called EXCEPT ![RunAt(h)] = @ \union {handler[h].attempt}]
<1>1. ASSUME NEW h \in Handlers, Handle(h), ~LoadContext(h) PROVE UNCHANGED called
    BY <1>1 DEF Handle, Claim, Expire, Respond, Complete, HandleError, PublishRetry, GiveUp,
                Ack, Nack
<1>2. ASSUME Failure PROVE UNCHANGED called
    BY <1>2 DEF Failure, SendPublishFails, SendDies, PublishRetryFails, Crash, ConnectionLost,
                DatabaseFails, ConnectRefused
<1>3. ASSUME NEW r \in Runs, Request(r) PROVE UNCHANGED called
    BY <1>3 DEF Request, SendCheck, SendCommit, SendPublish, SendUnavailable
<1>4. QED
    BY <1>1, <1>2, <1>3 DEF Next, LoadContext, Deliver, RetryExpires, Conversation, vars

\* Whatever is delivered again, taken over or retried, a run calls the model at
\* most MaxAttempts times (processor.py, _process; settings.agent_run_max_attempts).
THEOREM CallsAreBounded == Spec => []CallsBounded
<1>1. Init => CallsNumbered
    BY DEF Init, CallsNumbered
<1>2. TypeOK /\ AttemptInv /\ CallsNumbered /\ [Next]_vars => CallsNumbered'
  <2> SUFFICES ASSUME TypeOK, AttemptInv, CallsNumbered, [Next]_vars PROVE CallsNumbered'
    OBVIOUS
  <2>1. CASE UNCHANGED called
    BY <2>1 DEF CallsNumbered
  <2>2. ASSUME NEW h \in Handlers, At(h, "context"),
               called' = [called EXCEPT ![RunAt(h)] = @ \union {handler[h].attempt}]
        PROVE  CallsNumbered'
    <3>1. handler[h].attempt \in 1 .. MaxAttempts
      BY <2>2 DEF AttemptInv, LlmBudget
    <3>2. called \in [Runs -> SUBSET Nat]
      BY DEF TypeOK
    <3>3. QED
      BY <2>2, <3>1, <3>2 DEF CallsNumbered
  <2>3. QED
    BY <2>1, <2>2, CallsBy
<1>3. CallsNumbered => CallsBounded
  <2> SUFFICES ASSUME CallsNumbered, NEW r \in Runs
               PROVE  IsFiniteSet(called[r]) /\ Cardinality(called[r]) <= MaxAttempts
    BY DEF CallsBounded
  <2>1. MaxAttempts \in Nat
    BY RunAssumption
  <2>2. IsFiniteSet(1 .. MaxAttempts) /\ Cardinality(1 .. MaxAttempts) = MaxAttempts
    BY <2>1, FS_Interval
  <2>3. QED
    BY <2>2, FS_Subset DEF CallsNumbered
<1>4. QED
    BY <1>1, <1>2, <1>3, TypeInvariant, AttemptInvariant, PTL DEF Spec

-----------------------------------------------------------------------------
(* What the answers of the POST say *)

\* The answers given before the transaction of the POST, or because it refused.
NothingStored == {"new", "checked", "refused"}

\* A request that was refused has stored no run, the model was never called for
\* it and no message of it exists; one that was accepted has its run stored and
\* has handed its message to the broker.
AnswersAreTrue ==
    \A r \in Runs :
       /\ req[r] = "refused" =>
             /\ run[r].status = "none" /\ called[r] = {}
             /\ \A m \in Messages : RunOf(m) = r => place[m] = "unsent"
       /\ req[r] = "accepted" => run[r].status # "none" /\ place[<<r, 0>>] # "unsent"

AnsweredInv ==
    /\ \A r \in Runs : req[r] \in NothingStored <=> run[r].status = "none"
    /\ \A m \in Messages :
          req[RunOf(m)] \in NothingStored \union {"committed"} => place[m] = "unsent"
    /\ \A r \in Runs : req[r] = "accepted" => place[<<r, 0>>] # "unsent"

\* The steps of a handler, and what happens to one.
Works(g) ==
    \/ Handle(g) \/ PublishRetryFails(g) \/ Crash(g) \/ ConnectionLost(g)
    \/ DatabaseFails(g) \/ ConnectRefused(g)

\* Such a step makes one transaction at most and moves one message at most.
LEMMA WorkShape ==
    ASSUME NEW g \in Handlers, Works(g)
    PROVE  /\ ~At(g, "idle") /\ (Transaction(g) \/ UNCHANGED storeVars) /\ UNCHANGED req
           /\ \/ UNCHANGED brokerVars
              \/ \E counted \in 0 .. 1 : PutBack(handler[g].msg, counted)
              \/ Settle(handler[g].msg)
              \/ At(g, "republish") /\ Enqueue(RetryCopy(g), "retry")
<1>1. ~At(g, "idle") /\ (Transaction(g) \/ UNCHANGED storeVars) /\ UNCHANGED req
    BY DEF Works, Handle, Claim, Expire, LoadContext, Respond, Complete, HandleError,
           PublishRetry, GiveUp, Ack, Nack, Transaction, PublishRetryFails, Crash,
           ConnectionLost, DatabaseFails, ConnectRefused, TransactionSteps, At
<1>2. \/ UNCHANGED brokerVars
      \/ \E counted \in 0 .. 1 : PutBack(handler[g].msg, counted)
      \/ Settle(handler[g].msg)
      \/ At(g, "republish") /\ Enqueue(RetryCopy(g), "retry")
    BY DEF Works, Handle, Claim, Expire, LoadContext, Respond, Complete, HandleError,
           PublishRetry, GiveUp, Ack, Nack, PublishRetryFails, Crash, ConnectionLost,
           DatabaseFails, ConnectRefused
<1>3. QED
    BY <1>1, <1>2

\* Once inserted, a row stays; none appears but by CreateRun.
LEMMA NothingAppears ==
    ASSUME StoreTypeOK, NEW g \in Handlers, Transaction(g) \/ UNCHANGED storeVars,
           RunAt(g) \in Runs
    PROVE  \A r \in Runs : run'[r].status = "none" <=> run[r].status = "none"
BY DEF Transaction, ClaimRun, ClaimedRow, Claimable, MarkRetry, MarkFinal, MarkError, MarkFailed,
       CompleteRun, Owns, Failable, Active, ActiveStatus, Transition, StoreTypeOK, storeVars

\* Nothing is unsent again.
LEMMA StaysSent ==
    ASSUME BrokerTypeOK, NEW n \in Messages, NEW m,
           \/ \E counted \in 0 .. 1 : PutBack(m, counted)
           \/ Settle(m)
           \/ \E queue \in {"process", "retry", "unacked"} : Enqueue(m, queue)
    PROVE  /\ place[n] # "unsent" => place'[n] # "unsent"
           /\ n # m => place'[n] = place[n]
BY DEF PutBack, Settle, Enqueue, BrokerTypeOK

LEMMA WorkAnswered ==
    ASSUME TypeOK, AttemptInv, AnsweredInv, NEW g \in Handlers, Works(g)
    PROVE  AnsweredInv'
<1>1. ~At(g, "idle") /\ (Transaction(g) \/ UNCHANGED storeVars) /\ UNCHANGED req
    BY WorkShape
<1>2. /\ RunAt(g) \in Runs /\ handler[g].msg \in Messages
      /\ req[RunAt(g)] \notin NothingStored \union {"committed"}
    BY <1>1, HandlerRun DEF TypeOK, AttemptInv, HeldWasSent, AnsweredInv, RunAt
<1>3. \A r \in Runs : run'[r].status = "none" <=> run[r].status = "none"
    BY <1>1, <1>2, NothingAppears DEF TypeOK
<1>4. ASSUME NEW m \in Messages, RunOf(m) = RunAt(g),
             \/ \E counted \in 0 .. 1 : PutBack(m, counted)
             \/ Settle(m)
             \/ Enqueue(m, "retry")
      PROVE  AnsweredInv'
  <2>1. \A n \in Messages : n # m => place'[n] = place[n]
    BY <1>4, StaysSent DEF TypeOK
  <2>2. \A r \in Runs : <<r, 0>> \in Messages
    BY RunAssumption DEF Messages
  <2>3. \A n \in Messages : place[n] # "unsent" => place'[n] # "unsent"
    BY <1>4, StaysSent DEF TypeOK
  <2>4. QED
    BY <1>1, <1>2, <1>3, <1>4, <2>1, <2>2, <2>3 DEF AnsweredInv
<1>5. CASE UNCHANGED brokerVars
    BY <1>1, <1>3, <1>5 DEF AnsweredInv, brokerVars
<1>6. handler[g].msg \in Messages /\ RunOf(handler[g].msg) = RunAt(g)
    BY <1>2 DEF RunAt
<1>7. At(g, "republish") => RetryCopy(g) \in Messages /\ RunOf(RetryCopy(g)) = RunAt(g)
    BY RetryCopyIsMessage
<1>8. QED
    BY <1>4, <1>5, <1>6, <1>7, WorkShape

LEMMA AnsweredStep ==
    ASSUME TypeOK, AttemptInv, AnsweredInv, [Next]_vars
    PROVE  AnsweredInv'
<1>m. /\ \A r \in Runs : <<r, 0>> \in Messages /\ RunOf(<<r, 0>>) = r
      /\ \A m \in Messages : RunOf(m) \in Runs
    BY MessageRun, RunAssumption DEF Messages, RunOf
<1>1. ASSUME NEW r \in Runs, SendCheck(r) PROVE AnsweredInv'
  <2>1. /\ \A q \in Runs : q # r => req'[q] = req[q]
        /\ req[r] = "new" /\ req'[r] \in {"checked", "refused"} /\ run' = run /\ place' = place
    BY <1>1 DEF SendCheck, Answer, TypeOK, storeVars, brokerVars
  <2>2. QED
    BY <2>1, <1>m DEF AnsweredInv, NothingStored
<1>2. ASSUME NEW r \in Runs, SendCommit(r) PROVE AnsweredInv'
  <2>1. /\ \A q \in Runs : q # r => run'[q] = run[q] /\ req'[q] = req[q]
        /\ req[r] = "checked" /\ place' = place
        /\ \/ req'[r] = "committed" /\ run'[r].status = "queued"
           \/ req'[r] = "refused" /\ run'[r] = run[r]
    BY <1>2 DEF SendCommit, Answer, CreateRun, NewRow, TypeOK, StoreTypeOK, storeVars, brokerVars
  <2>2. QED
    BY <2>1, <1>m DEF AnsweredInv, NothingStored
<1>3. ASSUME NEW r \in Runs, SendPublish(r) \/ SendPublishFails(r) PROVE AnsweredInv'
  <2>1. /\ \A q \in Runs : q # r => req'[q] = req[q]
        /\ req[r] = "committed" /\ run' = run
        /\ req'[r] = "unpublished" \/ (req'[r] = "accepted" /\ place'[<<r, 0>>] = "process")
        /\ \A m \in Messages : RunOf(m) # r => place'[m] = place[m]
    BY <1>3, <1>m DEF SendPublish, SendPublishFails, Answer, Enqueue, TypeOK, BrokerTypeOK,
                      storeVars, brokerVars
  <2>2. QED
    BY <2>1, <1>m DEF AnsweredInv, NothingStored
<1>4. ASSUME NEW r \in Runs, SendUnavailable(r) \/ SendDies(r) PROVE AnsweredInv'
  <2>1. /\ \A q \in Runs : q # r => run'[q] = run[q] /\ req'[q] = req[q]
        /\ req[r] \in {"unpublished", "committed"} /\ req'[r] \in {"unavailable", "lost"}
        /\ place' = place
        /\ run'[r].status = "none" <=> run[r].status = "none"
    BY <1>4 DEF SendUnavailable, SendDies, Answer, MarkFailed, Failable, Active, ActiveStatus,
                Transition, TypeOK, StoreTypeOK, storeVars, brokerVars
  <2>2. QED
    BY <2>1, <1>m DEF AnsweredInv, NothingStored
<1>5. ASSUME NEW m \in Messages, RetryExpires(m) \/ \E g \in Handlers : Deliver(g, m)
      PROVE  AnsweredInv'
  <2>1. /\ run' = run /\ req' = req /\ place[m] # "unsent"
        /\ \A n \in Messages : n # m => place'[n] = place[n]
        /\ place'[m] # "unsent"
    BY <1>5 DEF RetryExpires, RetryDelayOver, Deliver, Take, Enqueue, TypeOK, BrokerTypeOK,
                storeVars
  <2>2. QED
    BY <2>1, <1>m DEF AnsweredInv
<1>6. ASSUME Conversation \/ UNCHANGED vars PROVE AnsweredInv'
  <2>1. run' = run /\ req' = req /\ place' = place
    BY <1>6 DEF Conversation, CreateSession, CompleteSession, DeleteSession, DeleteAgent, vars,
                storeVars, brokerVars
  <2>2. QED
    BY <2>1 DEF AnsweredInv
<1>7. QED
    BY <1>1, <1>2, <1>3, <1>4, <1>5, <1>6, WorkAnswered DEF Next, Request, Failure, Works

LEMMA AnsweredInvariant == Spec => []AnsweredInv
<1>1. Init => AnsweredInv
    BY MessageRun DEF Init, StoreInit, BrokerInit, AnsweredInv, NothingStored
<1>2. TypeOK /\ AttemptInv /\ AnsweredInv /\ [Next]_vars => AnsweredInv'
    BY AnsweredStep
<1>3. QED
    BY <1>1, <1>2, TypeInvariant, AttemptInvariant, PTL DEF Spec

\* What a client is told of its POST is so, under any failures: a refusal stored
\* and started nothing, an acceptance is about a stored and published run
\* (message/service.py, send_message).
THEOREM PostsAreAnsweredTruly == Spec => []AnswersAreTrue
<1>1. TypeOK /\ AttemptInv /\ AnsweredInv => AnswersAreTrue
  <2> SUFFICES ASSUME TypeOK, AttemptInv, AnsweredInv, NEW r \in Runs
               PROVE  /\ req[r] = "refused" =>
                            /\ run[r].status = "none" /\ called[r] = {}
                            /\ \A m \in Messages : RunOf(m) = r => place[m] = "unsent"
                      /\ req[r] = "accepted"
                            => run[r].status # "none" /\ place[<<r, 0>>] # "unsent"
    BY DEF AnswersAreTrue
  <2>1. run[r].status = "none" => called[r] = {}
    <3>1. run[r].status = "none" => called[r] \subseteq 1 .. 0
      BY DEF AttemptInv, AttemptsGivenOut
    <3>2. 1 .. 0 = {}
      OBVIOUS
    <3>3. QED
      BY <3>1, <3>2
  <2>2. QED
    BY <2>1 DEF AnsweredInv, NothingStored
<1>2. QED
    BY <1>1, TypeInvariant, AttemptInvariant, AnsweredInvariant, PTL

-----------------------------------------------------------------------------
(* How often a run is claimed *)

\* A run gets MaxAttempts attempts, and every attempt beyond is paid for by a
\* failure that has happened: no message goes round by itself.
AttemptsArePaidFor == \A r \in Runs : run[r].attempt <= MaxAttempts + faults

\* Without a failure no run is given up because it keeps being redelivered.
ExpiryNeedsFailure == \A h \in Handlers : At(h, "expire") => faults > 0

\* The messages of run r that a handler may get, or get for the first time, and
\* the handlers that will claim it or put its message back.
Coming(r) == {m \in Messages : RunOf(m) = r /\ place[m] \in {"unsent", "process", "retry"}}

Claiming(r) == {h \in Handlers : (At(h, "claim") \/ At(h, "nack")) /\ RunAt(h) = r}

\* The attempts made and those to come.
Load(r) == run[r].attempt + Cardinality(Coming(r)) + Cardinality(Claiming(r))

LoadInv ==
    \A r \in Runs :
       /\ IsFiniteSet(Coming(r)) /\ IsFiniteSet(Claiming(r))
       /\ Load(r) <= MaxAttempts + faults

LEMMA CountSame ==
    ASSUME NEW S, IsFiniteSet(S), NEW T, T \subseteq S
    PROVE  /\ IsFiniteSet(T) /\ Cardinality(S) \in Nat /\ Cardinality(T) \in Nat
           /\ Cardinality(T) <= Cardinality(S)
<1>1. T \in SUBSET S
    OBVIOUS
<1>2. IsFiniteSet(T) /\ Cardinality(T) <= Cardinality(S)
    BY <1>1, FS_Subset
<1>3. QED
    BY <1>2, FS_CardinalityType

LEMMA CountUp ==
    ASSUME NEW S, IsFiniteSet(S), NEW x, NEW T, T \subseteq S \union {x}
    PROVE  /\ IsFiniteSet(T) /\ Cardinality(S) \in Nat /\ Cardinality(T) \in Nat
           /\ Cardinality(T) <= Cardinality(S) + 1
<1>1. Cardinality(S) \in Nat
    BY FS_CardinalityType
<1>2. /\ IsFiniteSet(S \union {x})
      /\ Cardinality(S \union {x}) = IF x \in S THEN Cardinality(S) ELSE Cardinality(S) + 1
    BY FS_AddElement
<1>3. /\ IsFiniteSet(T) /\ Cardinality(T) \in Nat
      /\ Cardinality(T) <= Cardinality(S \union {x})
    BY <1>2, CountSame
<1>4. QED
    BY <1>1, <1>2, <1>3

LEMMA CountDown ==
    ASSUME NEW S, IsFiniteSet(S), NEW x \in S, NEW T, T \subseteq S \ {x}
    PROVE  /\ IsFiniteSet(T) /\ Cardinality(S) \in Nat /\ Cardinality(T) \in Nat
           /\ Cardinality(T) + 1 <= Cardinality(S)
<1>1. /\ IsFiniteSet(S \ {x}) /\ Cardinality(S) \in Nat
      /\ Cardinality(S \ {x}) = Cardinality(S) - 1
    BY FS_RemoveElement, FS_CardinalityType
<1>2. QED
    BY <1>1, CountSame

\* What one step may do to the attempts of run r: nothing, turn one that was
\* coming into another that is, make it, or bring one more with a failure.
Quiet(r)     == /\ run'[r].attempt = run[r].attempt /\ faults' >= faults
                /\ Coming(r)' \subseteq Coming(r) /\ Claiming(r)' \subseteq Claiming(r)
Delivered(r) == /\ run'[r].attempt = run[r].attempt /\ faults' = faults
                /\ \E m \in Coming(r) : Coming(r)' \subseteq Coming(r) \ {m}
                /\ \E h : Claiming(r)' \subseteq Claiming(r) \union {h}
Claimed(r)   == /\ run'[r].attempt <= run[r].attempt + 1 /\ faults' = faults
                /\ Coming(r)' \subseteq Coming(r)
                /\ \E h \in Claiming(r) : Claiming(r)' \subseteq Claiming(r) \ {h}
Nacked(r)    == /\ run'[r].attempt = run[r].attempt /\ faults' = faults
                /\ \E m : Coming(r)' \subseteq Coming(r) \union {m}
                /\ \E h \in Claiming(r) : Claiming(r)' \subseteq Claiming(r) \ {h}
Returned(r)  == /\ run'[r].attempt = run[r].attempt /\ faults' = faults + 1
                /\ \E m : Coming(r)' \subseteq Coming(r) \union {m}
                /\ Claiming(r)' \subseteq Claiming(r)
Failed(r)    == /\ faults' = faults + 1 /\ Coming(r)' \subseteq Coming(r)
                /\ \/ /\ run'[r].attempt <= run[r].attempt + 1
                      /\ Claiming(r)' \subseteq Claiming(r)
                   \/ /\ run'[r].attempt = run[r].attempt
                      /\ \E h : Claiming(r)' \subseteq Claiming(r) \union {h}

Balanced(r) ==
    Quiet(r) \/ Delivered(r) \/ Claimed(r) \/ Nacked(r) \/ Returned(r) \/ Failed(r)

\* Each of these leaves the account of the run in balance.
LEMMA BalancedLoad ==
    ASSUME TypeOK, TypeOK', NEW r \in Runs, Balanced(r),
           IsFiniteSet(Coming(r)), IsFiniteSet(Claiming(r)), Load(r) <= MaxAttempts + faults
    PROVE  /\ IsFiniteSet(Coming(r)') /\ IsFiniteSet(Claiming(r)')
           /\ Load(r)' <= MaxAttempts + faults'
<1>1. /\ run[r].attempt \in Nat /\ run'[r].attempt \in Nat
      /\ faults \in Nat /\ faults' \in Nat /\ MaxAttempts \in Nat
    BY RunAssumption DEF TypeOK, StoreTypeOK, RunRow
<1> DEFINE A == Coming(r)
           B == Claiming(r)
<1>2. Load(r) = run[r].attempt + Cardinality(A) + Cardinality(B)
    BY DEF Load
<1>3. Load(r)' = run'[r].attempt + Cardinality(A') + Cardinality(B')
    BY DEF Load
<1>4. CASE Quiet(r)
  <2>1. A' \subseteq A /\ B' \subseteq B
    BY <1>4 DEF Quiet
  <2>2. /\ IsFiniteSet(A') /\ Cardinality(A) \in Nat /\ Cardinality(A') \in Nat
        /\ Cardinality(A') <= Cardinality(A)
    BY <2>1, CountSame
  <2>3. /\ IsFiniteSet(B') /\ Cardinality(B) \in Nat /\ Cardinality(B') \in Nat
        /\ Cardinality(B') <= Cardinality(B)
    BY <2>1, CountSame
  <2>4. QED
    BY <1>1, <1>2, <1>3, <1>4, <2>2, <2>3 DEF Quiet
<1>5. CASE Delivered(r)
  <2>0. PICK m \in A : A' \subseteq A \ {m}
    BY <1>5 DEF Delivered
  <2>1. PICK h : B' \subseteq B \union {h}
    BY <1>5 DEF Delivered
  <2>2. /\ IsFiniteSet(A') /\ Cardinality(A) \in Nat /\ Cardinality(A') \in Nat
        /\ Cardinality(A') + 1 <= Cardinality(A)
    BY <2>0, CountDown
  <2>3. /\ IsFiniteSet(B') /\ Cardinality(B) \in Nat /\ Cardinality(B') \in Nat
        /\ Cardinality(B') <= Cardinality(B) + 1
    BY <2>1, CountUp
  <2>4. QED
    BY <1>1, <1>2, <1>3, <1>5, <2>2, <2>3 DEF Delivered
<1>6. CASE Claimed(r)
  <2>1. PICK h \in B : A' \subseteq A /\ B' \subseteq B \ {h}
    BY <1>6 DEF Claimed
  <2>2. /\ IsFiniteSet(A') /\ Cardinality(A) \in Nat /\ Cardinality(A') \in Nat
        /\ Cardinality(A') <= Cardinality(A)
    BY <2>1, CountSame
  <2>3. /\ IsFiniteSet(B') /\ Cardinality(B) \in Nat /\ Cardinality(B') \in Nat
        /\ Cardinality(B') + 1 <= Cardinality(B)
    BY <2>1, CountDown
  <2>4. QED
    BY <1>1, <1>2, <1>3, <1>6, <2>2, <2>3 DEF Claimed
<1>7. CASE Nacked(r)
  <2>0. PICK m : A' \subseteq A \union {m}
    BY <1>7 DEF Nacked
  <2>1. PICK h \in B : B' \subseteq B \ {h}
    BY <1>7 DEF Nacked
  <2>2. /\ IsFiniteSet(A') /\ Cardinality(A) \in Nat /\ Cardinality(A') \in Nat
        /\ Cardinality(A') <= Cardinality(A) + 1
    BY <2>0, CountUp
  <2>3. /\ IsFiniteSet(B') /\ Cardinality(B) \in Nat /\ Cardinality(B') \in Nat
        /\ Cardinality(B') + 1 <= Cardinality(B)
    BY <2>1, CountDown
  <2>4. QED
    BY <1>1, <1>2, <1>3, <1>7, <2>2, <2>3 DEF Nacked
<1>8. CASE Returned(r)
  <2>1. PICK m : A' \subseteq A \union {m} /\ B' \subseteq B
    BY <1>8 DEF Returned
  <2>2. /\ IsFiniteSet(A') /\ Cardinality(A) \in Nat /\ Cardinality(A') \in Nat
        /\ Cardinality(A') <= Cardinality(A) + 1
    BY <2>1, CountUp
  <2>3. /\ IsFiniteSet(B') /\ Cardinality(B) \in Nat /\ Cardinality(B') \in Nat
        /\ Cardinality(B') <= Cardinality(B)
    BY <2>1, CountSame
  <2>4. QED
    BY <1>1, <1>2, <1>3, <1>8, <2>2, <2>3 DEF Returned
<1>9. CASE Failed(r)
  <2>1. /\ IsFiniteSet(A') /\ Cardinality(A) \in Nat /\ Cardinality(A') \in Nat
        /\ Cardinality(A') <= Cardinality(A)
    BY <1>9, CountSame DEF Failed
  <2>2. CASE run'[r].attempt <= run[r].attempt + 1 /\ B' \subseteq B
    <3>1. /\ IsFiniteSet(B') /\ Cardinality(B) \in Nat /\ Cardinality(B') \in Nat
          /\ Cardinality(B') <= Cardinality(B)
      BY <2>2, CountSame
    <3>2. QED
      BY <1>1, <1>2, <1>3, <1>9, <2>1, <2>2, <3>1 DEF Failed
  <2>3. ASSUME NEW h, run'[r].attempt = run[r].attempt, B' \subseteq B \union {h}
        PROVE  /\ IsFiniteSet(A') /\ IsFiniteSet(B')
               /\ Load(r)' <= MaxAttempts + faults'
    <3>1. /\ IsFiniteSet(B') /\ Cardinality(B) \in Nat /\ Cardinality(B') \in Nat
          /\ Cardinality(B') <= Cardinality(B) + 1
      BY <2>3, CountUp
    <3>2. QED
      BY <1>1, <1>2, <1>3, <1>9, <2>1, <2>3, <3>1 DEF Failed
  <2>4. QED
    BY <1>9, <2>2, <2>3 DEF Failed
<1>10. QED
    BY <1>4, <1>5, <1>6, <1>7, <1>8, <1>9 DEF Balanced

\* A message that moves comes to a handler again only where a handler returns it.
LEMMA ComingMoved ==
    ASSUME BrokerTypeOK, NEW m \in Messages, NEW where,
           place' = [place EXCEPT ![m] = where], NEW r \in Runs
    PROVE  /\ Coming(r)' \subseteq Coming(r) \union {m}
           /\ RunOf(m) # r => Coming(r)' \subseteq Coming(r)
           /\ \/ place[m] \in {"unsent", "process", "retry"}
              \/ where \notin {"unsent", "process", "retry"}
              => Coming(r)' \subseteq Coming(r)
           /\ where \notin {"unsent", "process", "retry"} => Coming(r)' \subseteq Coming(r) \ {m}
BY DEF Coming, BrokerTypeOK

LEMMA ComingStays ==
    ASSUME UNCHANGED brokerVars, NEW r \in Runs
    PROVE  Coming(r)' \subseteq Coming(r)
BY DEF Coming, brokerVars

\* Only g moves.
Alone(g) == \A h \in Handlers \ {g} : handler'[h] = handler[h]

LEMMA ClaimingMoved ==
    ASSUME NEW g \in Handlers, Alone(g), NEW r \in Runs
    PROVE  /\ Claiming(r)' \subseteq Claiming(r) \union {g}
           /\ handler'[g].pc \notin {"claim", "nack"} \/ RunAt(g)' # r
                => Claiming(r)' \subseteq Claiming(r) \ {g}
           /\ handler'[g].msg = handler[g].msg /\ RunAt(g) # r
                => Claiming(r)' \subseteq Claiming(r)
           /\ handler'[g].msg = handler[g].msg /\ handler'[g].pc = handler[g].pc
                => Claiming(r)' \subseteq Claiming(r)
BY DEF Claiming, Alone, At, RunAt

LEMMA ClaimingStays ==
    ASSUME UNCHANGED handler, NEW r \in Runs
    PROVE  Claiming(r)' \subseteq Claiming(r)
BY DEF Claiming, At, RunAt

\* What a transaction does to the attempt numbers.
LEMMA AttemptMoves ==
    ASSUME StoreTypeOK, NEW g \in Handlers, ~At(g, "idle"), RunAt(g) \in Runs,
           Transaction(g) \/ UNCHANGED storeVars, NEW r \in Runs
    PROVE  /\ run'[r].attempt \in {run[r].attempt, run[r].attempt + 1}
           /\ ~At(g, "claim") \/ RunAt(g) # r => run'[r].attempt = run[r].attempt
<1>1. CASE UNCHANGED storeVars
    BY <1>1 DEF storeVars
<1>2. CASE At(g, "claim") /\ ClaimRun(RunAt(g))
    BY <1>2 DEF ClaimRun, ClaimedRow, StoreTypeOK
<1>3. CASE ~At(g, "claim") /\ Transaction(g)
    BY <1>3 DEF Transaction, MarkRetry, MarkFinal, MarkError, MarkFailed, CompleteRun, Transition,
                At, Retries, StoreTypeOK, storeVars
<1>4. QED
    BY <1>1, <1>2, <1>3 DEF Transaction, At, Retries

LEMMA HandleBalanced ==
    ASSUME TypeOK, AttemptInv, NEW g \in Handlers, Handle(g), NEW r \in Runs
    PROVE  Balanced(r)
<1>t. StoreTypeOK /\ BrokerTypeOK /\ HandlerTypeOK /\ faults \in Nat
    BY DEF TypeOK
<1>w. ~At(g, "idle") /\ (Transaction(g) \/ UNCHANGED storeVars)
    BY WorkShape DEF Works
<1>g. RunAt(g) \in Runs /\ handler[g].msg \in Messages /\ handler[g] \in HandlerState
    BY <1>t, <1>w, HandlerRun DEF HandlerTypeOK
<1>f. UNCHANGED faults
    BY DEF Handle, Claim, Expire, LoadContext, Respond, Complete, HandleError, PublishRetry,
           GiveUp, Ack, Nack
<1>a. run'[r].attempt \in {run[r].attempt, run[r].attempt + 1}
      /\ (~At(g, "claim") \/ RunAt(g) # r => run'[r].attempt = run[r].attempt)
    BY <1>t, <1>w, <1>g, AttemptMoves
<1>n. run[r].attempt \in Nat
    BY <1>t DEF StoreTypeOK, RunRow
<1>h. /\ Alone(g)
      /\ handler'[g].pc \notin {"claim", "nack"}
    BY <1>t, <1>g
       DEF Handle, Claim, Expire, LoadContext, Respond, Responses, Complete, HandleError,
           PublishRetry, GiveUp, Ack, Nack, Release, Idle, Goto, Conclude, Begin, Alone,
           HandlerTypeOK, HandlerState
<1>c. Claiming(r)' \subseteq Claiming(r) \ {g}
    BY <1>h, ClaimingMoved
<1>1. CASE Claim(g)
  <2>1. Coming(r)' \subseteq Coming(r) /\ At(g, "claim")
    BY <1>1, ComingStays DEF Claim
  <2>2. CASE RunAt(g) = r
    <3>1. g \in Claiming(r)
      BY <2>1, <2>2 DEF Claiming
    <3>2. QED
      BY <1>a, <1>n, <1>c, <1>f, <2>1, <3>1 DEF Balanced, Claimed
  <2>3. CASE RunAt(g) # r
    BY <1>a, <1>c, <1>f, <1>t, <2>1, <2>3 DEF Balanced, Quiet
  <2>4. QED
    BY <2>2, <2>3
<1>2. CASE Nack(g)
  <2>1. At(g, "nack") /\ ~At(g, "claim")
    BY <1>2 DEF Nack, At
  <2>2. \/ UNCHANGED brokerVars
        \/ \E where : place' = [place EXCEPT ![handler[g].msg] = where]
    BY <1>2 DEF Nack, PutBack
  <2>3. CASE RunAt(g) = r
    <3>1. g \in Claiming(r)
      BY <2>1, <2>3 DEF Claiming
    <3>2. \E m : Coming(r)' \subseteq Coming(r) \union {m}
      BY <2>2, <1>t, <1>g, ComingMoved, ComingStays
    <3>3. QED
      BY <1>a, <1>c, <1>f, <2>1, <3>1, <3>2 DEF Balanced, Nacked
  <2>4. CASE RunAt(g) # r
    <3>1. Coming(r)' \subseteq Coming(r)
      BY <2>2, <2>4, <1>t, <1>g, ComingMoved, ComingStays DEF RunAt
    <3>2. QED
      BY <1>a, <1>c, <1>f, <1>t, <2>1, <3>1 DEF Balanced, Quiet
  <2>5. QED
    BY <2>3, <2>4
<1>3. ASSUME ~Claim(g), ~Nack(g) PROVE Balanced(r)
  <2>1. ~At(g, "claim")
    BY <1>3 DEF Handle, Expire, LoadContext, Respond, Complete, HandleError, PublishRetry,
                GiveUp, Ack, At
  <2>2. \/ UNCHANGED brokerVars
        \/ Settle(handler[g].msg)
        \/ At(g, "republish") /\ Enqueue(RetryCopy(g), "retry")
    BY <1>3 DEF Handle, Expire, LoadContext, Respond, Complete, HandleError, PublishRetry,
                GiveUp, Ack
  <2>3. Coming(r)' \subseteq Coming(r)
    <3>1. CASE UNCHANGED brokerVars
      BY <3>1, ComingStays
    <3>2. CASE Settle(handler[g].msg)
      <4>1. place' = [place EXCEPT ![handler[g].msg] = "gone"]
        BY <3>2 DEF Settle, Enqueue
      <4>2. "gone" \notin {"unsent", "process", "retry"}
        OBVIOUS
      <4>3. QED
        BY <4>1, <4>2, <1>t, <1>g, ComingMoved
    <3>3. CASE At(g, "republish") /\ Enqueue(RetryCopy(g), "retry")
      <4>1. RetryCopy(g) \in Messages /\ place[RetryCopy(g)] = "unsent"
        BY <3>3, RetryCopyIsMessage DEF AttemptInv, RetryCopiesAreFresh
      <4>2. place' = [place EXCEPT ![RetryCopy(g)] = "retry"]
        BY <3>3 DEF Enqueue
      <4>3. QED
        BY <4>1, <4>2, <1>t, ComingMoved
    <3>4. QED
      BY <2>2, <3>1, <3>2, <3>3
  <2>4. QED
    BY <1>a, <1>c, <1>f, <1>t, <2>1, <2>3 DEF Balanced, Quiet
<1>4. QED
    BY <1>1, <1>2, <1>3

LEMMA FailureBalanced ==
    ASSUME TypeOK, AttemptInv, NEW g \in Handlers, NEW r \in Runs,
           \/ PublishRetryFails(g) \/ Crash(g) \/ ConnectionLost(g)
           \/ DatabaseFails(g) \/ ConnectRefused(g)
    PROVE  Balanced(r)
<1>t. StoreTypeOK /\ BrokerTypeOK /\ HandlerTypeOK /\ faults \in Nat
    BY DEF TypeOK
<1>w. ~At(g, "idle") /\ (Transaction(g) \/ UNCHANGED storeVars)
    BY WorkShape DEF Works
<1>g. RunAt(g) \in Runs /\ handler[g].msg \in Messages /\ handler[g] \in HandlerState
    BY <1>t, <1>w, HandlerRun DEF HandlerTypeOK
<1>f. faults' = faults + 1
    BY DEF PublishRetryFails, Crash, ConnectionLost, DatabaseFails, ConnectRefused, Fault
<1>a. run'[r].attempt \in {run[r].attempt, run[r].attempt + 1}
      /\ (~At(g, "claim") \/ RunAt(g) # r => run'[r].attempt = run[r].attempt)
    BY <1>t, <1>w, <1>g, AttemptMoves
<1>n. run[r].attempt \in Nat
    BY <1>t DEF StoreTypeOK, RunRow
<1>h. Alone(g)
    BY DEF PublishRetryFails, Crash, ConnectionLost, DatabaseFails, ConnectRefused, Release, Goto,
           Conclude, Begin, Alone, TypeOK, HandlerTypeOK
<1>1. CASE PublishRetryFails(g)
  <2>1. At(g, "republish") /\ ~At(g, "claim") /\ handler'[g].pc = "giveup"
    BY <1>1, <1>t DEF PublishRetryFails, Goto, At, HandlerTypeOK, HandlerState
  <2>2. Coming(r)' \subseteq Coming(r)
    <3>1. RetryCopy(g) \in Messages /\ place[RetryCopy(g)] = "unsent"
      BY <2>1, RetryCopyIsMessage DEF AttemptInv, RetryCopiesAreFresh
    <3>2. UNCHANGED brokerVars \/ place' = [place EXCEPT ![RetryCopy(g)] = "retry"]
      BY <1>1 DEF PublishRetryFails, Enqueue
    <3>3. QED
      BY <3>1, <3>2, <1>t, ComingMoved, ComingStays
  <2>3. Claiming(r)' \subseteq Claiming(r)
    BY <2>1, <1>h, ClaimingMoved
  <2>4. QED
    BY <1>a, <1>f, <1>t, <2>1, <2>2, <2>3 DEF Balanced, Quiet
<1>2. CASE Crash(g) \/ ConnectionLost(g)
  <2>1. run'[r].attempt = run[r].attempt
    BY <1>2 DEF Crash, ConnectionLost, storeVars
  <2>2. \/ UNCHANGED brokerVars
        \/ \E where : place' = [place EXCEPT ![handler[g].msg] = where]
    BY <1>2 DEF Crash, ConnectionLost, PutBack
  <2>3. \E m : Coming(r)' \subseteq Coming(r) \union {m}
    BY <2>2, <1>t, <1>g, ComingMoved, ComingStays
  <2>4. \/ handler'[g].pc = "idle"
        \/ handler'[g].pc = handler[g].pc /\ handler'[g].msg = handler[g].msg
    BY <1>2, <1>t, <1>g
       DEF Crash, ConnectionLost, Release, Idle, HandlerTypeOK, HandlerState
  <2>5. Claiming(r)' \subseteq Claiming(r)
    BY <2>4, <1>h, ClaimingMoved
  <2>6. QED
    BY <1>f, <2>1, <2>3, <2>5 DEF Balanced, Returned
<1>3. CASE DatabaseFails(g) \/ ConnectRefused(g)
  <2>1. UNCHANGED brokerVars /\ handler'[g].msg = handler[g].msg
    BY <1>3, <1>t, <1>g DEF DatabaseFails, ConnectRefused, Goto, Conclude, Begin, HandlerTypeOK,
                            HandlerState
  <2>2. Coming(r)' \subseteq Coming(r)
    BY <2>1, ComingStays
  <2>3. CASE At(g, "claim") /\ RunAt(g) = r
    <3>1. Claiming(r)' \subseteq Claiming(r) \union {g} /\ g \in Claiming(r)
      BY <2>3, <1>h, ClaimingMoved DEF Claiming
    <3>2. Claiming(r)' \subseteq Claiming(r)
      BY <3>1
    <3>3. QED
      BY <1>a, <1>f, <1>n, <2>2, <3>2 DEF Balanced, Failed
  <2>4. CASE ~(At(g, "claim") /\ RunAt(g) = r)
    <3>1. run'[r].attempt = run[r].attempt
      BY <1>a, <2>4
    <3>2. \E h : Claiming(r)' \subseteq Claiming(r) \union {h}
      BY <1>h, ClaimingMoved
    <3>3. QED
      BY <1>f, <2>2, <3>1, <3>2 DEF Balanced, Failed
  <2>5. QED
    BY <2>3, <2>4
<1>4. QED
    BY <1>1, <1>2, <1>3

LEMMA RequestBalanced ==
    ASSUME TypeOK, AttemptInv, AnsweredInv, NEW q \in Runs, NEW r \in Runs,
           Request(q) \/ SendPublishFails(q) \/ SendDies(q)
    PROVE  Balanced(r)
<1>t. StoreTypeOK /\ BrokerTypeOK /\ faults \in Nat /\ <<q, 0>> \in Messages /\ RunOf(<<q, 0>>) = q
    BY RunAssumption DEF TypeOK, Messages, RunOf
<1>1. UNCHANGED handler /\ faults' >= faults
    BY <1>t DEF Request, SendCheck, SendCommit, SendPublish, SendUnavailable, SendPublishFails,
                SendDies, Fault
<1>2. run'[r].attempt = run[r].attempt
  <2>1. CASE SendCommit(q)
    BY <2>1, <1>t DEF SendCommit, CreateRun, NewRow, StoreTypeOK, AttemptInv, AttemptsGivenOut,
                      storeVars
  <2>2. CASE SendUnavailable(q) \/ SendDies(q)
    BY <2>2, <1>t DEF SendUnavailable, SendDies, MarkFailed, Transition, StoreTypeOK, storeVars
  <2>3. CASE SendCheck(q) \/ SendPublish(q) \/ SendPublishFails(q)
    BY <2>3 DEF SendCheck, SendPublish, SendPublishFails, storeVars
  <2>4. QED
    BY <2>1, <2>2, <2>3 DEF Request
<1>3. \/ UNCHANGED brokerVars
      \/ req[q] = "committed" /\ place' = [place EXCEPT ![<<q, 0>>] = "process"]
    BY DEF Request, SendCheck, SendCommit, SendPublish, SendUnavailable, SendPublishFails,
           SendDies, Answer, Enqueue
<1>4. Coming(r)' \subseteq Coming(r)
  <2>1. req[q] = "committed" => place[<<q, 0>>] = "unsent"
    BY <1>t DEF AnsweredInv
  <2>2. QED
    BY <1>3, <1>t, <2>1, ComingMoved, ComingStays
<1>5. QED
    BY <1>1, <1>2, <1>4, ClaimingStays DEF Balanced, Quiet

LEMMA QueueBalanced ==
    ASSUME TypeOK, NEW m \in Messages, NEW r \in Runs,
           RetryExpires(m) \/ \E g \in Handlers : Deliver(g, m)
    PROVE  Balanced(r)
<1>t. BrokerTypeOK /\ HandlerTypeOK /\ faults \in Nat
    BY DEF TypeOK
<1>1. CASE RetryExpires(m)
  <2>1. UNCHANGED <<run, handler, faults>>
    BY <1>1 DEF RetryExpires, storeVars
  <2>2. place[m] = "retry" /\ place' = [place EXCEPT ![m] = "process"]
    BY <1>1 DEF RetryExpires, RetryDelayOver, Enqueue
  <2>3. Coming(r)' \subseteq Coming(r)
    BY <2>2, <1>t, ComingMoved
  <2>4. QED
    BY <1>t, <2>1, <2>3, ClaimingStays DEF Balanced, Quiet
<1>2. ASSUME NEW g \in Handlers, Deliver(g, m) PROVE Balanced(r)
  <2>1. UNCHANGED <<run, faults>> /\ Alone(g) /\ handler'[g].msg = m
    BY <1>2, <1>t DEF Deliver, Alone, HandlerTypeOK, storeVars
  <2>2. place[m] = "process" /\ place' = [place EXCEPT ![m] = "unacked"]
    BY <1>2 DEF Deliver, Take, Enqueue
  <2>3. Coming(r)' \subseteq Coming(r) \ {m}
    <3>1. "unacked" \notin {"unsent", "process", "retry"}
      OBVIOUS
    <3>2. QED
      BY <2>2, <3>1, <1>t, ComingMoved
  <2>4. CASE RunOf(m) = r
    <3>1. m \in Coming(r)
      BY <2>2, <2>4 DEF Coming
    <3>2. \E h : Claiming(r)' \subseteq Claiming(r) \union {h}
      BY <2>1, ClaimingMoved
    <3>3. QED
      BY <2>1, <2>3, <3>1, <3>2 DEF Balanced, Delivered
  <2>5. CASE RunOf(m) # r
    <3>1. RunAt(g)' # r
      BY <2>1, <2>5 DEF RunAt
    <3>2. Claiming(r)' \subseteq Claiming(r) \ {g}
      BY <2>1, <3>1, ClaimingMoved
    <3>3. QED
      BY <1>t, <2>1, <2>3, <3>2 DEF Balanced, Quiet
  <2>6. QED
    BY <2>4, <2>5
<1>3. QED
    BY <1>1, <1>2

LEMMA LoadStep ==
    ASSUME TypeOK, TypeOK', AttemptInv, AnsweredInv, LoadInv, [Next]_vars
    PROVE  LoadInv'
<1>1. ASSUME NEW r \in Runs PROVE Balanced(r)
  <2>1. ASSUME Conversation \/ UNCHANGED vars PROVE Balanced(r)
    <3>1. UNCHANGED <<run, handler, faults, brokerVars>> /\ faults \in Nat
      BY <2>1 DEF Conversation, CreateSession, CompleteSession, DeleteSession, DeleteAgent, vars,
                  storeVars, TypeOK
    <3>2. QED
      BY <3>1, ClaimingStays, ComingStays DEF Balanced, Quiet
  <2>2. QED
    BY <2>1, HandleBalanced, FailureBalanced, RequestBalanced, QueueBalanced DEF Next, Failure
<1>2. ASSUME NEW r \in Runs
      PROVE  /\ IsFiniteSet(Coming(r)') /\ IsFiniteSet(Claiming(r)')
             /\ Load(r)' <= MaxAttempts + faults'
  <2>1. IsFiniteSet(Coming(r)) /\ IsFiniteSet(Claiming(r)) /\ Load(r) <= MaxAttempts + faults
    BY DEF LoadInv
  <2>2. QED
    BY <1>1, <2>1, BalancedLoad
<1>3. QED
    BY <1>2 DEF LoadInv

LEMMA InitLoad == Init => LoadInv
<1> SUFFICES ASSUME Init, NEW r \in Runs
             PROVE  /\ IsFiniteSet(Coming(r)) /\ IsFiniteSet(Claiming(r))
                    /\ Load(r) <= MaxAttempts + faults
    BY DEF LoadInv
<1>1. MaxAttempts \in Nat \ {0}
    BY RunAssumption
<1>2. /\ IsFiniteSet({r}) /\ Cardinality({r}) = 1
      /\ IsFiniteSet(0 .. MaxAttempts - 1) /\ Cardinality(0 .. MaxAttempts - 1) = MaxAttempts
  <2>1. 0 \in Int /\ MaxAttempts - 1 \in Int /\ ~(0 > MaxAttempts - 1)
    BY <1>1
  <2>2. /\ IsFiniteSet(0 .. MaxAttempts - 1)
        /\ Cardinality(0 .. MaxAttempts - 1) = MaxAttempts - 1 - 0 + 1
    BY <2>1, FS_Interval
  <2>3. IsFiniteSet({r}) /\ Cardinality({r}) = 1
    BY FS_Singleton, Zenon
  <2>4. MaxAttempts - 1 - 0 + 1 = MaxAttempts
    BY <1>1
  <2>5. QED
    BY <2>2, <2>3, <2>4
<1>3. /\ IsFiniteSet({r} \X (0 .. MaxAttempts - 1))
      /\ Cardinality({r} \X (0 .. MaxAttempts - 1)) = MaxAttempts
  <2> DEFINE S == {r}
             T == 0 .. MaxAttempts - 1
  <2>1. IsFiniteSet(S) /\ Cardinality(S) = 1 /\ IsFiniteSet(T) /\ Cardinality(T) = MaxAttempts
    BY <1>2
  <2> HIDE DEF S, T
  <2>2. IsFiniteSet(S \X T) /\ Cardinality(S \X T) = Cardinality(S) * Cardinality(T)
    BY <2>1, FS_Product
  <2>3. Cardinality(S) * Cardinality(T) = MaxAttempts
    BY <1>1, <2>1
  <2>4. QED
    BY <2>2, <2>3 DEF S, T
<1>4. Coming(r) \subseteq {r} \X (0 .. MaxAttempts - 1)
    BY DEF Coming, Messages, RunOf
<1>5. IsFiniteSet(Coming(r)) /\ Cardinality(Coming(r)) \in Nat
      /\ Cardinality(Coming(r)) <= MaxAttempts
    BY <1>3, <1>4, CountSame
<1>6. Claiming(r) = {}
    BY DEF Init, Idle, Claiming, At
<1>7. IsFiniteSet(Claiming(r)) /\ Cardinality(Claiming(r)) = 0
    BY <1>6, FS_EmptySet
<1>8. run[r].attempt = 0 /\ faults = 0
    BY DEF Init, StoreInit
<1>9. QED
    BY <1>1, <1>5, <1>7, <1>8 DEF Load

LEMMA LoadInvariant == Spec => []LoadInv
<1>1. TypeOK /\ TypeOK' /\ AttemptInv /\ AnsweredInv /\ LoadInv /\ [Next]_vars => LoadInv'
    BY LoadStep
<1>2. QED
    BY <1>1, InitLoad, TypeInvariant, AttemptInvariant, AnsweredInvariant, PTL DEF Spec

\* However often its messages are returned, taken over or retried, a run is claimed
\* at most once for each attempt it is granted and each failure that has happened:
\* a worker without failures never redelivers to itself (worker.py, handle;
\* processor.py, _process).
THEOREM AttemptsAreBounded == Spec => []AttemptsArePaidFor
<1>1. TypeOK /\ LoadInv => AttemptsArePaidFor
  <2> SUFFICES ASSUME TypeOK, LoadInv, NEW r \in Runs
               PROVE  run[r].attempt <= MaxAttempts + faults
    BY DEF AttemptsArePaidFor
  <2>1. /\ Cardinality(Coming(r)) \in Nat /\ Cardinality(Claiming(r)) \in Nat
        /\ Load(r) <= MaxAttempts + faults
    BY FS_CardinalityType DEF LoadInv
  <2>2. run[r].attempt \in Nat /\ faults \in Nat /\ MaxAttempts \in Nat
    BY RunAssumption DEF TypeOK, StoreTypeOK, RunRow
  <2>3. QED
    BY <2>1, <2>2 DEF Load
<1>2. QED
    BY <1>1, TypeInvariant, LoadInvariant, PTL

\* The attempt that is given up for being one too many is beyond the limit.
ExpiresBeyond == \A h \in Handlers : At(h, "expire") => handler[h].attempt > MaxAttempts

LEMMA ExpiresStep ==
    ASSUME TypeOK, ExpiresBeyond, [Next]_vars
    PROVE  ExpiresBeyond'
<1> SUFFICES ASSUME NEW h \in Handlers, At(h, "expire")'
             PROVE  handler'[h].attempt > MaxAttempts
    BY DEF ExpiresBeyond
<1>t. handler \in [Handlers -> HandlerState]
    BY DEF TypeOK, HandlerTypeOK
<1>1. CASE handler'[h] = handler[h]
    BY <1>1 DEF ExpiresBeyond, At
<1>2. CASE handler'[h] # handler[h]
  <2>1. ASSUME NEW g \in Handlers, Alone(g) PROVE g = h
    BY <1>2, <2>1 DEF Alone
  <2>2. ASSUME NEW g \in Handlers, Claim(g) PROVE handler'[h].attempt > MaxAttempts
    <3>1. g = h
      BY <1>t, <2>1, <2>2 DEF Claim, Begin, Conclude, Alone
    <3>2. /\ ~WithinLimit(ClaimedRow(run[RunAt(h)]).attempt)
          /\ handler'[h].attempt = ClaimedRow(run[RunAt(h)]).attempt
      BY <1>t, <2>2, <3>1 DEF Claim, Begin, Conclude, At, HandlerState
    <3>3. RunAt(h) \in Runs
      BY <2>2, <3>1, HandlerRun DEF Claim, At, TypeOK
    <3>4. ClaimedRow(run[RunAt(h)]).attempt \in Nat /\ MaxAttempts \in Nat
      BY <3>3, RunAssumption DEF ClaimedRow, TypeOK, StoreTypeOK, RunRow
    <3>5. QED
      BY <3>2, <3>4 DEF WithinLimit
  <2>3. ASSUME NEW g \in Handlers, Handle(g), ~Claim(g) PROVE FALSE
    BY <1>t, <1>2, <2>3
       DEF Handle, Expire, LoadContext, Respond, Responses, Complete, HandleError, PublishRetry,
           GiveUp, Ack, Nack, Release, Idle, Goto, Conclude, Begin, At, HandlerState
  <2>4. ASSUME NEW g \in Handlers, ConnectionLost(g)
        PROVE  handler'[h].attempt > MaxAttempts
    <3>1. /\ g = h \/ handler'[h] = handler[h]
          /\ handler'[g].pc = "idle" \/ (/\ handler'[g].pc = handler[g].pc
                                        /\ handler'[g].attempt = handler[g].attempt)
      BY <1>t, <2>4 DEF ConnectionLost, Release, Idle, HandlerState
    <3>2. QED
      BY <1>2, <3>1 DEF ExpiresBeyond, At
  <2>5. ASSUME NEW g \in Handlers,
               PublishRetryFails(g) \/ Crash(g) \/ DatabaseFails(g) \/ ConnectRefused(g)
        PROVE  FALSE
    BY <1>t, <1>2, <2>5
       DEF PublishRetryFails, Crash, DatabaseFails, ConnectRefused, Release, Idle, Goto,
           Conclude, Begin, At, HandlerState
  <2>6. ASSUME NEW g \in Handlers, NEW m \in Messages, Deliver(g, m) PROVE FALSE
    BY <1>t, <1>2, <2>6 DEF Deliver, At
  <2>7. ASSUME NEW r \in Runs, Request(r) \/ SendPublishFails(r) \/ SendDies(r) PROVE FALSE
    BY <1>2, <2>7 DEF Request, SendCheck, SendCommit, SendPublish, SendUnavailable,
                      SendPublishFails, SendDies
  <2>8. QED
    BY <1>2, <2>2, <2>3, <2>4, <2>5, <2>6, <2>7
       DEF Next, Failure, Conversation, RetryExpires, vars
<1>3. QED
    BY <1>1, <1>2

\* A run is given up as redelivered too often (run_timeout) only if something
\* failed (processor.py, process and _fail: "The run exceeded the retry limit").
THEOREM ExpiryIsDeserved == Spec => []ExpiryNeedsFailure
<1>1. Init => ExpiresBeyond
    BY DEF Init, Idle, ExpiresBeyond, At
<1>2. TypeOK /\ ExpiresBeyond /\ [Next]_vars => ExpiresBeyond'
    BY ExpiresStep
<1>3. TypeOK /\ AttemptInv /\ ExpiresBeyond /\ AttemptsArePaidFor => ExpiryNeedsFailure
  <2> SUFFICES ASSUME TypeOK, AttemptInv, ExpiresBeyond, AttemptsArePaidFor,
                      NEW h \in Handlers, At(h, "expire")
               PROVE  faults > 0
    BY DEF ExpiryNeedsFailure
  <2>1. RunAt(h) \in Runs /\ handler[h].attempt \in Nat
    BY HandlerRun DEF At, TypeOK
  <2>2. handler[h].attempt <= run[RunAt(h)].attempt /\ handler[h].attempt > MaxAttempts
    BY DEF AttemptInv, AttemptsGivenOut, Numbered, At, ExpiresBeyond
  <2>3. run[RunAt(h)].attempt <= MaxAttempts + faults
    BY <2>1 DEF AttemptsArePaidFor
  <2>4. run[RunAt(h)].attempt \in Nat /\ faults \in Nat /\ MaxAttempts \in Nat
    BY <2>1, RunAssumption DEF TypeOK, StoreTypeOK, RunRow
  <2>5. QED
    BY <2>1, <2>2, <2>3, <2>4
<1>4. QED
    BY <1>1, <1>2, <1>3, TypeInvariant, AttemptInvariant, AttemptsAreBounded, PTL DEF Spec
=============================================================================
