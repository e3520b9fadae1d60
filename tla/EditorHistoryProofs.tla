------------------------- MODULE EditorHistoryProofs -------------------------
(***************************************************************************)
(* The history an attempt shows to the model is what the user saw, it and  *)
(* the base of the edit stay current until the run ends, messages are      *)
(* never changed, and the model edits a proposal it is shown: for any      *)
(* number of runs, conversations, tasks and attempts.                      *)
(***************************************************************************)
EXTENDS EditorHistory, RunStoreProofs

\* What a step of a request or of an attempt does to the rows is a transaction
\* of RunStore or nothing.
LEMMA HistoryRefinesStore ==
    ASSUME HistoryTypeOK, [HistoryNext]_historyVars
    PROVE  [StoreNext]_storeVars
<1> USE DEF HistoryTypeOK
<1>1. ASSUME NEW r \in Runs, Ask(r) PROVE [StoreNext]_storeVars
    BY <1>1 DEF Ask, Begin, Send, StoreNext
<1>2. ASSUME NEW h \in Tasks, NEW r \in Runs, Claim(h, r) PROVE [StoreNext]_storeVars
    BY <1>2 DEF Claim, StoreNext
<1>3. ASSUME NEW h \in Tasks, Complete(h) \/ Fail(h) PROVE [StoreNext]_storeVars
  <2>1. task[h].run \in Runs /\ task[h].attempt \in Nat
      BY <1>3 DEF Task, Idle, Complete, Fail
  <2>2. "provider_unavailable" \in ErrorCode
      BY DEF ErrorCode
  <2>3. QED
      BY <1>3, <2>1, <2>2 DEF Complete, Fail, StoreNext
<1>4. ASSUME NEW h \in Tasks, Load(h) \/ Respond(h) \/ Die(h) PROVE UNCHANGED storeVars
    BY <1>4 DEF Load, Respond, Die
<1>5. CASE Elsewhere
    BY <1>5 DEF Elsewhere, StoreNext
<1>6. CASE UNCHANGED historyVars
    BY <1>6 DEF historyVars
<1>7. QED
    BY <1>1, <1>2, <1>3, <1>4, <1>5, <1>6 DEF HistoryNext, Work

-----------------------------------------------------------------------------
(* Types *)

\* A refusal keeps the questions in their types.
LEMMA RefuseTypes ==
    ASSUME HistoryTypeOK, NEW r \in Runs, Refuse(r)
    PROVE  question' \in [Runs -> Question]
<1>1. [NoQuestion EXCEPT !.pc = "refused"] \in Question
    BY DEF NoQuestion, Question
<1>2. QED
    BY <1>1 DEF Refuse, HistoryTypeOK

\* Every step of a request keeps the questions in their types.
LEMMA AskTypes ==
    ASSUME HistoryTypeOK, NEW r \in Runs, Ask(r)
    PROVE  now' \in Nat /\ question' \in [Runs -> Question]
<1>n. now \in Nat /\ question \in [Runs -> Question]
    BY DEF HistoryTypeOK
<1>1. CASE Begin(r)
  <2>1. now' \in Nat
    <3>1. now' = now + 1
        BY <1>1 DEF Begin, StartTransaction
    <3>2. QED
        BY <1>n, <3>1
  <2>2. CASE Refuse(r)
      BY <2>1, <2>2, RefuseTypes
  <2>3. ASSUME NEW base \in {{}} \union {{q} : q \in ProposalsIn(InSession(r))},
               question' = [question EXCEPT ![r] =
                    [NoQuestion EXCEPT !.pc = "begun", !.at = now', !.base = base]]
        PROVE  question' \in [Runs -> Question]
    <3>1. base \in SUBSET Runs
        BY DEF ProposalsIn
    <3>2. [NoQuestion EXCEPT !.pc = "begun", !.at = now', !.base = base] \in Question
        BY <2>1, <3>1 DEF NoQuestion, Question
    <3>3. QED
        BY <1>n, <2>3, <3>2
  <2>4. QED
      BY <1>1, <2>1, <2>2, <2>3 DEF Begin
<1>2. CASE Send(r)
  <2>1. [question[r] EXCEPT !.pc = "sent", !.done = now] \in Question
    <3>1. question[r] \in Question
        BY <1>n
    <3>2. QED
        BY <1>n, <3>1 DEF Question
  <2>2. CASE Refuse(r)
      BY <1>n, <1>2, <2>2, RefuseTypes DEF Send
  <2>3. CASE question' = [question EXCEPT ![r] = [@ EXCEPT !.pc = "sent", !.done = now]]
      BY <1>n, <1>2, <2>1, <2>3 DEF Send
  <2>4. QED
      BY <1>n, <1>2, <2>2, <2>3 DEF Send
<1>3. QED
    BY <1>1, <1>2 DEF Ask

\* What an attempt reads has the type of a history and of a proposal.
LEMMA ReadTypes ==
    ASSUME HistoryTypeOK, NEW r \in Runs
    PROVE  History(r) \subseteq Messages /\ BaseFor(r) \subseteq Runs
<1>1. question[r].base \subseteq Runs
    BY DEF HistoryTypeOK, Question
<1>2. QED
    BY <1>1 DEF History, InSession, BaseFor, LastProposal, ProposalsIn

\* Every step of a task keeps tasks, answers and the clock in their types.
LEMMA TaskTypes ==
    ASSUME HistoryTypeOK, NEW h \in Tasks, Work(h) \/ \E r \in Runs : Claim(h, r)
    PROVE  /\ now' \in Nat
           /\ answer' \in [Runs -> Answer]
           /\ task' \in [Tasks -> Task \union {Idle}]
<1> USE DEF HistoryTypeOK
<1>1. CASE Load(h)
  <2>1. task[h] \in Task
      BY <1>1 DEF Load, Idle
  <2>2. task[h].run \in Runs
      BY <2>1 DEF Task
  <2>3. History(task[h].run) \subseteq Messages /\ BaseFor(task[h].run) \subseteq Runs
      BY <2>2, ReadTypes
  <2>4. QED
      BY <1>1, <2>1, <2>3 DEF Load, Task
<1>2. CASE Respond(h)
  <2>1. task[h] \in Task
      BY <1>2 DEF Respond, Idle
  <2>2. now' \in Nat
      BY <1>2 DEF Respond, StartTransaction
  <2>3. [task[h] EXCEPT !.pc = "answering", !.at = now'] \in Task
      BY <2>1, <2>2 DEF Task
  <2>4. QED
      BY <1>2, <2>2, <2>3 DEF Respond
<1>3. CASE Complete(h)
  <2>1. task[h].run \in Runs /\ task[h].at \in Nat
      BY <1>3 DEF Complete, Idle, Task
  <2>2. ASSUME NEW proposal \in BOOLEAN, StoreAnswer(h, proposal)
        PROVE  answer' \in [Runs -> Answer]
    <3>1. [stored |-> TRUE, at |-> task[h].at, done |-> now, proposal |-> proposal]
             \in Answer
        BY <2>1 DEF Answer
    <3>2. QED
        BY <2>2, <3>1 DEF StoreAnswer
  <2>3. QED
      BY <1>3, <2>2 DEF Complete, Finish
<1>4. CASE Fail(h) \/ Die(h)
    BY <1>4 DEF Fail, Die, Finish
<1>5. ASSUME NEW r \in Runs, Claim(h, r) PROVE task' \in [Tasks -> Task \union {Idle}]
  <2>1. run[r].attempt + 1 \in Nat
      BY DEF StoreTypeOK, RunRow
  <2>2. QED
      BY <1>5, <2>1 DEF Claim, Task, Idle
<1>6. QED
    BY <1>1, <1>2, <1>3, <1>4, <1>5 DEF Work, Claim

\* Every step keeps all of it in its types.
LEMMA HistoryTypeStep == HistoryTypeOK /\ [HistoryNext]_historyVars => HistoryTypeOK'
<1> SUFFICES ASSUME HistoryTypeOK, [HistoryNext]_historyVars PROVE HistoryTypeOK'
    OBVIOUS
<1>1. StoreTypeOK'
    BY HistoryRefinesStore, StoreTypeStep DEF HistoryTypeOK
<1>2. ASSUME NEW r \in Runs, Ask(r) PROVE HistoryTypeOK'
    BY <1>1, <1>2, AskTypes DEF Ask, Begin, Send, HistoryTypeOK
<1>3. ASSUME NEW h \in Tasks, Work(h) \/ \E r \in Runs : Claim(h, r)
      PROVE  HistoryTypeOK'
  <2>1. question' = question
      BY <1>3 DEF Work, Load, Respond, Complete, Fail, Die, Claim
  <2>2. QED
      BY <1>1, <1>3, <2>1, TaskTypes DEF HistoryTypeOK
<1>4. CASE Elsewhere \/ UNCHANGED historyVars
    BY <1>1, <1>4 DEF Elsewhere, historyVars, HistoryTypeOK
<1>5. QED
    BY <1>2, <1>3, <1>4 DEF HistoryNext

\* They have their types before anything happens.
LEMMA HistoryInitTypes == HistoryInit => HistoryTypeOK
<1> SUFFICES ASSUME HistoryInit PROVE HistoryTypeOK
    OBVIOUS
<1>1. StoreTypeOK
    BY StoreInitInv DEF HistoryInit, StoreInv
<1>2. QED
    BY <1>1 DEF HistoryInit, HistoryTypeOK, Question, Answer, NoQuestion, NoAnswer

-----------------------------------------------------------------------------
(* Rows and times *)

\* A question is stored with its run, and starts before it is stored.
QuestionOK(r) ==
    /\ question[r].pc = "sent" <=> run[r].status # "none"
    /\ question[r].pc \in {"begun", "sent"} => question[r].at <= now
    /\ question[r].pc = "sent" =>
          question[r].at <= question[r].done /\ question[r].done <= now

\* An answer is stored with the completion of its run, by a transaction that
\* started after the question was stored.
AnswerOK(r) ==
    /\ answer[r].stored <=> run[r].status = "completed"
    /\ answer[r].stored =>
          /\ question[r].done < answer[r].at
          /\ answer[r].at <= answer[r].done /\ answer[r].done <= now

\* A task is at an attempt that was given out.
TaskOK(h) ==
    task[h].pc # "idle" =>
        /\ run[task[h].run].status # "none"
        /\ task[h].attempt <= run[task[h].run].attempt
        /\ task[h].pc = "answering" =>
              question[task[h].run].done < task[h].at /\ task[h].at <= now

\* A question is stored after every answer its conversation has while it is open.
AskedLater(r, q) ==
    Active(r) /\ answer[q].stored /\ SessionOf[r] = SessionOf[q] =>
        answer[q].done <= question[r].done

RowInv ==
    /\ HistoryTypeOK
    /\ StoreInv
    /\ \A r \in Runs : QuestionOK(r) /\ AnswerOK(r)
    /\ \A h \in Tasks : TaskOK(h)
    /\ \A r, q \in Runs : AskedLater(r, q)

\* What the transactions that store no message do to the rows.
QuietRows ==
    \A q \in Runs :
        /\ run'[q].status = "none" <=> run[q].status = "none"
        /\ run'[q].status = "completed" <=> run[q].status = "completed"
        /\ run'[q].status \in ActiveStatus => run[q].status \in ActiveStatus
        /\ run'[q].attempt >= run[q].attempt

LEMMA ClaimIsQuiet ==
    ASSUME StoreTypeOK, NEW r \in Runs, ClaimRun(r)
    PROVE  QuietRows
<1>1. run \in [Runs -> RunRow] /\ \A q \in Runs : run[q].attempt \in Nat
    BY DEF StoreTypeOK, RunRow
<1>2. CASE Claimable(r)
  <2>1. /\ run'[r].status = "processing" /\ run'[r].attempt = run[r].attempt + 1
        /\ \A q \in Runs : q # r => run'[q] = run[q]
      BY <1>1, <1>2 DEF ClaimRun, ClaimedRow
  <2>2. run[r].status \in {"queued", "processing"}
      BY <1>2 DEF Claimable, Active, ActiveStatus
  <2>3. QED
      BY <1>1, <2>1, <2>2 DEF QuietRows, ActiveStatus
<1>3. CASE ~Claimable(r)
  <2>1. run' = run
      BY <1>3 DEF ClaimRun
  <2>2. QED
      BY <1>1, <2>1 DEF QuietRows
<1>4. QED
    BY <1>2, <1>3

LEMMA ErrorIsQuiet ==
    ASSUME StoreTypeOK, NEW r \in Runs, NEW k, NEW status \in {"queued", "failed"},
           MarkFailed(r) \/ MarkError(r, k, status, "provider_unavailable")
    PROVE  QuietRows
<1>1. run \in [Runs -> RunRow] /\ \A q \in Runs : run[q].attempt \in Nat
    BY DEF StoreTypeOK, RunRow
<1>2. CASE run' = run
    BY <1>1, <1>2 DEF QuietRows
<1>3. CASE run' # run
  <2>1. /\ run'[r].status \in {"queued", "failed"} /\ run'[r].attempt = run[r].attempt
        /\ \A q \in Runs : q # r => run'[q] = run[q]
      BY <1>1, <1>3 DEF MarkFailed, MarkError, Transition
  <2>2. run[r].status \in {"queued", "processing"}
      BY <1>3 DEF MarkFailed, MarkError, Failable, Owns, Active, ActiveStatus
  <2>3. QED
      BY <1>1, <2>1, <2>2 DEF QuietRows, ActiveStatus
<1>4. QED
    BY <1>2, <1>3

LEMMA StillIsQuiet ==
    ASSUME StoreTypeOK, run' = run
    PROVE  QuietRows
BY DEF QuietRows, StoreTypeOK, RunRow

\* Every transaction of a task but the one that stores an answer.
LEMMA QuietTask ==
    ASSUME HistoryTypeOK, NEW h \in Tasks,
           \/ Load(h) \/ Respond(h) \/ Fail(h) \/ Die(h)
           \/ \E r \in Runs : Claim(h, r)
           \/ Complete(h) /\ ~Owner(h)
    PROVE  QuietRows /\ question' = question /\ answer' = answer
<1>1. StoreTypeOK
    BY DEF HistoryTypeOK
<1>2. CASE Load(h) \/ Respond(h) \/ Die(h)
    BY <1>1, <1>2, StillIsQuiet DEF Load, Respond, Die, storeVars
<1>3. CASE Fail(h)
  <2>1. task[h].run \in Runs
      BY <1>3 DEF HistoryTypeOK, Fail, Idle, Task
  <2>2. PICK status \in {"queued", "failed"} :
           MarkError(task[h].run, task[h].attempt, status, "provider_unavailable")
      BY <1>3 DEF Fail
  <2>3. QED
      BY <1>1, <1>3, <2>1, <2>2, ErrorIsQuiet DEF Fail
<1>4. ASSUME NEW r \in Runs, Claim(h, r)
      PROVE  QuietRows /\ question' = question /\ answer' = answer
    BY <1>1, <1>4, ClaimIsQuiet DEF Claim
<1>5. CASE Complete(h) /\ ~Owner(h)
  <2>1. run' = run
      BY <1>5 DEF Complete, CompleteRun, Owner
  <2>2. QED
      BY <1>1, <1>5, <2>1, StillIsQuiet DEF Complete
<1>6. QED
    BY <1>2, <1>3, <1>4, <1>5

LEMMA QuietElsewhere ==
    ASSUME HistoryTypeOK, Elsewhere \/ UNCHANGED historyVars
    PROVE  /\ QuietRows
           /\ question' = question /\ answer' = answer /\ task' = task /\ now' = now
<1>1. StoreTypeOK
    BY DEF HistoryTypeOK
<1>2. ASSUME NEW r \in Runs, MarkFailed(r) PROVE QuietRows
    BY <1>1, <1>2, ErrorIsQuiet
<1>3. ASSUME \/ \E s \in Sessions : CreateSession(s) \/ CompleteSession(s) \/ DeleteSession(s)
             \/ \E a \in Agents : DeleteAgent(a)
             \/ UNCHANGED historyVars
      PROVE  run' = run
    BY <1>3 DEF CreateSession, CompleteSession, DeleteSession, DeleteAgent, historyVars, storeVars
<1>4. QED
    BY <1>1, <1>2, <1>3, StillIsQuiet DEF Elsewhere, historyVars

\* A quiet step leaves questions and answers as they are.
LEMMA QuietKeepsRows ==
    ASSUME RowInv, QuietRows, question' = question, answer' = answer,
           now' \in Nat, now' >= now
    PROVE  /\ \A r \in Runs : QuestionOK(r)' /\ AnswerOK(r)'
           /\ \A r, q \in Runs : AskedLater(r, q)'
<1>1. ASSUME NEW r \in Runs PROVE QuestionOK(r)' /\ AnswerOK(r)'
  <2>1. question[r] \in Question /\ answer[r] \in Answer /\ now \in Nat
      BY DEF RowInv, HistoryTypeOK
  <2>2. /\ question[r].at \in Nat /\ question[r].done \in Nat
        /\ answer[r].at \in Nat /\ answer[r].done \in Nat
      BY <2>1 DEF Question, Answer
  <2>3. QuestionOK(r) /\ AnswerOK(r)
      BY DEF RowInv
  <2>4. QED
      BY <2>1, <2>2, <2>3 DEF QuestionOK, AnswerOK, QuietRows
<1>2. ASSUME NEW r \in Runs, NEW q \in Runs PROVE AskedLater(r, q)'
    BY DEF RowInv, AskedLater, QuietRows, Active
<1>3. QED
    BY <1>1, <1>2

\* A task that does not move stays at an attempt that was given out.
LEMMA RestingTask ==
    ASSUME RowInv, HistoryTypeOK', NEW h \in Tasks, task'[h] = task[h], now' >= now,
           task[h].pc # "idle" =>
              /\ run'[task[h].run].status # "none"
              /\ run'[task[h].run].attempt >= run[task[h].run].attempt
              /\ question'[task[h].run].done = question[task[h].run].done
    PROVE  TaskOK(h)'
<1>1. CASE task[h].pc = "idle"
    BY <1>1 DEF TaskOK
<1>2. CASE task[h].pc # "idle"
  <2>1. task[h] \in Task
      BY <1>2 DEF RowInv, HistoryTypeOK, Idle
  <2>2. task[h].run \in Runs /\ task[h].attempt \in Nat /\ task[h].at \in Nat
      BY <2>1 DEF Task
  <2>3. /\ run[task[h].run].attempt \in Nat /\ run'[task[h].run].attempt \in Nat
        /\ now \in Nat /\ now' \in Nat
      BY <2>2 DEF RowInv, HistoryTypeOK, StoreTypeOK, RunRow
  <2>4. TaskOK(h)
      BY DEF RowInv
  <2>5. QED
      BY <1>2, <2>2, <2>3, <2>4 DEF TaskOK
<1>3. QED
    BY <1>1, <1>2

\* What the steps of a task leave of the tasks.
LEMMA MovedTask ==
    ASSUME RowInv, HistoryTypeOK', NEW h \in Tasks,
           \/ Load(h) \/ Respond(h) \/ Fail(h) \/ Die(h) \/ Complete(h)
           \/ \E r \in Runs : Claim(h, r)
    PROVE  /\ TaskOK(h)'
           /\ now' >= now
           /\ \A g \in Tasks : g # h => task'[g] = task[g]
<1>1. now \in Nat /\ task \in [Tasks -> Task \union {Idle}]
    BY DEF RowInv, HistoryTypeOK
<1>2. TaskOK(h)
    BY DEF RowInv
<1>3. CASE Fail(h) \/ Die(h) \/ Complete(h)
  <2>1. task' = [task EXCEPT ![h] = Idle] /\ now' = now
      BY <1>3 DEF Fail, Die, Complete, Finish
  <2>2. task'[h].pc = "idle"
      BY <1>1, <2>1 DEF Idle
  <2>3. QED
      BY <1>1, <2>1, <2>2 DEF TaskOK
<1>4. CASE Load(h)
  <2>1. /\ task'[h].pc = "calling" /\ task'[h].run = task[h].run
        /\ task'[h].attempt = task[h].attempt /\ run' = run /\ now' = now
        /\ \A g \in Tasks : g # h => task'[g] = task[g]
      BY <1>1, <1>4 DEF Load, Task, Idle, storeVars
  <2>2. QED
      BY <1>1, <1>2, <1>4, <2>1 DEF TaskOK, Load
<1>5. CASE Respond(h)
  <2>1. task[h] \in Task
      BY <1>1, <1>5 DEF Respond, Idle
  <2>2. now' = now + 1
      BY <1>5 DEF Respond, StartTransaction
  <2>3. /\ task'[h].pc = "answering" /\ task'[h].run = task[h].run
        /\ task'[h].attempt = task[h].attempt /\ task'[h].at = now'
        /\ run' = run /\ question' = question
        /\ \A g \in Tasks : g # h => task'[g] = task[g]
      BY <1>1, <1>5, <2>1 DEF Respond, Task, storeVars
  <2>4. task[h].run \in Runs
      BY <2>1 DEF Task
  <2>5. question[task[h].run].done \in Nat /\ question[task[h].run].done <= now
      BY <1>2, <1>5, <2>4 DEF RowInv, HistoryTypeOK, Question, QuestionOK, TaskOK, Respond
  <2>6. QED
      BY <1>1, <1>2, <1>5, <2>2, <2>3, <2>5 DEF TaskOK, Respond
<1>6. ASSUME NEW r \in Runs, Claim(h, r)
      PROVE  TaskOK(h)' /\ now' >= now /\ \A g \in Tasks : g # h => task'[g] = task[g]
  <2>1. run \in [Runs -> RunRow] /\ run[r].attempt \in Nat
      BY DEF RowInv, HistoryTypeOK, StoreTypeOK, RunRow
  <2>2. run'[r].status = "processing" /\ run'[r].attempt = run[r].attempt + 1
      BY <1>6, <2>1 DEF Claim, ClaimRun, ClaimedRow
  <2>3. /\ task'[h].pc = "claimed" /\ task'[h].run = r
        /\ task'[h].attempt = run[r].attempt + 1
        /\ \A g \in Tasks : g # h => task'[g] = task[g]
      BY <1>1, <1>6 DEF Claim, Idle
  <2>4. now' = now
      BY <1>6 DEF Claim
  <2>5. QED
      BY <1>1, <2>1, <2>2, <2>3, <2>4 DEF TaskOK
<1>7. QED
    BY <1>3, <1>4, <1>5, <1>6

\* A step of a request.
LEMMA AskKeepsRows ==
    ASSUME RowInv, HistoryTypeOK', NEW r \in Runs, Ask(r)
    PROVE  /\ \A q \in Runs : QuestionOK(q)' /\ AnswerOK(q)'
           /\ \A p, q \in Runs : AskedLater(p, q)'
           /\ \A h \in Tasks : TaskOK(h)'
<1>1. /\ now \in Nat /\ now' \in Nat /\ now' >= now
      /\ answer' = answer /\ task' = task
      /\ question \in [Runs -> Question] /\ run \in [Runs -> RunRow]
      /\ \A q \in Runs : QuestionOK(q) /\ AnswerOK(q)
  <2>1. now \in Nat /\ now' \in Nat /\ (now' = now \/ now' = now + 1)
      BY DEF RowInv, HistoryTypeOK, Ask, Begin, Send, StartTransaction
  <2>2. now' >= now
      BY <2>1
  <2>3. answer' = answer /\ task' = task
      BY DEF Ask, Begin, Send
  <2>4. QED
      BY <2>1, <2>2, <2>3 DEF RowInv, HistoryTypeOK, StoreTypeOK
<1>2. question[r].pc \in {"new", "begun"} /\ run[r].status = "none" /\ ~answer[r].stored
    BY <1>1 DEF Ask, Begin, Send, QuestionOK, AnswerOK, HistoryTypeOK, Question,
                StoreTypeOK, RunRow
<1>3. /\ \A q \in Runs : q # r => question'[q] = question[q] /\ run'[q] = run[q]
      /\ \/ run'[r] = run[r] /\ question'[r].pc = "refused"
         \/ run'[r] = run[r] /\ question'[r].pc = "begun" /\ question'[r].at = now'
         \/ /\ run'[r].status = "queued" /\ question'[r].pc = "sent"
            /\ question'[r].at = question[r].at /\ question'[r].done = now
            /\ question[r].pc = "begun" /\ now' = now
  <2>1. CASE Begin(r)
      BY <1>1, <2>1 DEF Begin, Refuse, NoQuestion, storeVars
  <2>2. CASE Send(r)
    <3>1. CASE Refuse(r) /\ UNCHANGED storeVars
        BY <1>1, <2>2, <3>1 DEF Refuse, NoQuestion, storeVars
    <3>2. CASE CreateRun(r)
               /\ question' = [question EXCEPT ![r] = [@ EXCEPT !.pc = "sent", !.done = now]]
      <4>1. run'[r].status = "queued" /\ \A q \in Runs : q # r => run'[q] = run[q]
          BY <1>1, <3>2 DEF CreateRun, NewRow
      <4>2. question'[r] = [question[r] EXCEPT !.pc = "sent", !.done = now]
          BY <1>1, <3>2
      <4>3. question[r] \in Question
          BY <1>1
      <4>4. /\ question'[r].pc = "sent" /\ question'[r].at = question[r].at
            /\ question'[r].done = now
          BY <4>2, <4>3 DEF Question
      <4>5. QED
          BY <1>1, <2>2, <3>2, <4>1, <4>4 DEF Send
    <3>3. QED
        BY <2>2, <3>1, <3>2 DEF Send
  <2>3. QED
      BY <2>1, <2>2 DEF Ask
<1>4. ASSUME NEW q \in Runs PROVE QuestionOK(q)' /\ AnswerOK(q)'
  <2>1. /\ question[q].at \in Nat /\ question[q].done \in Nat
        /\ answer[q].at \in Nat /\ answer[q].done \in Nat
      BY DEF RowInv, HistoryTypeOK, Question, Answer
  <2>2. CASE q # r
      BY <1>1, <1>3, <2>1, <2>2 DEF QuestionOK, AnswerOK
  <2>3. CASE q = r
    <3>1. run'[r].status # "completed"
        BY <1>2, <1>3
    <3>2. QuestionOK(r)'
        BY <1>1, <1>2, <1>3, <2>1, <2>3 DEF QuestionOK
    <3>3. QED
        BY <1>1, <1>2, <2>3, <3>1, <3>2 DEF AnswerOK
  <2>4. QED
      BY <2>2, <2>3
<1>5. ASSUME NEW p \in Runs, NEW q \in Runs PROVE AskedLater(p, q)'
  <2>1. AskedLater(p, q) /\ (answer[q].stored => answer[q].done <= now)
      BY <1>1 DEF RowInv, AnswerOK
  <2>2. CASE p # r
      BY <1>1, <1>3, <2>1, <2>2 DEF AskedLater, Active
  <2>3. CASE p = r
      BY <1>1, <1>2, <1>3, <2>1, <2>3 DEF AskedLater, Active, ActiveStatus
  <2>4. QED
      BY <2>2, <2>3
<1>6. ASSUME NEW h \in Tasks PROVE TaskOK(h)'
  <2>1. ASSUME task[h].pc # "idle"
        PROVE  /\ run'[task[h].run].status # "none"
               /\ run'[task[h].run].attempt >= run[task[h].run].attempt
               /\ question'[task[h].run].done = question[task[h].run].done
    <3>1. task[h].run \in Runs /\ run[task[h].run].status # "none"
        BY <2>1 DEF RowInv, HistoryTypeOK, Idle, Task, TaskOK
    <3>2. task[h].run # r /\ run[task[h].run].attempt \in Nat
        BY <1>1, <1>2, <3>1 DEF RunRow
    <3>3. QED
        BY <1>3, <3>1, <3>2
  <2>2. QED
      BY <1>1, <2>1, RestingTask
<1>7. QED
    BY <1>4, <1>5, <1>6

\* The step that stores an answer.
Stores(h) == Complete(h) /\ Owner(h)

LEMMA StoresEffect ==
    ASSUME RowInv, NEW h \in Tasks, Stores(h)
    PROVE  /\ task[h].run \in Runs /\ run[task[h].run].status = "processing"
           /\ run'[task[h].run].status = "completed"
           /\ run'[task[h].run].attempt = run[task[h].run].attempt
           /\ answer'[task[h].run].stored
           /\ answer'[task[h].run].at = task[h].at /\ answer'[task[h].run].done = now
           /\ question[task[h].run].done < task[h].at /\ task[h].at <= now
           /\ \A q \in Runs : q # task[h].run => run'[q] = run[q] /\ answer'[q] = answer[q]
           /\ question' = question /\ now' = now
<1>1. task[h].run \in Runs
    BY DEF Stores, Complete, RowInv, HistoryTypeOK, Idle, Task
<1>2. run \in [Runs -> RunRow] /\ answer \in [Runs -> Answer]
    BY DEF RowInv, HistoryTypeOK, StoreTypeOK
<1>3. /\ run[task[h].run].status = "processing"
      /\ run' = [run EXCEPT ![task[h].run] = Transition(@, "completed", "none")]
    BY DEF Stores, Complete, Owner, Owns, CompleteRun
<1>4. PICK proposal \in BOOLEAN : StoreAnswer(h, proposal)
    BY DEF Stores, Complete
<1>5. question[task[h].run].done < task[h].at /\ task[h].at <= now
    BY DEF RowInv, TaskOK, Stores, Complete
<1>6. question' = question /\ now' = now
    BY DEF Stores, Complete
<1>7. QED
    BY <1>1, <1>2, <1>3, <1>4, <1>5, <1>6 DEF Transition, StoreAnswer

LEMMA StoresKeepsRows ==
    ASSUME RowInv, HistoryTypeOK', NEW h \in Tasks, Stores(h)
    PROVE  /\ \A q \in Runs : QuestionOK(q)' /\ AnswerOK(q)'
           /\ \A p, q \in Runs : AskedLater(p, q)'
           /\ \A g \in Tasks : TaskOK(g)'
<1>r. PICK r \in Runs : r = task[h].run
    BY StoresEffect
<1>1. /\ r \in Runs /\ run[r].status = "processing"
      /\ run'[r].status = "completed" /\ run'[r].attempt = run[r].attempt
      /\ answer'[r].stored /\ answer'[r].at = task[h].at /\ answer'[r].done = now
      /\ question[r].done < task[h].at /\ task[h].at <= now
      /\ \A q \in Runs : q # r => run'[q] = run[q] /\ answer'[q] = answer[q]
      /\ question' = question /\ now' = now
    BY <1>r, StoresEffect
<1>2. \A q \in Runs : QuestionOK(q) /\ AnswerOK(q)
    BY DEF RowInv
<1>3. ASSUME NEW q \in Runs PROVE QuestionOK(q)' /\ AnswerOK(q)'
  <2>1. CASE q # r
      BY <1>1, <1>2, <2>1 DEF QuestionOK, AnswerOK
  <2>2. CASE q = r
    <3>1. QuestionOK(r)'
        BY <1>1, <1>2 DEF QuestionOK
    <3>2. AnswerOK(r)'
      <4>1. answer'[r].stored <=> run'[r].status = "completed"
          BY <1>1
      <4>2. question[r].done < answer'[r].at /\ answer'[r].at <= answer'[r].done
          BY <1>1
      <4>3. answer'[r].done <= now'
          BY <1>1 DEF RowInv, HistoryTypeOK
      <4>4. QED
          BY <1>1, <4>1, <4>2, <4>3 DEF AnswerOK
    <3>3. QED
        BY <2>2, <3>1, <3>2
  <2>3. QED
      BY <2>1, <2>2
<1>4. ASSUME NEW p \in Runs, NEW q \in Runs PROVE AskedLater(p, q)'
  <2>1. SUFFICES ASSUME Active(p)', SessionOf[p] = SessionOf[q], answer'[q].stored
                 PROVE  answer'[q].done <= question'[p].done
      BY DEF AskedLater
  <2>2. p # r /\ Active(p)
      BY <1>1, <2>1 DEF Active, ActiveStatus
  <2>3. q # r
      BY <1>1, <2>1, <2>2 DEF RowInv, StoreInv, SlotExclusive, Active, ActiveStatus
  <2>4. AskedLater(p, q)
      BY DEF RowInv
  <2>5. QED
      BY <1>1, <2>1, <2>2, <2>3, <2>4 DEF AskedLater
<1>5. ASSUME NEW g \in Tasks PROVE TaskOK(g)'
  <2>1. CASE g = h
      BY <2>1, MovedTask DEF Stores
  <2>2. CASE g # h
    <3>1. task'[g] = task[g] /\ now' >= now
        BY <2>2, MovedTask DEF Stores
    <3>2. ASSUME task[g].pc # "idle"
          PROVE  /\ run'[task[g].run].status # "none"
                 /\ run'[task[g].run].attempt >= run[task[g].run].attempt
                 /\ question'[task[g].run].done = question[task[g].run].done
      <4>1. task[g].run \in Runs /\ run[task[g].run].status # "none"
          BY <3>2 DEF RowInv, HistoryTypeOK, Idle, Task, TaskOK
      <4>2. run[task[g].run].attempt \in Nat
          BY <4>1 DEF RowInv, HistoryTypeOK, StoreTypeOK, RunRow
      <4>3. QED
          BY <1>1, <4>1, <4>2
    <3>3. QED
        BY <3>1, <3>2, RestingTask
  <2>3. QED
      BY <2>1, <2>2
<1>6. QED
    BY <1>3, <1>4, <1>5

LEMMA RowStep == RowInv /\ [HistoryNext]_historyVars => RowInv'
<1> SUFFICES ASSUME RowInv, [HistoryNext]_historyVars PROVE RowInv'
    OBVIOUS
<1>1. HistoryTypeOK /\ HistoryTypeOK' /\ now \in Nat /\ now' \in Nat
  <2>1. HistoryTypeOK /\ HistoryTypeOK'
      BY HistoryTypeStep DEF RowInv
  <2>2. QED
      BY <2>1 DEF HistoryTypeOK
<1>2. StoreInv'
    BY <1>1, HistoryRefinesStore, StoreStep DEF RowInv
<1>3. ASSUME NEW r \in Runs, Ask(r) PROVE RowInv'
    BY <1>1, <1>2, <1>3, AskKeepsRows DEF RowInv
<1>4. ASSUME NEW h \in Tasks, Stores(h) PROVE RowInv'
    BY <1>1, <1>2, <1>4, StoresKeepsRows DEF RowInv
<1>5. ASSUME NEW h \in Tasks,
             \/ Load(h) \/ Respond(h) \/ Fail(h) \/ Die(h)
             \/ \E r \in Runs : Claim(h, r)
             \/ Complete(h) /\ ~Owner(h)
      PROVE  RowInv'
  <2>1. QuietRows /\ question' = question /\ answer' = answer
      BY <1>1, <1>5, QuietTask
  <2>2. TaskOK(h)' /\ now' >= now /\ \A g \in Tasks : g # h => task'[g] = task[g]
      BY <1>1, <1>5, MovedTask
  <2>3. ASSUME NEW g \in Tasks, g # h PROVE TaskOK(g)'
    <3>1. task'[g] = task[g]
        BY <2>2, <2>3
    <3>2. task[g].pc # "idle" => task[g].run \in Runs /\ run[task[g].run].status # "none"
        BY DEF RowInv, HistoryTypeOK, Idle, Task, TaskOK
    <3>3. QED
        BY <1>1, <2>1, <2>2, <3>1, <3>2, RestingTask DEF QuietRows
  <2>4. QED
      BY <1>1, <1>2, <2>1, <2>2, <2>3, QuietKeepsRows DEF RowInv
<1>6. CASE Elsewhere \/ UNCHANGED historyVars
  <2>1. /\ QuietRows
        /\ question' = question /\ answer' = answer /\ task' = task /\ now' = now
      BY <1>1, <1>6, QuietElsewhere
  <2>2. now' >= now
      BY <1>1, <2>1
  <2>3. ASSUME NEW g \in Tasks PROVE TaskOK(g)'
    <3>1. task[g].pc # "idle" => task[g].run \in Runs /\ run[task[g].run].status # "none"
        BY DEF RowInv, HistoryTypeOK, Idle, Task, TaskOK
    <3>2. QED
        BY <1>1, <2>1, <2>2, <3>1, RestingTask DEF QuietRows
  <2>4. QED
      BY <1>1, <1>2, <2>1, <2>2, <2>3, QuietKeepsRows DEF RowInv
<1>7. QED
    BY <1>3, <1>4, <1>5, <1>6 DEF HistoryNext, Work, Stores

LEMMA RowInit == HistoryInit => RowInv
<1> SUFFICES ASSUME HistoryInit PROVE RowInv
    OBVIOUS
<1>1. HistoryTypeOK /\ StoreInv
    BY HistoryInitTypes, StoreInitInv DEF HistoryInit
<1>2. ASSUME NEW r \in Runs
      PROVE  /\ question[r].pc = "new" /\ ~answer[r].stored
             /\ run[r].status = "none"
    BY DEF HistoryInit, NoQuestion, NoAnswer, StoreInit
<1>3. ASSUME NEW h \in Tasks PROVE task[h].pc = "idle"
    BY DEF HistoryInit, Idle
<1>4. QED
    BY <1>1, <1>2, <1>3
    DEF RowInv, QuestionOK, AnswerOK, TaskOK, AskedLater, Active, ActiveStatus

-----------------------------------------------------------------------------
(* Histories *)

\* A message is stored no earlier than its created_at.
LEMMA StoredLater ==
    ASSUME RowInv, NEW m \in Messages, Stored(m)
    PROVE  CreatedAt(m) \in Nat /\ DoneAt(m) \in Nat /\ CreatedAt(m) <= DoneAt(m)
<1>1. m[2] \in Runs
    BY DEF Messages
<1>2. /\ question[m[2]] \in Question /\ answer[m[2]] \in Answer
      /\ QuestionOK(m[2]) /\ AnswerOK(m[2])
    BY <1>1 DEF RowInv, HistoryTypeOK
<1>3. CASE m[1] = "user"
    BY <1>2, <1>3 DEF Stored, CreatedAt, DoneAt, QuestionOK, Question
<1>4. CASE m[1] # "user"
    BY <1>2, <1>4 DEF Stored, CreatedAt, DoneAt, AnswerOK, Answer
<1>5. QED
    BY <1>3, <1>4

\* An answer comes after its question, also in the order of the messages.
LEMMA AnswerAfterQuestion ==
    ASSUME RowInv, NEW r \in Runs, answer[r].stored
    PROVE  question[r].pc = "sent" /\ question[r].at < answer[r].at
<1>1. question[r] \in Question /\ answer[r] \in Answer /\ QuestionOK(r) /\ AnswerOK(r)
    BY DEF RowInv, HistoryTypeOK
<1>2. question[r].pc = "sent"
    BY <1>1 DEF QuestionOK, AnswerOK
<1>3. QED
    BY <1>1, <1>2 DEF QuestionOK, AnswerOK, Question, Answer

\* So a history with an answer has the question as well.
LEMMA HistoryHasQuestions ==
    ASSUME RowInv, NEW r \in Runs, NEW q \in Runs, question[r].pc = "sent",
           <<"assistant", q>> \in History(r)
    PROVE  <<"user", q>> \in History(r)
<1>1. answer[q].stored /\ SessionOf[q] = SessionOf[r] /\ answer[q].at < question[r].at
    BY DEF History, InSession, Stored, Precedes, CreatedAt
<1>2. question[q].pc = "sent" /\ question[q].at < answer[q].at
    BY <1>1, AnswerAfterQuestion
<1>3. question[q].at \in Nat /\ question[r].at \in Nat /\ answer[q].at \in Nat
    BY DEF RowInv, HistoryTypeOK, Question, Answer
<1>4. <<"user", q>> \in Messages
    BY DEF Messages
<1>5. QED
    BY <1>1, <1>2, <1>3, <1>4 DEF History, InSession, Stored, Precedes, CreatedAt

\* What the history of run r depends on.
MessagesKept(r) ==
    /\ question'[r] = question[r]
    /\ \A q \in Runs : SessionOf[q] = SessionOf[r] =>
          /\ answer'[q] = answer[q]
          /\ question'[q].pc = "sent" <=> question[q].pc = "sent"
          /\ question[q].pc = "sent" => question'[q] = question[q]

LEMMA SameHistory ==
    ASSUME NEW r \in Runs, MessagesKept(r)
    PROVE  History(r)' = History(r) /\ BaseFor(r)' = BaseFor(r)
<1>1. ASSUME NEW m \in Messages, SessionOf[m[2]] = SessionOf[r]
      PROVE  /\ Stored(m)' <=> Stored(m)
             /\ Stored(m) => CreatedAt(m)' = CreatedAt(m)
  <2>1. m[2] \in Runs
      BY DEF Messages
  <2>2. QED
      BY <1>1, <2>1 DEF MessagesKept, Stored, CreatedAt
<1>2. CreatedAt(<<"user", r>>)' = CreatedAt(<<"user", r>>)
    BY DEF MessagesKept, CreatedAt
<1>3. History(r)' = History(r)
    BY <1>1, <1>2 DEF History, InSession, Precedes
<1>4. \A q \in Runs : <<"assistant", q>> \in History(r) => answer'[q] = answer[q]
    BY DEF MessagesKept, History, InSession
<1>5. LastProposal(History(r))' = LastProposal(History(r))
    BY <1>3, <1>4 DEF LastProposal, ProposalsIn
<1>6. QED
    BY <1>3, <1>5 DEF BaseFor, MessagesKept

\* What holds of a task that read the history of run r.
Seen(h, r) ==
    \A m \in InSession(r) : DoneAt(m) < question[r].at => m \in task[h].history

Current(h, r) == task[h].history = History(r) /\ task[h].base = BaseFor(r)

WithQuestions(h) ==
    \A q \in Runs : <<"assistant", q>> \in task[h].history => <<"user", q>> \in task[h].history

Shown(h) ==
    /\ WithQuestions(h)
    /\ \A r \in Runs : HasContext(h) /\ task[h].run = r =>
          Seen(h, r) /\ (Active(r) => Current(h, r))

HistoryInv ==
    /\ RowInv
    /\ AnswersInOrder
    /\ \A h \in Tasks : Shown(h)

\* A task that does not move still shows what it should: what is stored since is
\* stored after the question, and changes nothing while the run is active.
LEMMA StillShown ==
    ASSUME RowInv, NEW h \in Tasks, Shown(h), task'[h] = task[h],
           HasContext(h) =>
              /\ question'[task[h].run] = question[task[h].run]
              /\ \A m \in Messages :
                    Stored(m)' => \/ Stored(m) /\ DoneAt(m)' = DoneAt(m)
                                  \/ DoneAt(m)' = now
              /\ Active(task[h].run)' =>
                    Active(task[h].run) /\ MessagesKept(task[h].run)
    PROVE  Shown(h)'
<1>1. WithQuestions(h)'
    BY DEF Shown, WithQuestions
<1>2. SUFFICES ASSUME NEW r \in Runs, HasContext(h), task[h].run = r
               PROVE  /\ Seen(h, r)'
                      /\ Active(r)' => Current(h, r)'
    BY <1>1 DEF Shown, HasContext
<1>3. Seen(h, r) /\ (Active(r) => Current(h, r))
    BY <1>2 DEF Shown
<1>4. question'[r] = question[r] /\ question[r].at \in Nat /\ now \in Nat
    BY <1>2 DEF RowInv, HistoryTypeOK, Question
<1>5. question[r].at <= now
    BY <1>2 DEF RowInv, TaskOK, QuestionOK, HasContext
<1>6. Seen(h, r)'
  <2>1. SUFFICES ASSUME NEW m \in Messages, Stored(m)', SessionOf[m[2]] = SessionOf[r],
                        DoneAt(m)' < question'[r].at
                 PROVE  m \in task'[h].history
      BY DEF Seen, InSession
  <2>2. Stored(m) /\ DoneAt(m)' = DoneAt(m)
      BY <1>2, <1>4, <1>5, <2>1
  <2>3. QED
      BY <1>3, <1>4, <2>1, <2>2 DEF Seen, InSession
<1>7. ASSUME Active(r)' PROVE Current(h, r)'
  <2>1. Active(r) /\ MessagesKept(r)
      BY <1>2, <1>7
  <2>2. QED
      BY <1>3, <2>1, SameHistory DEF Current
<1>8. QED
    BY <1>6, <1>7

\* Steps that store no message.
LEMMA QuietShows ==
    ASSUME RowInv, QuietRows, question' = question, answer' = answer,
           NEW h \in Tasks, Shown(h), task'[h] = task[h]
    PROVE  Shown(h)'
<1>1. ASSUME HasContext(h), Active(task[h].run)'
      PROVE  Active(task[h].run) /\ MessagesKept(task[h].run)
  <2>1. task[h].run \in Runs
      BY <1>1 DEF HasContext, RowInv, HistoryTypeOK, Idle, Task
  <2>2. QED
      BY <1>1, <2>1 DEF QuietRows, Active, MessagesKept
<1>2. \A m \in Messages : Stored(m)' => Stored(m) /\ DoneAt(m)' = DoneAt(m)
    BY DEF Stored, DoneAt
<1>3. QED
    BY <1>1, <1>2, StillShown

\* The step of a task that stores nothing.
LEMMA TaskShows ==
    ASSUME RowInv, NEW h \in Tasks, Shown(h),
           \/ Load(h) \/ Respond(h) \/ Fail(h) \/ Die(h) \/ Complete(h)
           \/ \E r \in Runs : Claim(h, r)
    PROVE  Shown(h)'
<1>t. task \in [Tasks -> Task \union {Idle}]
    BY DEF RowInv, HistoryTypeOK
<1>1. CASE Fail(h) \/ Die(h) \/ Complete(h)
  <2>1. task'[h] = Idle
      BY <1>t, <1>1 DEF Fail, Die, Complete, Finish
  <2>2. QED
      BY <2>1 DEF Shown, WithQuestions, HasContext, Idle
<1>2. ASSUME NEW r \in Runs, Claim(h, r) PROVE Shown(h)'
  <2>1. task'[h].pc = "claimed" /\ task'[h].history = {}
      BY <1>t, <1>2 DEF Claim, Idle
  <2>2. QED
      BY <2>1 DEF Shown, WithQuestions, HasContext
<1>3. CASE Load(h)
  <2>1. task[h] \in Task
      BY <1>t, <1>3 DEF Load, Idle
  <2>2. PICK r \in Runs : r = task[h].run
      BY <2>1 DEF Task
  <2>3. /\ task'[h].pc = "calling" /\ task'[h].run = r
        /\ task'[h].history = History(r) /\ task'[h].base = BaseFor(r)
        /\ question' = question /\ answer' = answer
      BY <1>t, <1>3, <2>1, <2>2 DEF Load, Task
  <2>4. History(r)' = History(r) /\ BaseFor(r)' = BaseFor(r)
      BY <2>3, SameHistory DEF MessagesKept
  <2>5. question[r].pc = "sent"
      BY <1>3, <2>2 DEF RowInv, TaskOK, QuestionOK, Load
  <2>6. WithQuestions(h)'
      BY <2>3, <2>5, HistoryHasQuestions DEF WithQuestions
  <2>7. Seen(h, r)'
    <3>1. SUFFICES ASSUME NEW m \in InSession(r), DoneAt(m) < question[r].at
                   PROVE  m \in History(r)
        BY <2>3 DEF Seen, InSession, Stored, DoneAt
    <3>2. m \in Messages /\ Stored(m)
        BY DEF InSession
    <3>3. CreatedAt(m) \in Nat /\ DoneAt(m) \in Nat /\ CreatedAt(m) <= DoneAt(m)
        BY <3>2, StoredLater
    <3>4. question[r].at \in Nat
        BY DEF RowInv, HistoryTypeOK, Question
    <3>5. CreatedAt(m) < question[r].at
        BY <3>1, <3>3, <3>4
    <3>6. CreatedAt(<<"user", r>>) = question[r].at
        BY DEF CreatedAt
    <3>7. QED
        BY <3>5, <3>6 DEF History, Precedes
  <2>8. QED
      BY <2>3, <2>4, <2>6, <2>7 DEF Shown, Current
<1>4. CASE Respond(h)
  <2>1. task[h] \in Task
      BY <1>t, <1>4 DEF Respond, Idle
  <2>2. PICK r \in Runs : r = task[h].run
      BY <2>1 DEF Task
  <2>3. /\ task'[h].run = r /\ task'[h].attempt = task[h].attempt
        /\ task'[h].history = task[h].history /\ task'[h].base = task[h].base
        /\ question' = question /\ answer' = answer /\ run' = run
      BY <1>t, <1>4, <2>1, <2>2 DEF Respond, Task, storeVars
  <2>4. Seen(h, r) /\ (Active(r) => Current(h, r)) /\ WithQuestions(h)
      BY <1>4, <2>2 DEF Shown, HasContext, Respond
  <2>5. History(r)' = History(r) /\ BaseFor(r)' = BaseFor(r)
      BY <2>3, SameHistory DEF MessagesKept
  <2>6. Seen(h, r)' /\ WithQuestions(h)'
      BY <2>3, <2>4 DEF Seen, WithQuestions, InSession, Stored, DoneAt
  <2>7. Active(r)' => Current(h, r)'
      BY <2>3, <2>4, <2>5 DEF Active, Current
  <2>8. QED
      BY <2>3, <2>6, <2>7 DEF Shown
<1>5. QED
    BY <1>1, <1>2, <1>3, <1>4

\* A step of a request: a question that is stored is stored now, and not while
\* a run of its conversation is active.
LEMMA AskShows ==
    ASSUME RowInv, NEW r \in Runs, Ask(r), NEW h \in Tasks, Shown(h)
    PROVE  Shown(h)'
<1>1. answer' = answer /\ task' = task /\ question \in [Runs -> Question]
      /\ run \in [Runs -> RunRow]
    BY DEF RowInv, HistoryTypeOK, StoreTypeOK, Ask, Begin, Send
<1>2. question[r].pc \in {"new", "begun"} /\ run[r].status = "none"
    BY DEF Ask, Begin, Send, QuestionOK, RowInv
<1>3. \A q \in Runs : q # r => question'[q] = question[q] /\ run'[q] = run[q]
    BY <1>1 DEF Ask, Begin, Send, Refuse, CreateRun, storeVars
<1>4. \/ question'[r].pc \in {"begun", "refused"}
      \/ question'[r].done = now /\ SlotFree(SessionOf[r])
  <2>1. CASE Begin(r)
      BY <1>1, <2>1 DEF Begin, Refuse, NoQuestion
  <2>2. CASE Refuse(r)
      BY <1>1, <2>2 DEF Refuse, NoQuestion
  <2>3. CASE CreateRun(r)
             /\ question' = [question EXCEPT ![r] = [@ EXCEPT !.pc = "sent", !.done = now]]
    <3>1. question[r] \in Question
        BY <1>1
    <3>2. question'[r].done = now
        BY <1>1, <2>3, <3>1 DEF Question
    <3>3. QED
        BY <2>3, <3>2 DEF CreateRun, Accepts
  <2>4. QED
      BY <2>1, <2>2, <2>3 DEF Ask, Send
<1>5. \A m \in Messages : Stored(m)' => \/ Stored(m) /\ DoneAt(m)' = DoneAt(m)
                                       \/ DoneAt(m)' = now
  <2>1. SUFFICES ASSUME NEW m \in Messages, Stored(m)'
                 PROVE  (Stored(m) /\ DoneAt(m)' = DoneAt(m)) \/ DoneAt(m)' = now
      OBVIOUS
  <2>2. m[2] \in Runs
      BY DEF Messages
  <2>3. QED
      BY <1>1, <1>3, <1>4, <2>1, <2>2 DEF Stored, DoneAt
<1>6. ASSUME HasContext(h)
      PROVE  /\ question'[task[h].run] = question[task[h].run]
             /\ Active(task[h].run)' =>
                   Active(task[h].run) /\ MessagesKept(task[h].run)
  <2>1. PICK p \in Runs : p = task[h].run
      BY <1>6 DEF HasContext, RowInv, HistoryTypeOK, Task, Idle
  <2>2. p # r
      BY <1>2, <1>6, <2>1 DEF HasContext, RowInv, TaskOK
  <2>3. question'[p] = question[p] /\ run'[p] = run[p]
      BY <1>3, <2>2
  <2>4. ASSUME Active(p) PROVE MessagesKept(p)
    <3>1. question'[r].pc = "sent" => SessionOf[r] # SessionOf[p]
        BY <1>4, <2>4 DEF SlotFree
    <3>2. QED
        BY <1>1, <1>2, <1>3, <2>3, <3>1, <1>4 DEF MessagesKept
  <2>5. QED
      BY <1>1, <2>1, <2>3, <2>4 DEF Active
<1>7. QED
    BY <1>1, <1>5, <1>6, StillShown

\* An answer that is stored is stored now, and while its run is active no other
\* run of its conversation is.
LEMMA StoresShows ==
    ASSUME RowInv, NEW h \in Tasks, Stores(h), NEW g \in Tasks, g # h, Shown(g)
    PROVE  Shown(g)'
<1>r. PICK r \in Runs : r = task[h].run
    BY StoresEffect
<1>1. /\ run[r].status = "processing" /\ run'[r].status = "completed"
      /\ answer'[r].stored /\ answer'[r].done = now
      /\ \A q \in Runs : q # r => run'[q] = run[q] /\ answer'[q] = answer[q]
      /\ question' = question
    BY <1>r, StoresEffect
<1>2. task'[g] = task[g]
    BY DEF Stores, Complete, Finish, RowInv, HistoryTypeOK
<1>3. \A m \in Messages : Stored(m)' => \/ Stored(m) /\ DoneAt(m)' = DoneAt(m)
                                       \/ DoneAt(m)' = now
  <2>1. SUFFICES ASSUME NEW m \in Messages, Stored(m)'
                 PROVE  (Stored(m) /\ DoneAt(m)' = DoneAt(m)) \/ DoneAt(m)' = now
      OBVIOUS
  <2>2. m[2] \in Runs
      BY DEF Messages
  <2>3. QED
      BY <1>1, <2>1, <2>2 DEF Stored, DoneAt
<1>4. ASSUME HasContext(g), Active(task[g].run)'
      PROVE  Active(task[g].run) /\ MessagesKept(task[g].run)
  <2>1. PICK p \in Runs : p = task[g].run
      BY <1>4 DEF HasContext, RowInv, HistoryTypeOK, Task, Idle
  <2>2. run'[p].status \in ActiveStatus
      BY <1>2, <1>4, <2>1 DEF Active
  <2>3. p # r /\ run'[p] = run[p]
      BY <1>1, <2>2 DEF ActiveStatus
  <2>4. SessionOf[p] # SessionOf[r]
      BY <1>1, <2>2, <2>3 DEF RowInv, StoreInv, SlotExclusive, Active, ActiveStatus
  <2>5. MessagesKept(p)
      BY <1>1, <2>4 DEF MessagesKept
  <2>6. QED
      BY <2>1, <2>2, <2>3, <2>5 DEF Active
<1>5. QED
    BY <1>1, <1>2, <1>3, <1>4, StillShown

\* Only an answer that is stored could upset the order of the answers.
LEMMA OrderStep ==
    ASSUME RowInv, AnswersInOrder, [HistoryNext]_historyVars
    PROVE  AnswersInOrder'
<1>1. CASE answer' = answer
    BY <1>1 DEF AnswersInOrder
<1>2. ASSUME NEW h \in Tasks, Stores(h) PROVE AnswersInOrder'
  <2>r. PICK r \in Runs : r = task[h].run
      BY <1>2, StoresEffect
  <2>1. /\ run[r].status = "processing" /\ answer'[r].at = task[h].at
        /\ question[r].done < task[h].at
        /\ \A q \in Runs : q # r => answer'[q] = answer[q]
      BY <1>2, <2>r, StoresEffect
  <2>2. ASSUME NEW q \in Runs, q # r, answer'[q].stored, SessionOf[q] = SessionOf[r]
        PROVE  answer'[q].done < answer'[r].at
    <3>1. answer[q].done <= question[r].done
        BY <2>1, <2>2 DEF RowInv, AskedLater, Active, ActiveStatus
    <3>2. answer[q].done \in Nat /\ question[r].done \in Nat /\ task[h].at \in Nat
        BY <1>2 DEF RowInv, HistoryTypeOK, Answer, Question, Task, Idle, Stores, Complete
    <3>3. QED
        BY <2>1, <2>2, <3>1, <3>2
  <2>3. QED
      BY <2>1, <2>2 DEF AnswersInOrder
<1>3. ASSUME NEW h \in Tasks, Complete(h) /\ ~Owner(h) PROVE answer' = answer
    BY <1>3 DEF Complete
<1>4. ASSUME NEW h \in Tasks, Load(h) \/ Respond(h) \/ Fail(h) \/ Die(h)
      PROVE  answer' = answer
    BY <1>4 DEF Load, Respond, Fail, Die
<1>5. ASSUME \/ \E r \in Runs : Ask(r)
             \/ \E h \in Tasks, r \in Runs : Claim(h, r)
             \/ Elsewhere \/ UNCHANGED historyVars
      PROVE  answer' = answer
    BY <1>5 DEF Ask, Begin, Send, Claim, Elsewhere, historyVars
<1>6. QED
    BY <1>1, <1>2, <1>3, <1>4, <1>5 DEF HistoryNext, Work, Stores

LEMMA ShownStep ==
    ASSUME RowInv, [HistoryNext]_historyVars, \A h \in Tasks : Shown(h)
    PROVE  \A h \in Tasks : Shown(h)'
<1>1. HistoryTypeOK
    BY DEF RowInv
<1>2. SUFFICES ASSUME NEW h \in Tasks PROVE Shown(h)'
    OBVIOUS
<1>3. ASSUME NEW r \in Runs, Ask(r) PROVE Shown(h)'
    BY <1>3, AskShows
<1>4. ASSUME NEW g \in Tasks,
             \/ Load(g) \/ Respond(g) \/ Fail(g) \/ Die(g) \/ Complete(g)
             \/ \E r \in Runs : Claim(g, r)
      PROVE  Shown(h)'
  <2>1. CASE g = h
      BY <1>4, <2>1, TaskShows
  <2>2. CASE g # h /\ Stores(g)
      BY <2>2, StoresShows
  <2>3. CASE g # h /\ ~Stores(g)
    <3>1. QuietRows /\ question' = question /\ answer' = answer
        BY <1>1, <1>4, <2>3, QuietTask DEF Stores
    <3>2. HistoryTypeOK'
        BY <1>1, HistoryTypeStep
    <3>3. task'[h] = task[h]
        BY <1>4, <2>3, <3>2, MovedTask
    <3>4. QED
        BY <3>1, <3>3, QuietShows
  <2>4. QED
      BY <2>1, <2>2, <2>3
<1>5. CASE Elsewhere \/ UNCHANGED historyVars
    BY <1>1, <1>5, QuietElsewhere, QuietShows
<1>6. QED
    BY <1>3, <1>4, <1>5 DEF HistoryNext, Work

-----------------------------------------------------------------------------
(* The theorems *)

\* All of the above holds in every state.
THEOREM HistoryInvariant == HistorySpec => []HistoryInv
<1>1. HistoryInit => HistoryInv
  <2>1. SUFFICES ASSUME HistoryInit PROVE HistoryInv
      OBVIOUS
  <2>2. RowInv
      BY <2>1, RowInit
  <2>3. AnswersInOrder
      BY <2>1 DEF HistoryInit, NoAnswer, AnswersInOrder
  <2>4. ASSUME NEW h \in Tasks PROVE Shown(h)
      BY <2>1 DEF HistoryInit, Idle, Shown, WithQuestions, HasContext
  <2>5. QED
      BY <2>2, <2>3, <2>4 DEF HistoryInv
<1>2. HistoryInv /\ [HistoryNext]_historyVars => HistoryInv'
    BY RowStep, OrderStep, ShownStep DEF HistoryInv
<1>3. QED
    BY <1>1, <1>2, PTL DEF HistorySpec

\* Rows, messages and tasks keep their types.
THEOREM HistoryTypeInvariant == HistorySpec => []HistoryTypeOK
<1>1. HistoryInv => HistoryTypeOK
    BY DEF HistoryInv, RowInv
<1>2. QED
    BY <1>1, HistoryInvariant, PTL

\* The history of an attempt has all that was stored when the message was sent
\* (message/repository.py, list_before_for_editing).
THEOREM HistoriesAreComplete == HistorySpec => []NothingSeenIsLeftOut
<1>1. HistoryInv => NothingSeenIsLeftOut
    BY DEF HistoryInv, RowInv, HistoryTypeOK, Task, Idle, HasContext, Shown, Seen,
           NothingSeenIsLeftOut
<1>2. QED
    BY <1>1, HistoryInvariant, PTL

\* Until a run has ended, all its attempts hold the history and the base that the
\* next one would read (processor.py, _load_context).
THEOREM ContextsStayCurrent == HistorySpec => []ContextIsCurrent
<1>1. HistoryInv => ContextIsCurrent
    BY DEF HistoryInv, RowInv, HistoryTypeOK, Task, Idle, HasContext, Shown, Current,
           ContextIsCurrent
<1>2. QED
    BY <1>1, HistoryInvariant, PTL

\* created_at orders the answers of a conversation as their commits do.
THEOREM AnswersAreOrdered == HistorySpec => []AnswersInOrder
<1>1. HistoryInv => AnswersInOrder
    BY DEF HistoryInv
<1>2. QED
    BY <1>1, HistoryInvariant, PTL

\* Answers come after their questions, in the rows and in every history.
THEOREM AnswersComeAfter == HistorySpec => []AnswersFollow
<1>1. HistoryInv => AnswersFollow
  <2>1. SUFFICES ASSUME HistoryInv PROVE AnswersFollow
      OBVIOUS
  <2>2. ASSUME NEW r \in Runs, answer[r].stored
        PROVE  Stored(<<"user", r>>) /\ Precedes(<<"user", r>>, <<"assistant", r>>)
      BY <2>1, <2>2, AnswerAfterQuestion DEF HistoryInv, Stored, Precedes, CreatedAt
  <2>3. QED
      BY <2>1, <2>2 DEF HistoryInv, Shown, WithQuestions, AnswersFollow
<1>2. QED
    BY <1>1, HistoryInvariant, PTL

\* Under the messages are the rows of RunStore: what is proved there of any
\* order of transactions holds here.
THEOREM HistoryImplementsStore == HistorySpec => StoreSpec
<1>1. HistoryInit => StoreInit
    BY DEF HistoryInit
<1>2. HistoryTypeOK /\ [HistoryNext]_historyVars => [StoreNext]_storeVars
    BY HistoryRefinesStore
<1>3. QED
    BY <1>1, <1>2, HistoryTypeInvariant, PTL DEF HistorySpec, StoreSpec

-----------------------------------------------------------------------------
(* Messages are only added *)

\* Nothing rewrites a message that is stored.
Kept(r) ==
    /\ question[r].pc = "sent" => question'[r] = question[r]
    /\ answer[r].stored => answer'[r] = answer[r]

\* Nothing changes the history and the base that the attempts at an active run read.
SameContext(r) ==
    Active(r) /\ Active(r)' => History(r)' = History(r) /\ BaseFor(r)' = BaseFor(r)

MessagesStay  == [][\A r \in Runs : Kept(r)]_historyVars
ContextsStay  == [][\A r \in Runs : SameContext(r)]_historyVars

\* The step of a request stores its own message only, and none in the past of
\* an active run.
LEMMA AskAdds ==
    ASSUME RowInv, NEW q \in Runs, Ask(q), NEW r \in Runs
    PROVE  /\ Kept(r)
           /\ Active(r) /\ Active(r)' => MessagesKept(r)
<1>1. /\ question \in [Runs -> Question] /\ run \in [Runs -> RunRow]
      /\ answer' = answer
    BY DEF RowInv, HistoryTypeOK, StoreTypeOK, Ask, Begin, Send
<1>2. question[q].pc \in {"new", "begun"} /\ run[q].status = "none"
    BY DEF Ask, Begin, Send, QuestionOK, RowInv
<1>3. \A p \in Runs : p # q => question'[p] = question[p]
    BY <1>1 DEF Ask, Begin, Send, Refuse
<1>4. question'[q].pc = "sent" => SlotFree(SessionOf[q])
    BY <1>1 DEF Ask, Begin, Send, Refuse, NoQuestion, CreateRun, Accepts
<1>5. Kept(r)
    BY <1>1, <1>2, <1>3 DEF Kept
<1>6. ASSUME Active(r) PROVE MessagesKept(r)
  <2>1. r # q
      BY <1>2, <1>6 DEF Active, ActiveStatus
  <2>2. question'[q].pc = "sent" => SessionOf[q] # SessionOf[r]
      BY <1>4, <1>6 DEF SlotFree
  <2>3. QED
      BY <1>1, <1>2, <1>3, <2>1, <2>2 DEF MessagesKept
<1>7. QED
    BY <1>5, <1>6

\* So does the step of an attempt.
LEMMA StoresAdds ==
    ASSUME RowInv, NEW h \in Tasks, Stores(h), NEW r \in Runs
    PROVE  /\ Kept(r)
           /\ Active(r) /\ Active(r)' => MessagesKept(r)
<1>1. PICK q \in Runs : q = task[h].run
    BY StoresEffect
<1>2. /\ run[q].status = "processing" /\ run'[q].status = "completed"
      /\ \A p \in Runs : p # q => run'[p] = run[p] /\ answer'[p] = answer[p]
      /\ question' = question
    BY <1>1, StoresEffect
<1>3. ~answer[q].stored
    BY <1>2 DEF RowInv, AnswerOK
<1>4. ASSUME Active(r), Active(r)' PROVE SessionOf[r] # SessionOf[q]
  <2>1. r # q
      BY <1>2, <1>4 DEF Active, ActiveStatus
  <2>2. QED
      BY <1>2, <1>4, <2>1 DEF RowInv, StoreInv, SlotExclusive, Active, ActiveStatus
<1>5. QED
    BY <1>2, <1>3, <1>4 DEF Kept, MessagesKept

\* No other step stores anything.
LEMMA StepAdds ==
    ASSUME RowInv, [HistoryNext]_historyVars, NEW r \in Runs
    PROVE  Kept(r) /\ SameContext(r)
<1> DEFINE Adds == /\ Kept(r)
                   /\ Active(r) /\ Active(r)' => MessagesKept(r)
<1>1. HistoryTypeOK
    BY DEF RowInv
<1>2. question' = question /\ answer' = answer => Adds
    BY DEF Kept, MessagesKept
<1>3. ASSUME NEW q \in Runs, Ask(q) PROVE Adds
    BY <1>3, AskAdds
<1> HIDE DEF Adds
<1>4. ASSUME NEW h \in Tasks, Work(h) \/ \E q \in Runs : Claim(h, q) PROVE Adds
  <2>1. CASE Stores(h)
      BY <2>1, StoresAdds DEF Adds
  <2>2. CASE ~Stores(h)
      BY <1>1, <1>2, <1>4, <2>2, QuietTask DEF Work, Stores
  <2>3. QED
      BY <2>1, <2>2
<1>5. ASSUME Elsewhere \/ UNCHANGED historyVars PROVE Adds
    BY <1>1, <1>2, <1>5, QuietElsewhere
<1>6. Adds
    BY <1>3, <1>4, <1>5 DEF HistoryNext
<1>7. QED
    BY <1>6, SameHistory DEF SameContext, Adds

\* A conversation is append-only: nothing rewrites, dates back or removes a
\* message, and a proposal stays what it was (message/repository.py, create).
THEOREM MessagesAreKept == HistorySpec => MessagesStay
<1>1. HistoryInv /\ [HistoryNext]_historyVars => [\A r \in Runs : Kept(r)]_historyVars
    BY StepAdds DEF HistoryInv
<1>2. QED
    BY <1>1, HistoryInvariant, PTL DEF HistorySpec, MessagesStay

\* From the moment a message is sent until its run ends, every attempt at it
\* reads the same history and the same base, whatever others store meanwhile.  A
\* retry is not the same question for that: the text of the agent, which goes
\* with them to the model, may have changed (processor.py, _load_context).
THEOREM RetriesReadTheSame == HistorySpec => ContextsStay
<1>1. HistoryInv /\ [HistoryNext]_historyVars
          => [\A r \in Runs : SameContext(r)]_historyVars
    BY StepAdds DEF HistoryInv
<1>2. QED
    BY <1>1, HistoryInvariant, PTL DEF HistorySpec, ContextsStay

-----------------------------------------------------------------------------
(* What the model is asked to edit *)

OneOf(msgs, base) == base \subseteq ProposalsIn(msgs) /\ \A p, q \in base : p = q

\* What the user selected is a proposal that was there.
Selected(r) ==
    question[r].pc \in {"begun", "sent"} =>
        /\ \A q \in question[r].base :
              /\ answer[q].stored /\ answer[q].proposal
              /\ SessionOf[q] = SessionOf[r] /\ answer[q].at < question[r].at
        /\ \A p, q \in question[r].base : p = q

\* The model is asked to edit the prompt of the conversation or one proposal of
\* the history it is shown, and no other.
EditsShownProposal ==
    /\ \A r \in Runs : question[r].pc = "sent" => OneOf(History(r), BaseFor(r))
    /\ \A h \in Tasks : HasContext(h) => OneOf(task[h].history, task[h].base)

\* What a task edits is stored.
Edits(h) ==
    HasContext(h) => /\ OneOf(task[h].history, task[h].base)
                     /\ \A q \in task[h].base : answer[q].stored

\* The client can select what it has seen, which was stored before it asks.
LEMMA SelectedStep ==
    ASSUME RowInv, [HistoryNext]_historyVars, NEW r \in Runs, Selected(r)
    PROVE  Selected(r)'
<1>1. /\ question[r] \in Question /\ now \in Nat /\ question \in [Runs -> Question]
      /\ \A q \in Runs : answer[q] \in Answer
    BY DEF RowInv, HistoryTypeOK
<1>2. \A q \in Runs : answer[q].stored => answer'[q] = answer[q]
    BY StepAdds DEF Kept
<1>3. CASE /\ question'[r].at = question[r].at /\ question'[r].base = question[r].base
           /\ question[r].pc \in {"begun", "sent"}
  <2>1. question[r].base \subseteq Runs
      BY <1>1 DEF Question
  <2>2. QED
      BY <1>2, <1>3, <2>1 DEF Selected
<1>4. CASE Begin(r)
  <2>1. CASE Refuse(r)
      BY <1>1, <2>1 DEF Refuse, NoQuestion, Selected
  <2>2. ASSUME NEW base \in {{}} \union {{q} : q \in ProposalsIn(InSession(r))},
               question' = [question EXCEPT ![r] =
                    [NoQuestion EXCEPT !.pc = "begun", !.at = now', !.base = base]]
        PROVE  Selected(r)'
    <3>1. question'[r].base = base /\ question'[r].at = now + 1
        BY <1>1, <1>4, <2>2 DEF NoQuestion, Begin, StartTransaction
    <3>2. answer' = answer
        BY <1>4 DEF Begin
    <3>3. ASSUME NEW q \in base
          PROVE  /\ answer[q].stored /\ answer[q].proposal
                 /\ SessionOf[q] = SessionOf[r] /\ answer[q].at < now + 1
      <4>1. q \in Runs /\ answer[q].stored /\ answer[q].proposal
            /\ SessionOf[q] = SessionOf[r]
          BY <3>3 DEF ProposalsIn, InSession, Stored
      <4>2. answer[q].at \in Nat /\ answer[q].done \in Nat /\ AnswerOK(q)
          BY <1>1, <4>1 DEF RowInv, Answer
      <4>3. QED
          BY <1>1, <4>1, <4>2 DEF AnswerOK
    <3>4. QED
        BY <2>2, <3>1, <3>2, <3>3 DEF Selected
  <2>3. QED
      BY <1>4, <2>1, <2>2 DEF Begin
<1>5. CASE Send(r)
  <2>1. CASE Refuse(r)
      BY <1>1, <2>1 DEF Refuse, NoQuestion, Selected
  <2>2. CASE question' = [question EXCEPT ![r] = [@ EXCEPT !.pc = "sent", !.done = now]]
      BY <1>1, <1>3, <1>5, <2>2 DEF Send, Question
  <2>3. QED
      BY <1>5, <2>1, <2>2 DEF Send
<1>6. CASE question'[r] = question[r]
    BY <1>3, <1>6 DEF Selected
<1>7. question'[r] = question[r] \/ Begin(r) \/ Send(r)
  <2>1. ASSUME NEW q \in Runs, q # r, Ask(q) PROVE question'[r] = question[r]
      BY <1>1, <2>1 DEF Ask, Begin, Send, Refuse
  <2>2. ASSUME \/ \E h \in Tasks : Work(h) \/ \E q \in Runs : Claim(h, q)
               \/ Elsewhere \/ UNCHANGED historyVars
        PROVE  question' = question
      BY <2>2 DEF Work, Load, Respond, Complete, Fail, Die, Claim, Elsewhere, historyVars
  <2>3. QED
      BY <2>1, <2>2 DEF HistoryNext, Ask
<1>8. QED
    BY <1>4, <1>5, <1>6, <1>7

\* The latest proposal of a history is one, and what was selected is in it.
LEMMA BaseIsShown ==
    ASSUME RowInv, AnswersInOrder, NEW r \in Runs, Selected(r), question[r].pc = "sent"
    PROVE  OneOf(History(r), BaseFor(r))
<1>1. CASE question[r].base # {}
  <2>1. ASSUME NEW q \in question[r].base PROVE q \in ProposalsIn(History(r))
    <3>1. q \in Runs
        BY DEF RowInv, HistoryTypeOK, Question
    <3>2. <<"assistant", q>> \in History(r)
        BY <3>1 DEF Selected, History, InSession, Messages, Stored, Precedes, CreatedAt
    <3>3. QED
        BY <3>1, <3>2 DEF Selected, ProposalsIn
  <2>2. QED
      BY <1>1, <2>1 DEF Selected, OneOf, BaseFor
<1>2. CASE question[r].base = {}
  <2>1. ASSUME NEW p \in LastProposal(History(r)), NEW q \in LastProposal(History(r))
        PROVE  p = q
    <3>1. /\ p \in Runs /\ q \in Runs /\ answer[p].stored /\ answer[q].stored
          /\ SessionOf[p] = SessionOf[q]
          /\ answer[p].at <= answer[q].at /\ answer[q].at <= answer[p].at
        BY DEF LastProposal, ProposalsIn, History, InSession, Stored
    <3>2. /\ answer[p].at \in Nat /\ answer[p].done \in Nat /\ AnswerOK(p)
          /\ answer[q].at \in Nat /\ answer[q].done \in Nat /\ AnswerOK(q)
        BY <3>1 DEF RowInv, HistoryTypeOK, Answer
    <3>3. QED
        BY <3>1, <3>2 DEF AnswerOK, AnswersInOrder
  <2>2. QED
      BY <1>2, <2>1 DEF OneOf, BaseFor, LastProposal
<1>3. QED
    BY <1>1, <1>2

\* An attempt edits what it has read.
LEMMA EditsStep ==
    ASSUME RowInv, AnswersInOrder, \A r \in Runs : Selected(r), [HistoryNext]_historyVars,
           NEW h \in Tasks, Edits(h)
    PROVE  Edits(h)'
<1>1. /\ task \in [Tasks -> Task \union {Idle}] /\ answer \in [Runs -> Answer]
      /\ HistoryTypeOK
    BY DEF RowInv, HistoryTypeOK
<1>2. \A q \in Runs : answer[q].stored => answer'[q] = answer[q]
    BY StepAdds DEF Kept
<1>3. CASE /\ HasContext(h)
           /\ task'[h].history = task[h].history /\ task'[h].base = task[h].base
  <2>1. task[h].base \subseteq Runs
      BY <1>1, <1>3 DEF HasContext, Task, Idle
  <2>2. QED
      BY <1>2, <1>3, <2>1 DEF Edits, OneOf, ProposalsIn
<1>4. CASE task'[h] = task[h]
    BY <1>3, <1>4 DEF Edits, HasContext
<1>5. CASE Fail(h) \/ Die(h) \/ Complete(h)
  <2>1. task'[h] = Idle
      BY <1>1, <1>5 DEF Fail, Die, Complete, Finish
  <2>2. QED
      BY <2>1 DEF Edits, HasContext, Idle
<1>6. ASSUME NEW r \in Runs, Claim(h, r) PROVE Edits(h)'
  <2>1. task'[h].pc = "claimed"
      BY <1>1, <1>6 DEF Claim, Idle
  <2>2. QED
      BY <2>1 DEF Edits, HasContext
<1>7. CASE Respond(h)
  <2>1. task[h] \in Task
      BY <1>1, <1>7 DEF Respond, Idle
  <2>2. task'[h].history = task[h].history /\ task'[h].base = task[h].base
      BY <1>1, <1>7, <2>1 DEF Respond, Task
  <2>3. QED
      BY <1>3, <1>7, <2>2 DEF Respond, HasContext
<1>8. CASE Load(h)
  <2>1. task[h] \in Task
      BY <1>1, <1>8 DEF Load, Idle
  <2>2. PICK r \in Runs : r = task[h].run
      BY <2>1 DEF Task
  <2>3. /\ task'[h].history = History(r) /\ task'[h].base = BaseFor(r)
        /\ answer' = answer
      BY <1>1, <1>8, <2>1, <2>2 DEF Load, Task
  <2>4. question[r].pc = "sent"
      BY <1>8, <2>2 DEF RowInv, TaskOK, QuestionOK, Load
  <2>5. OneOf(History(r), BaseFor(r))
      BY <2>4, BaseIsShown
  <2>6. \A q \in BaseFor(r) : answer[q].stored
      BY <2>5 DEF OneOf, ProposalsIn, History, InSession, Stored
  <2>7. OneOf(task[h].history, task[h].base)'
      BY <2>3, <2>5 DEF OneOf, ProposalsIn
  <2>8. QED
      BY <2>3, <2>6, <2>7 DEF Edits
<1>9. task'[h] = task[h] \/ Work(h) \/ \E r \in Runs : Claim(h, r)
  <2>1. ASSUME NEW g \in Tasks, g # h, Work(g) \/ \E r \in Runs : Claim(g, r)
        PROVE  task'[h] = task[h]
      BY <1>1, <2>1, HistoryTypeStep, MovedTask DEF Work
  <2>2. ASSUME (\E r \in Runs : Ask(r)) \/ Elsewhere \/ UNCHANGED historyVars
        PROVE  task' = task
      BY <2>2 DEF Ask, Begin, Send, Elsewhere, historyVars
  <2>3. QED
      BY <2>1, <2>2 DEF HistoryNext
<1>10. QED
    BY <1>4, <1>5, <1>6, <1>7, <1>8, <1>9 DEF Work

\* The model edits one proposal of the history it is shown: what the user
\* selected is in the history, and of two proposals of a conversation one is
\* the later (context.py, prepare_editor_context).
THEOREM ModelEditsWhatItSees == HistorySpec => []EditsShownProposal
<1> DEFINE Inv == (\A r \in Runs : Selected(r)) /\ \A h \in Tasks : Edits(h)
<1>1. HistoryInit => Inv
    BY DEF HistoryInit, NoQuestion, Idle, Selected, Edits, HasContext
<1>2. HistoryInv /\ Inv /\ [HistoryNext]_historyVars => Inv'
    BY SelectedStep, EditsStep DEF HistoryInv
<1>3. HistoryInv /\ Inv => EditsShownProposal
    BY BaseIsShown DEF HistoryInv, Edits, EditsShownProposal
<1> HIDE DEF Inv
<1>4. QED
    BY <1>1, <1>2, <1>3, HistoryInvariant, PTL DEF HistorySpec
=============================================================================
