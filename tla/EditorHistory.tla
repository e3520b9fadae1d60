---------------------------- MODULE EditorHistory ----------------------------
(***************************************************************************)
(* What an attempt shows to the model: the earlier messages of the         *)
(* conversation and the content to edit (MessageRepository.list_before_    *)
(* for_editing, prepare_editor_context).  The code orders messages by      *)
(* created_at, which PostgreSQL sets to the start of the transaction and   *)
(* not to its commit; a request starts its transaction when it looks its   *)
(* user up, an attempt when it reads the run again to store the answer.    *)
(*                                                                         *)
(* The third part of what the model is shown, the text of the agent        *)
(* (agent_context in prepare_editor_context), is left out: update_agent    *)
(* rewrites it at any time, so it is whatever it is when an attempt reads  *)
(* it, and no property speaks of it.                                       *)
(*                                                                         *)
(* The transactions are those of RunStore; the deliveries that lead to a   *)
(* claim are left to AgentRuns, so a task claims whatever it may.          *)
(***************************************************************************)
EXTENDS RunStore

CONSTANTS
    Tasks,       \* the worker tasks that process runs
    NoRun,       \* what a task without a run is at
    ClaimBound   \* ClaimBound[r]: how many attempts at run r read its history

ASSUME HistoryAssumption ==
    /\ NoRun \notin Runs
    /\ ClaimBound \in [Runs -> Nat]

\* The question of a run and the answer to it.
Messages == {"user", "assistant"} \X Runs

VARIABLES
    now,       \* the clock of the database, which each start of a transaction moves
    question,  \* question[r]: the POST of run r and its message
    answer,    \* answer[r]: the assistant message and its proposal
    task       \* task[h]: the attempt a worker task is at, and what it read

historyVars == <<storeVars, now, question, answer, task>>

\* at is created_at, done the time of the commit, which no column keeps; base is
\* the proposal to edit, or nothing, which stands for the conversation's prompt.
Question == [pc : {"new", "begun", "sent", "refused"},
             at : Nat, done : Nat, base : SUBSET Runs]
Answer   == [stored : BOOLEAN, at : Nat, done : Nat, proposal : BOOLEAN]
Task     == [pc : {"claimed", "calling", "answering"}, run : Runs, attempt : Nat,
             at : Nat, history : SUBSET Messages, base : SUBSET Runs]

NoQuestion == [pc |-> "new", at |-> 0, done |-> 0, base |-> {}]
NoAnswer   == [stored |-> FALSE, at |-> 0, done |-> 0, proposal |-> FALSE]

Idle == [pc |-> "idle", run |-> NoRun, attempt |-> 0, at |-> 0,
         history |-> {}, base |-> {}]

HistoryTypeOK ==
    /\ StoreTypeOK
    /\ now \in Nat
    /\ question \in [Runs -> Question]
    /\ answer \in [Runs -> Answer]
    /\ task \in [Tasks -> Task \union {Idle}]

HistoryInit ==
    /\ StoreInit
    /\ now = 0
    /\ question = [r \in Runs |-> NoQuestion]
    /\ answer = [r \in Runs |-> NoAnswer]
    /\ task = [h \in Tasks |-> Idle]

-----------------------------------------------------------------------------
(* The messages *)

Stored(m)    == IF m[1] = "user" THEN question[m[2]].pc = "sent" ELSE answer[m[2]].stored
CreatedAt(m) == IF m[1] = "user" THEN question[m[2]].at ELSE answer[m[2]].at
DoneAt(m)    == IF m[1] = "user" THEN question[m[2]].done ELSE answer[m[2]].done

InSession(r) == {m \in Messages : Stored(m) /\ SessionOf[m[2]] = SessionOf[r]}

\* No two transactions of a conversation start in the same microsecond (where
\* the code orders by id).
StartTransaction == now' = now + 1

Precedes(m1, m2) == CreatedAt(m1) < CreatedAt(m2)

\* list_before_for_editing.
History(r) == {m \in InSession(r) : Precedes(m, <<"user", r>>)}

ProposalsIn(msgs) == {q \in Runs : <<"assistant", q>> \in msgs /\ answer[q].proposal}

LastAnswers(msgs) ==
    {m \in msgs : m[1] = "assistant" /\ \A n \in msgs : CreatedAt(n) <= CreatedAt(m)}

\* A proposal has the created_at of its message: one transaction writes both.
LastProposal(msgs) ==
    {q \in ProposalsIn(msgs) :
        \A p \in ProposalsIn(msgs) : answer[p].at <= answer[q].at}

\* The proposal the user selected, or else the latest in the history.
BaseFor(r) ==
    IF question[r].base # {} THEN question[r].base ELSE LastProposal(History(r))

-----------------------------------------------------------------------------
(* A request *)

\* The transaction is rolled back, or was never needed.
Refuse(r) == question' = [question EXCEPT ![r] = [NoQuestion EXCEPT !.pc = "refused"]]

\* The user is looked up, which starts the transaction, and send_message finds
\* the conversation active or not.  The client may have selected any proposal of
\* the conversation that it has seen.
Begin(r) ==
    /\ question[r].pc = "new"
    /\ StartTransaction
    /\ \/ /\ Runnable(SessionOf[r])
          /\ \E base \in {{}} \union {{q} : q \in ProposalsIn(InSession(r))} :
                question' = [question EXCEPT ![r] =
                    [NoQuestion EXCEPT !.pc = "begun", !.at = now', !.base = base]]
       \/ ~Runnable(SessionOf[r]) /\ Refuse(r)
    /\ UNCHANGED <<storeVars, answer, task>>

\* The message and its run, unless another run of the conversation is active.
Send(r) ==
    /\ question[r].pc = "begun"
    /\ \/ /\ CreateRun(r)
          /\ question' = [question EXCEPT ![r] = [@ EXCEPT !.pc = "sent", !.done = now]]
       \/ /\ ~Accepts(SessionOf[r])
          /\ Refuse(r)
          /\ UNCHANGED storeVars
    /\ UNCHANGED <<now, answer, task>>

-----------------------------------------------------------------------------
(* An attempt *)

Owner(h) == Owns(task[h].run, task[h].attempt)

Finish(h) == task' = [task EXCEPT ![h] = Idle]

\* Attempts above the limit read nothing and are left out: mark_error ends them.
Claim(h, r) ==
    /\ task[h].pc = "idle"
    /\ Claimable(r)
    /\ run[r].attempt < ClaimBound[r]
    /\ ClaimRun(r)
    /\ task' = [task EXCEPT ![h] = [Idle EXCEPT !.pc = "claimed", !.run = r,
                                                 !.attempt = run[r].attempt + 1]]
    /\ UNCHANGED <<now, question, answer>>

\* The messages and the content to edit of _load_context; a conversation that
\* cannot be read any more fails the attempt.
Load(h) ==
    /\ task[h].pc = "claimed"
    /\ Visible(SessionOf[task[h].run])
    /\ task' = [task EXCEPT ![h] =
                  [@ EXCEPT !.pc = "calling", !.history = History(task[h].run),
                            !.base = BaseFor(task[h].run)]]
    /\ UNCHANGED <<storeVars, now, question, answer>>

\* The model has answered, and _complete starts its transaction.
Respond(h) ==
    /\ task[h].pc = "calling"
    /\ StartTransaction
    /\ task' = [task EXCEPT ![h] = [@ EXCEPT !.pc = "answering", !.at = now']]
    /\ UNCHANGED <<storeVars, question, answer>>

StoreAnswerAsAsked(h, proposal) ==
    answer' = [answer EXCEPT ![task[h].run] =
        [stored |-> TRUE, at |-> question[task[h].run].at, done |-> now,
         proposal |-> proposal]]

StoreAnswerAhead(h, proposal) ==
    answer' = [answer EXCEPT ![task[h].run] =
        [stored |-> TRUE, at |-> now + 1, done |-> now, proposal |-> proposal]]

StoreAnswer(h, proposal) ==
    answer' = [answer EXCEPT ![task[h].run] =
        [stored |-> TRUE, at |-> task[h].at, done |-> now, proposal |-> proposal]]

\* The answer, with or without a proposal, or nothing when the run was lost.
Complete(h) ==
    /\ task[h].pc = "answering"
    /\ Runnable(SessionOf[task[h].run])
    /\ CompleteRun(task[h].run, task[h].attempt)
    /\ \/ Owner(h) /\ \E proposal \in BOOLEAN : StoreAnswer(h, proposal)
       \/ ~Owner(h) /\ UNCHANGED answer
    /\ Finish(h)
    /\ UNCHANGED <<now, question>>

\* _handle_error, at any step.
Fail(h) ==
    /\ task[h].pc # "idle"
    /\ \E status \in {"queued", "failed"} :
          MarkError(task[h].run, task[h].attempt, status, "provider_unavailable")
    /\ Finish(h)
    /\ UNCHANGED <<now, question, answer>>

\* The worker dies, or its database does: nothing is written.
Die(h) ==
    /\ task[h].pc # "idle"
    /\ Finish(h)
    /\ UNCHANGED <<storeVars, now, question, answer>>

\* Transactions that write no message.
Elsewhere ==
    /\ \/ \E r \in Runs : MarkFailed(r)
       \/ \E s \in Sessions : CreateSession(s) \/ CompleteSession(s) \/ DeleteSession(s)
       \/ \E a \in Agents : DeleteAgent(a)
    /\ UNCHANGED <<now, question, answer, task>>

Ask(r)    == Begin(r) \/ Send(r)
Work(h)   == Load(h) \/ Respond(h) \/ Complete(h) \/ Fail(h) \/ Die(h)

HistoryNext ==
    \/ \E r \in Runs : Ask(r)
    \/ \E h \in Tasks : Work(h) \/ \E r \in Runs : Claim(h, r)
    \/ Elsewhere

HistorySpec == HistoryInit /\ [][HistoryNext]_historyVars

-----------------------------------------------------------------------------
(* What the model is shown *)

HasContext(h) == task[h].pc \in {"calling", "answering"}

\* Everything the user could see when the message was sent is in the history of
\* every attempt for it, although created_at is not the time of the commit
\* (message/repository.py, list_before_for_editing).
NothingSeenIsLeftOut ==
    \A h \in Tasks : HasContext(h) =>
        \A m \in InSession(task[h].run) :
            DoneAt(m) < question[task[h].run].at => m \in task[h].history

\* The history and the base that an attempt read before the call of the model
\* are those that every attempt at its run reads until the run has ended, those
\* that lost the run included: no message appears in the past of one that is
\* still to be answered.  The text of the agent may change between two attempts
\* (processor.py, _load_context; agent/repository.py, update_agent).
ContextIsCurrent ==
    \A h \in Tasks : HasContext(h) /\ Active(task[h].run) =>
        /\ task[h].history = History(task[h].run)
        /\ task[h].base = BaseFor(task[h].run)

\* The transactions that store the answers of a conversation do not overlap, so
\* their starts have the order of their commits and the latest proposal of a
\* history is one, the one stored last (context.py:70, "the most recent proposal").
AnswersInOrder ==
    \A r1, r2 \in Runs :
        /\ answer[r1].stored /\ answer[r2].stored
        /\ SessionOf[r1] = SessionOf[r2] /\ r1 # r2
        => answer[r1].done < answer[r2].at \/ answer[r2].done < answer[r1].at

\* An answer is in the history only with its question, and listed behind it
\* (message/repository.py, list_by_session).
AnswersFollow ==
    /\ \A r \in Runs : answer[r].stored =>
          Stored(<<"user", r>>) /\ Precedes(<<"user", r>>, <<"assistant", r>>)
    /\ \A h \in Tasks, r \in Runs :
          <<"assistant", r>> \in task[h].history => <<"user", r>> \in task[h].history
=============================================================================
