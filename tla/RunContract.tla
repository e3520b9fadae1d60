----------------------------- MODULE RunContract -----------------------------
(***************************************************************************)
(* What a sender of messages is promised about their agent runs, without   *)
(* attempts, queues or failures: a run is accepted only when its           *)
(* conversation exists and has no other pending run, ends once, answered   *)
(* by exactly one message or failed by none, and a conversation is removed *)
(* only when nothing is pending in it.  README.md says it as: no request   *)
(* is answered twice, one active run per session.                          *)
(***************************************************************************)
EXTENDS AgentRunConstants

VARIABLES
    outcome,   \* outcome[r]: absent, pending, answered or failed
    answers,   \* answers[r]: the assistant messages of run r, by their writer
    removed    \* the conversations that are deleted

contractVars == <<outcome, answers, removed>>

Pending(s) == {r \in Runs : SessionOf[r] = s /\ outcome[r] = "pending"}

Init ==
    /\ outcome = [r \in Runs |-> "absent"]
    /\ answers = [r \in Runs |-> {}]
    /\ removed = {}

Accept(r) ==
    /\ outcome[r] = "absent"
    /\ SessionOf[r] \notin removed
    /\ Pending(SessionOf[r]) = {}
    /\ outcome' = [outcome EXCEPT ![r] = "pending"]
    /\ UNCHANGED <<answers, removed>>

\* One message, whichever attempt writes it.
Answer(r) ==
    /\ outcome[r] = "pending"
    /\ outcome' = [outcome EXCEPT ![r] = "answered"]
    /\ \E writer \in answers'[r] : answers' = [answers EXCEPT ![r] = {writer}]
    /\ UNCHANGED removed

Fail(r) ==
    /\ outcome[r] = "pending"
    /\ outcome' = [outcome EXCEPT ![r] = "failed"]
    /\ UNCHANGED <<answers, removed>>

Remove(s) ==
    /\ Pending(s) = {}
    /\ removed' = removed \union {s}
    /\ UNCHANGED <<outcome, answers>>

Next ==
    \/ \E r \in Runs : Accept(r) \/ Answer(r) \/ Fail(r)
    \/ \E s \in Sessions : Remove(s)

Spec == Init /\ [][Next]_contractVars
=============================================================================
