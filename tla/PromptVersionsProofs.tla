------------------------ MODULE PromptVersionsProofs ------------------------
(***************************************************************************)
(* The versions of a prompt have no gap and no duplicate, a proposal is    *)
(* decided once and together with its version, and a deleted agent gets no *)
(* version; locks are given back and nobody waits in a circle; what a      *)
(* transaction committed stays and what was rolled back left nothing,      *)
(* whatever was answered before: for any number of agents, proposals and   *)
(* requests at once.                                                       *)
(***************************************************************************)
EXTENDS PromptVersions, TLAPS

\* What a request that is part of the way through may rely on: the locks it
\* holds and what they protect.
HoldsAgent(q) ==
    req[q].pc \in {"version", "insert"} \/ Inserted(q) =>
        Writes(q) /\ owner[AgentFor(q)] = q /\ AgentFor(q) \notin hidden

HoldsProposal(q) ==
    Decides(q) /\ req[q].pc \in {"agent", "version", "insert", "write", "told"} =>
        owner[On(q)] = q /\ Undecided(q)

Computed(q) ==
    req[q].pc = "insert" \/ Inserted(q) => req[q].version = Latest(AgentFor(q)) + 1

OnItsWay(q) ==
    /\ req[q].pc = "lock" => Decides(q)
    /\ req[q].pc = "agent" => Writes(q)
    /\ req[q].pc = "write" => Writes(q) \/ Decides(q)
    /\ req[q].pc = "told" => Decides(q)
    /\ req[q].pc = "delete" => Kind(q) = "delete"
    /\ req[q].pc # "clash"

RequestInv(q) == HoldsAgent(q) /\ HoldsProposal(q) /\ Computed(q) /\ OnItsWay(q)

Counted(a) == \E n \in Nat : Versions(a) = 1 .. n

Unique ==
    \A x, y \in prompts : x.agent = y.agent /\ x.version = y.version => x = y

VersionInv ==
    /\ VersionTypeOK
    /\ \A a \in Agents : Counted(a)
    /\ Unique
    /\ ApprovedIsVersioned
    /\ \A q \in Requests : RequestInv(q)

-----------------------------------------------------------------------------
(* Numbers and tasks *)

\* What the query for the newest version returns when there are n of them.
LEMMA MaxOfInterval == ASSUME NEW n \in Nat PROVE Max(1 .. n \union {0}) = n
<1>1. n \in (1 .. n) \union {0} /\ \A y \in (1 .. n) \union {0} : n >= y
    OBVIOUS
<1>2. \A x \in (1 .. n) \union {0} : (\A y \in (1 .. n) \union {0} : x >= y) => x = n
    OBVIOUS
<1>3. QED
    BY <1>1, <1>2 DEF Max

\* Without gaps the newest version is the number of versions.
LEMMA LatestCounts ==
    ASSUME NEW a \in Agents, Counted(a)
    PROVE  Latest(a) \in Nat /\ Versions(a) = 1 .. Latest(a)
<1>1. PICK n \in Nat : Versions(a) = 1 .. n
    BY DEF Counted
<1>2. Latest(a) = n
    BY <1>1, MaxOfInterval DEF Latest
<1>3. QED
    BY <1>1, <1>2

\* Every request is about a row of the right table.
LEMMA TaskFacts ==
    ASSUME NEW q \in Requests
    PROVE  /\ Kind(q) \in {"approve", "discard", "add", "delete"}
           /\ AgentFor(q) \in Agents
           /\ On(q) \in Rows
           /\ Decides(q) => On(q) \in Proposals
           /\ ~Decides(q) => On(q) \in Agents
<1>1. TaskOf[q] \in Task
    BY VersionAssumption
<1>2. AgentOf \in [Proposals -> Agents]
    BY VersionAssumption
<1>3. QED
    BY <1>1, <1>2 DEF Task, Kind, On, AgentFor, Decides, Rows

\* The steps of the others do not disturb what a request relies on, as long as
\* they leave its locks and what is locked alone.
LEMMA OthersKeep ==
    ASSUME VersionTypeOK, NEW o \in Requests, RequestInv(o),
           req'[o] = req[o],
           \A x \in Rows : owner[x] = o => owner'[x] = o,
           \A x \in Agents : owner[x] = o =>
               (x \in hidden' => x \in hidden) /\ Versions(x)' = Versions(x),
           \A x \in Proposals : owner[x] = o /\ proposal[x].status = "pending" =>
               proposal'[x].status = "pending"
    PROVE  RequestInv(o)'
<1>1. AgentFor(o) \in Agents /\ On(o) \in Rows /\ AgentFor(o) \in Rows
    BY TaskFacts DEF Rows
<1>2. Decides(o) => On(o) \in Proposals
    BY TaskFacts
<1>3. HoldsAgent(o)'
    BY <1>1 DEF RequestInv, HoldsAgent, Inserted, At
<1>4. HoldsProposal(o)'
    BY <1>1, <1>2 DEF RequestInv, HoldsProposal, Undecided
<1>5. Computed(o)'
    BY <1>1 DEF RequestInv, Computed, HoldsAgent, Inserted, At, Latest
<1>6. OnItsWay(o)'
    BY DEF RequestInv, OnItsWay
<1>7. QED
    BY <1>3, <1>4, <1>5, <1>6 DEF RequestInv

-----------------------------------------------------------------------------
(* Steps that store nothing *)

\* A step of request q alone keeps the invariant when q can rely on its own
\* part of it afterwards and the others keep their locks.
LEMMA LocalKeeps ==
    ASSUME VersionInv, NEW q \in Requests,
           UNCHANGED <<prompts, proposal, hidden>>,
           req' \in [Requests -> ReqState],
           owner' \in [Rows -> Requests \union {Nobody}],
           \A o \in Requests \ {q} : req'[o] = req[o],
           \A x \in Rows : owner[x] \notin {q, Nobody} => owner'[x] = owner[x],
           RequestInv(q)'
    PROVE  VersionInv'
<1>1. VersionTypeOK'
    BY DEF VersionInv, VersionTypeOK
<1>2. (\A a \in Agents : Counted(a)') /\ Unique' /\ ApprovedIsVersioned'
    BY DEF VersionInv, Counted, Versions, Unique, ApprovedIsVersioned, MadeFrom
<1>3. ASSUME NEW o \in Requests \ {q} PROVE RequestInv(o)'
  <2>1. \A x \in Rows : owner[x] = o => owner'[x] = o
      BY VersionAssumption
  <2>2. \A x \in Agents : Versions(x)' = Versions(x)
      BY DEF Versions
  <2>3. QED
      BY <2>1, <2>2, OthersKeep DEF VersionInv
<1>4. \A o \in Requests : RequestInv(o)'
    BY <1>3
<1>5. QED
    BY <1>1, <1>2, <1>4 DEF VersionInv

\* A rollback gives the locks back and stores nothing.
LEMMA RollbackKeeps ==
    ASSUME VersionInv, NEW q \in Requests,
           NEW end \in {"conflict", "not_found", "aborted", "untrue"}, Rollback(q, end)
    PROVE  VersionInv'
<1> USE DEF VersionInv, VersionTypeOK, Rollback, Goto, Release
<1>1. req' \in [Requests -> ReqState] /\ req'[q].pc = end
  <2>1. [req[q] EXCEPT !.pc = end] \in ReqState
      BY DEF ReqState, Ended
  <2>2. QED
      BY <2>1 DEF ReqState
<1>2. owner' \in [Rows -> Requests \union {Nobody}]
    OBVIOUS
<1>3. RequestInv(q)'
    BY <1>1 DEF RequestInv, HoldsAgent, HoldsProposal, Computed, OnItsWay, Inserted, At
<1>4. QED
    BY <1>1, <1>2, <1>3, LocalKeeps

\* A step to another place of the code, with the locks as they are.
LEMMA ContinueKeeps ==
    ASSUME VersionInv, NEW q \in Requests, NEW pc \in Step, Continue(q, pc),
           req'[q].pc = pc => RequestInv(q)'
    PROVE  VersionInv'
<1> USE DEF VersionInv, VersionTypeOK, Continue, Goto
<1>1. req' \in [Requests -> ReqState] /\ req'[q].pc = pc
  <2>1. [req[q] EXCEPT !.pc = pc] \in ReqState
      BY DEF ReqState
  <2>2. QED
      BY <2>1 DEF ReqState
<1>2. QED
    BY <1>1, LocalKeeps

\* The first query of a request.
LEMMA FindKeeps ==
    ASSUME VersionInv, NEW q \in Requests, Find(q)
    PROVE  VersionInv'
<1>1. CASE Decides(q) /\ Owned(On(q)) /\ Continue(q, "lock")
  <2>1. req'[q].pc = "lock" => RequestInv(q)'
      BY <1>1 DEF RequestInv, HoldsAgent, HoldsProposal, Computed, OnItsWay, Inserted, At
  <2>2. QED
      BY <1>1, <2>1, ContinueKeeps DEF Step
<1>2. CASE Kind(q) = "delete" /\ On(q) \notin hidden /\ Continue(q, "delete")
  <2>1. req'[q].pc = "delete" => RequestInv(q)'
      BY <1>2 DEF RequestInv, HoldsAgent, HoldsProposal, Computed, OnItsWay, Inserted, At
  <2>2. QED
      BY <1>2, <2>1, ContinueKeeps DEF Step
<1>3. CASE Kind(q) = "add" /\ Continue(q, "agent")
  <2>1. req'[q].pc = "agent" => RequestInv(q)'
      BY <1>3 DEF RequestInv, HoldsAgent, HoldsProposal, Computed, OnItsWay, Inserted,
                  At, Decides, Writes
  <2>2. QED
      BY <1>3, <2>1, ContinueKeeps DEF Step
<1>4. CASE Rollback(q, "not_found")
    BY <1>4, RollbackKeeps
<1>5. QED
    BY <1>1, <1>2, <1>3, <1>4 DEF Find

\* The lock of the proposal comes with a status nobody else can change.
LEMMA LockProposalKeeps ==
    ASSUME VersionInv, NEW q \in Requests, LockProposal(q)
    PROVE  VersionInv'
<1>1. CASE Rollback(q, "conflict")
    BY <1>1, RollbackKeeps
<1>2. CASE /\ Undecided(q)
           /\ Goto(q, IF Kind(q) = "approve" THEN "agent" ELSE "write")
           /\ Take(q, On(q))
           /\ UNCHANGED <<prompts, proposal, hidden>>
  <2> DEFINE pc == IF Kind(q) = "approve" THEN "agent" ELSE "write"
  <2>1. Decides(q) /\ On(q) \in Proposals /\ On(q) \in Rows /\ owner[On(q)] = Nobody
      BY TaskFacts DEF VersionInv, RequestInv, OnItsWay, LockProposal, At, Free
  <2>2. req' \in [Requests -> ReqState] /\ req'[q].pc = pc
    <3>1. [req[q] EXCEPT !.pc = pc] \in ReqState
        BY DEF VersionInv, VersionTypeOK, ReqState, Step
    <3>2. QED
        BY <1>2, <3>1 DEF Goto, VersionInv, VersionTypeOK, ReqState
  <2>3. owner' \in [Rows -> Requests \union {Nobody}] /\ owner'[On(q)] = q
      BY <1>2, <2>1 DEF Take, VersionInv, VersionTypeOK
  <2>4. \A o \in Requests \ {q} : req'[o] = req[o]
      BY <1>2 DEF Goto, VersionInv, VersionTypeOK
  <2>5. \A x \in Rows : owner[x] \notin {q, Nobody} => owner'[x] = owner[x]
      BY <1>2, <2>1 DEF Take, VersionInv, VersionTypeOK
  <2>6. RequestInv(q)'
      BY <1>2, <2>1, <2>2, <2>3
         DEF RequestInv, HoldsAgent, HoldsProposal, Computed, OnItsWay, Inserted, At,
             Undecided, Writes, Decides
  <2>7. QED
      BY <1>2, <2>2, <2>3, <2>4, <2>5, <2>6, LocalKeeps
<1>3. QED
    BY <1>1, <1>2 DEF LockProposal

\* The lock of the agent comes with an agent that is not deleted.
LEMMA LockAgentKeeps ==
    ASSUME VersionInv, NEW q \in Requests, LockAgent(q)
    PROVE  VersionInv'
<1>1. CASE Rollback(q, "not_found")
    BY <1>1, RollbackKeeps
<1>2. CASE /\ Free(AgentFor(q))
           /\ AgentFor(q) \notin hidden
           /\ Goto(q, "version")
           /\ Take(q, AgentFor(q))
           /\ UNCHANGED <<prompts, proposal, hidden>>
  <2>1. /\ Writes(q) /\ AgentFor(q) \in Rows /\ AgentFor(q) \in Agents
        /\ On(q) \in Rows /\ owner[AgentFor(q)] = Nobody /\ HoldsProposal(q)
      BY <1>2, TaskFacts DEF VersionInv, RequestInv, OnItsWay, LockAgent, At, Free, Rows
  <2>2. req' \in [Requests -> ReqState] /\ req'[q].pc = "version"
    <3>1. [req[q] EXCEPT !.pc = "version"] \in ReqState
        BY DEF VersionInv, VersionTypeOK, ReqState, Step
    <3>2. QED
        BY <1>2, <3>1 DEF Goto, VersionInv, VersionTypeOK, ReqState
  <2>3. owner' \in [Rows -> Requests \union {Nobody}] /\ owner'[AgentFor(q)] = q
      BY <1>2, <2>1 DEF Take, VersionInv, VersionTypeOK
  <2>4. \A o \in Requests \ {q} : req'[o] = req[o]
      BY <1>2 DEF Goto, VersionInv, VersionTypeOK
  <2>5. \A x \in Rows : owner[x] # Nobody => owner'[x] = owner[x]
      BY <1>2, <2>1 DEF Take, VersionInv, VersionTypeOK
  <2>6. HoldsProposal(q)'
    <3>1. At(q, "agent")
        BY DEF LockAgent
    <3>2. Decides(q) => owner[On(q)] = q /\ Undecided(q)
        BY <2>1, <3>1 DEF HoldsProposal, At
    <3>3. q # Nobody
        BY VersionAssumption
    <3>4. QED
        BY <1>2, <2>1, <2>5, <3>2, <3>3 DEF HoldsProposal, Undecided
  <2>7. RequestInv(q)'
      BY <1>2, <2>1, <2>2, <2>3, <2>6
         DEF RequestInv, HoldsAgent, Computed, OnItsWay, Inserted, At
  <2>8. QED
      BY <1>2, <2>2, <2>3, <2>4, <2>5, <2>7, LocalKeeps
<1>3. QED
    BY <1>1, <1>2 DEF LockAgent

\* The version that is computed under the lock is the next one.
LEMMA ReadVersionKeeps ==
    ASSUME VersionInv, NEW q \in Requests, ReadVersion(q)
    PROVE  VersionInv'
<1>1. /\ At(q, "version") /\ RequestInv(q) /\ AgentFor(q) \in Agents
      /\ Latest(AgentFor(q)) \in Nat
    BY TaskFacts, LatestCounts DEF VersionInv, ReadVersion
<1>2. req'[q] = [pc |-> "insert", version |-> Latest(AgentFor(q)) + 1]
    BY DEF ReadVersion, NextVersion, VersionInv, VersionTypeOK
<1>3. req' \in [Requests -> ReqState]
    BY <1>1, <1>2 DEF ReadVersion, NextVersion, VersionInv, VersionTypeOK, ReqState, Step
<1>4. RequestInv(q)'
  <2>1. Latest(AgentFor(q))' = Latest(AgentFor(q))
      BY DEF ReadVersion, Latest, Versions
  <2>2. HoldsAgent(q)' /\ HoldsProposal(q)' /\ OnItsWay(q)'
      BY <1>1, <1>2
         DEF ReadVersion, RequestInv, HoldsAgent, HoldsProposal, OnItsWay, Inserted, At,
             Undecided
  <2>3. Computed(q)'
      BY <1>2, <2>1 DEF Computed
  <2>4. QED
      BY <2>2, <2>3 DEF RequestInv
<1>5. QED
    BY <1>3, <1>4, LocalKeeps DEF ReadVersion, VersionInv, VersionTypeOK

\* Under the lock the unique index has nothing to refuse.
LEMMA InsertKeeps ==
    ASSUME VersionInv, NEW q \in Requests, Insert(q)
    PROVE  VersionInv'
<1>1. /\ At(q, "insert") /\ RequestInv(q) /\ AgentFor(q) \in Agents
      /\ Latest(AgentFor(q)) \in Nat
      /\ Versions(AgentFor(q)) = 1 .. Latest(AgentFor(q))
    BY TaskFacts, LatestCounts DEF VersionInv, Insert
<1>2. req[q].version \notin Versions(AgentFor(q))
    BY <1>1 DEF RequestInv, Computed, At
<1>3. Continue(q, "write")
    BY <1>2 DEF Insert
<1>4. req'[q].version = req[q].version
    BY <1>3 DEF Continue, Goto, VersionInv, VersionTypeOK, ReqState
<1>5. ASSUME req'[q].pc = "write" PROVE RequestInv(q)'
  <2>1. Latest(AgentFor(q))' = Latest(AgentFor(q))
      BY <1>3 DEF Continue, Latest, Versions
  <2>2. HoldsAgent(q)' /\ HoldsProposal(q)' /\ OnItsWay(q)'
      BY <1>1, <1>3, <1>5
         DEF Continue, RequestInv, HoldsAgent, HoldsProposal, OnItsWay, Inserted, At,
             Undecided
  <2>3. Computed(q)'
      BY <1>1, <1>4, <2>1 DEF RequestInv, Computed, At
  <2>4. QED
      BY <2>2, <2>3 DEF RequestInv
<1>6. QED
    BY <1>3, <1>5, ContinueKeeps DEF Step

\* An answer that is sent leaves the transaction as it is.
LEMMA TellKeeps ==
    ASSUME VersionInv, NEW q \in Requests, Tell(q)
    PROVE  VersionInv'
<1>1. /\ req[q].pc = "write" /\ Decides(q) /\ RequestInv(q)
      /\ Continue(q, "told")
    BY DEF Tell, At, VersionInv
<1>2. req'[q].version = req[q].version
    BY <1>1 DEF Continue, Goto, VersionInv, VersionTypeOK, ReqState
<1>3. ASSUME req'[q].pc = "told" PROVE RequestInv(q)'
  <2>1. Latest(AgentFor(q))' = Latest(AgentFor(q))
      BY <1>1 DEF Continue, Latest, Versions
  <2>2. HoldsAgent(q)' /\ HoldsProposal(q)' /\ OnItsWay(q)'
      BY <1>1, <1>3
         DEF Continue, RequestInv, HoldsAgent, HoldsProposal, OnItsWay, Inserted, Undecided
  <2>3. Computed(q)'
    <3>1. Inserted(q)' => Inserted(q)
        BY <1>1 DEF Inserted
    <3>2. QED
        BY <1>1, <1>2, <1>3, <2>1, <3>1 DEF RequestInv, Computed
  <2>4. QED
      BY <2>2, <2>3 DEF RequestInv
<1>4. QED
    BY <1>1, <1>3, ContinueKeeps DEF Step

-----------------------------------------------------------------------------
(* Steps that store something *)

\* A request that commits has flushed what it writes.
LEMMA CommitFacts ==
    ASSUME VersionInv, NEW q \in Requests, Commit(q)
    PROVE  /\ req[q].pc \in {"write", "told"} /\ RequestInv(q)
           /\ Writes(q) => Inserted(q)
           /\ Decides(q) <=> req[q].pc = "told"
           /\ req'[q].pc \in Written /\ req'[q].version = req[q].version
           /\ req' \in [Requests -> ReqState]
           /\ \A o \in Requests \ {q} : req'[o] = req[o]
<1>1. req[q].pc = IF Decides(q) THEN "told" ELSE "write"
    BY DEF Commit, At
<1>2. PICK end \in Written : Goto(q, end)
    BY DEF Commit, EndsOfCommit, Written
<1>3. [req[q] EXCEPT !.pc = end] \in ReqState
    BY <1>2 DEF VersionInv, VersionTypeOK, ReqState, Ended
<1>4. QED
    BY <1>1, <1>2, <1>3 DEF Goto, VersionInv, VersionTypeOK, ReqState, Inserted

\* A request that commits a prompt adds the version after the last one.
LEMMA CommitAdds ==
    ASSUME VersionInv, NEW q \in Requests, Commit(q), Writes(q)
    PROVE  /\ req[q].version = Latest(AgentFor(q)) + 1
           /\ Latest(AgentFor(q)) \in Nat
           /\ Versions(AgentFor(q)) = 1 .. Latest(AgentFor(q))
           /\ Versions(AgentFor(q))' = 1 .. Latest(AgentFor(q)) + 1
           /\ \A a \in Agents \ {AgentFor(q)} : Versions(a)' = Versions(a)
           /\ AgentFor(q) \notin hidden
           /\ owner[AgentFor(q)] = q
<1>1. /\ Inserted(q) /\ RequestInv(q) /\ AgentFor(q) \in Agents
      /\ Latest(AgentFor(q)) \in Nat
      /\ Versions(AgentFor(q)) = 1 .. Latest(AgentFor(q))
    BY TaskFacts, LatestCounts, CommitFacts DEF VersionInv
<1>2. /\ req[q].version = Latest(AgentFor(q)) + 1
      /\ AgentFor(q) \notin hidden /\ owner[AgentFor(q)] = q
    BY <1>1 DEF RequestInv, HoldsAgent, Computed
<1>3. prompts' = prompts \union
                 {[agent |-> AgentFor(q), version |-> req[q].version, by |-> q]}
    BY DEF Commit, NewPrompts
<1>4. Versions(AgentFor(q))' = Versions(AgentFor(q)) \union {req[q].version}
  <2> DEFINE a   == AgentFor(q)
             new == [agent |-> a, version |-> req[q].version, by |-> q]
  <2>1. {y \in prompts' : y.agent = a} = {y \in prompts : y.agent = a} \union {new}
      BY <1>3
  <2>2. new.version = req[q].version
      OBVIOUS
  <2>3. QED
      BY <2>1, <2>2 DEF Versions
<1>5. \A a \in Agents \ {AgentFor(q)} : Versions(a)' = Versions(a)
    BY <1>3 DEF Versions
<1>6. QED
    BY <1>1, <1>2, <1>4, <1>5

\* The commit of an approval, a discard or a new prompt.
LEMMA CommitKeeps ==
    ASSUME VersionInv, NEW q \in Requests, Commit(q)
    PROVE  VersionInv'
<1>1. /\ req[q].pc \in {"write", "told"} /\ RequestInv(q) /\ AgentFor(q) \in Agents
      /\ On(q) \in Rows /\ (Decides(q) => On(q) \in Proposals)
      /\ Writes(q) \/ Decides(q)
      /\ (~Writes(q) => Kind(q) = "discard")
    BY TaskFacts, CommitFacts DEF RequestInv, OnItsWay, Writes, Decides
<1>2. Decides(q) => Undecided(q) /\ owner[On(q)] = q
    BY <1>1 DEF RequestInv, HoldsProposal
<1>p. prompts' = prompts \union NewPrompts(q)
    BY DEF Commit
<1>n. /\ ~Writes(q) => prompts' = prompts
      /\ Writes(q) => prompts' = prompts \union
             {[agent |-> AgentFor(q), version |-> req[q].version, by |-> q]}
    BY <1>p DEF NewPrompts
<1>3. VersionTypeOK'
  <2>1. prompts' \subseteq Prompt
    <3>1. CASE Writes(q)
      <4>1. req[q].version \in Nat \ {0}
          BY <3>1, CommitAdds
      <4>2. QED
          BY <1>1, <1>n, <3>1, <4>1 DEF Prompt, VersionInv, VersionTypeOK
    <3>2. CASE ~Writes(q)
        BY <1>n, <3>2 DEF VersionInv, VersionTypeOK
    <3>3. QED
        BY <3>1, <3>2
  <2>2. proposal' \in [Proposals -> Verdict]
    <3>1. Decides(q) => NewVerdict(q) \in Verdict
        BY <1>1 DEF NewVerdict, Verdict, Decided, VersionInv, VersionTypeOK, ReqState
    <3>2. QED
        BY <1>1, <3>1 DEF Commit, VersionInv, VersionTypeOK
  <2>3. req' \in [Requests -> ReqState]
      BY CommitFacts
  <2>4. QED
      BY <2>1, <2>2, <2>3 DEF VersionTypeOK, VersionInv, Commit, Release
<1>4. \A a \in Agents : Counted(a)'
  <2>1. CASE Writes(q)
    <3>1. Latest(AgentFor(q)) + 1 \in Nat
        BY <2>1, CommitAdds
    <3>2. Counted(AgentFor(q))'
        BY <2>1, <3>1, CommitAdds DEF Counted
    <3>3. \A a \in Agents \ {AgentFor(q)} : Counted(a)'
        BY <2>1, CommitAdds DEF Counted, VersionInv
    <3>4. QED
        BY <3>2, <3>3
  <2>2. CASE ~Writes(q)
      BY <1>n, <2>2 DEF VersionInv, Counted, Versions
  <2>3. QED
      BY <2>1, <2>2
<1>5. Unique'
  <2>1. CASE Writes(q)
    <3>1. \A x \in prompts : x.agent = AgentFor(q) => x.version # req[q].version
      <4>1. \A x \in prompts : x.agent = AgentFor(q) => x.version \in Versions(AgentFor(q))
          BY DEF Versions
      <4>2. req[q].version \notin Versions(AgentFor(q))
          BY <2>1, CommitAdds
      <4>3. QED
          BY <4>1, <4>2
    <3>2. QED
        BY <1>n, <2>1, <3>1 DEF VersionInv, Unique
  <2>2. CASE ~Writes(q)
      BY <1>n, <2>2 DEF VersionInv, Unique
  <2>3. QED
      BY <2>1, <2>2
<1>6. ApprovedIsVersioned'
  <2>1. CASE Kind(q) = "approve"
    <3> DEFINE new == [agent |-> AgentFor(q), version |-> req[q].version, by |-> q]
    <3>1. /\ prompts' = prompts \union {new} /\ On(q) \in Proposals
          /\ proposal[On(q)].status = "pending"
          /\ proposal' = [proposal EXCEPT ![On(q)] =
                            [status |-> "approved", prompt |-> req[q].version]]
        BY <1>1, <1>2, <1>n, <2>1 DEF Commit, NewVerdict, Writes, Decides, Undecided
    <3>2. MadeFrom(On(q)) = {}
        BY <3>1 DEF VersionInv, ApprovedIsVersioned
    <3>3. MadeFrom(On(q))' = {new}
        BY <2>1, <3>1, <3>2 DEF MadeFrom
    <3>4. \A p \in Proposals \ {On(q)} : MadeFrom(p)' = MadeFrom(p)
        BY <3>1 DEF MadeFrom
    <3>5. \A p \in Proposals \ {On(q)} : proposal'[p] = proposal[p]
        BY <3>1
    <3>6. /\ proposal'[On(q)].status = "approved"
          /\ proposal'[On(q)].prompt = new.version
        BY <3>1 DEF VersionInv, VersionTypeOK
    <3>7. new \in prompts'
        BY <3>1
    <3>8. ASSUME NEW p \in Proposals \ {On(q)}
          PROVE  IF proposal'[p].status = "approved"
                 THEN \E x \in prompts' : MadeFrom(p)' = {x} /\ x.version = proposal'[p].prompt
                 ELSE MadeFrom(p)' = {}
        BY <3>1, <3>4, <3>5 DEF VersionInv, ApprovedIsVersioned
    <3>9. QED
        BY <3>3, <3>6, <3>7, <3>8 DEF ApprovedIsVersioned
  <2>2. CASE Kind(q) # "approve"
    <3>1. \A p \in Proposals : MadeFrom(p)' = MadeFrom(p)
        BY <1>n, <2>2 DEF MadeFrom
    <3>2. prompts \subseteq prompts'
        BY <1>n
    <3>3. \A p \in Proposals :
             \/ proposal'[p] = proposal[p]
             \/ proposal[p].status = "pending" /\ proposal'[p].status = "discarded"
      <4>1. CASE Decides(q)
        <5>1. /\ proposal[On(q)].status = "pending"
              /\ proposal' = [proposal EXCEPT ![On(q)] =
                                [@ EXCEPT !.status = "discarded"]]
            BY <1>2, <2>2, <4>1 DEF Commit, NewVerdict, Undecided
        <5>2. QED
            BY <5>1 DEF VersionInv, VersionTypeOK
      <4>2. CASE ~Decides(q)
          BY <4>2 DEF Commit
      <4>3. QED
          BY <4>1, <4>2
    <3>4. QED
        BY <3>1, <3>2, <3>3 DEF VersionInv, ApprovedIsVersioned
  <2>3. QED
      BY <2>1, <2>2
<1>7. ASSUME NEW o \in Requests PROVE RequestInv(o)'
  <2>1. CASE o = q
    <3>1. req'[q].pc \in {"committed", "unanswered"}
        BY CommitFacts DEF Written
    <3>2. QED
        BY <2>1, <3>1 DEF RequestInv, HoldsAgent, HoldsProposal, Computed, OnItsWay,
                          Inserted, At
  <2>2. CASE o # q
    <3>1. req'[o] = req[o]
        BY <2>2, CommitFacts
    <3>2. \A x \in Rows : owner[x] = o => owner'[x] = o
        BY <2>2 DEF Commit, Release
    <3>3. \A x \in Agents : owner[x] = o => Versions(x)' = Versions(x)
      <4>1. CASE Writes(q)
          BY <2>2, <4>1, CommitAdds
      <4>2. CASE ~Writes(q)
          BY <1>n, <4>2 DEF Versions
      <4>3. QED
          BY <4>1, <4>2
    <3>4. \A x \in Proposals : owner[x] = o => proposal'[x] = proposal[x]
        BY <1>2, <2>2 DEF Commit, VersionInv, VersionTypeOK
    <3>5. hidden' = hidden
        BY DEF Commit
    <3>6. QED
        BY <3>1, <3>2, <3>3, <3>4, <3>5, OthersKeep DEF VersionInv
  <2>3. QED
      BY <2>1, <2>2
<1>8. QED
    BY <1>3, <1>4, <1>5, <1>6, <1>7 DEF VersionInv

\* An agent is deleted only while nobody holds its lock.
LEMMA DeleteKeeps ==
    ASSUME VersionInv, NEW q \in Requests, Delete(q)
    PROVE  VersionInv'
<1>1. On(q) \in Rows /\ owner[On(q)] = Nobody
    BY TaskFacts DEF Delete, Free
<1>2. /\ req' \in [Requests -> ReqState] /\ req'[q].pc \in {"committed", "unanswered"}
      /\ \A o \in Requests \ {q} : req'[o] = req[o]
  <2>1. PICK end \in {"committed", "unanswered"} : Goto(q, end)
      BY DEF Delete, EndsOfCommit, Written
  <2>2. [req[q] EXCEPT !.pc = end] \in ReqState
      BY <2>1 DEF VersionInv, VersionTypeOK, ReqState, Ended, Written
  <2>3. QED
      BY <2>1, <2>2 DEF Goto, VersionInv, VersionTypeOK, ReqState
<1>3. VersionTypeOK'
    BY <1>1, <1>2 DEF Delete, VersionInv, VersionTypeOK
<1>4. (\A a \in Agents : Counted(a)') /\ Unique' /\ ApprovedIsVersioned'
    BY DEF Delete, VersionInv, Counted, Versions, Unique, ApprovedIsVersioned, MadeFrom
<1>5. ASSUME NEW o \in Requests PROVE RequestInv(o)'
  <2>1. CASE o = q
      BY <1>2, <2>1 DEF RequestInv, HoldsAgent, HoldsProposal, Computed, OnItsWay,
                        Inserted, At
  <2>2. CASE o # q
    <3>1. req'[o] = req[o]
        BY <1>2, <2>2
    <3>2. \A x \in Agents : owner[x] = o => (x \in hidden' => x \in hidden)
        BY <1>1, VersionAssumption DEF Delete
    <3>3. \A x \in Agents : Versions(x)' = Versions(x)
        BY DEF Delete, Versions
    <3>4. QED
        BY <3>1, <3>2, <3>3, OthersKeep DEF VersionInv, Delete
  <2>3. QED
      BY <2>1, <2>2
<1>6. QED
    BY <1>3, <1>4, <1>5 DEF VersionInv

\* What the conversations do to proposals disturbs no request: a new proposal
\* is one nobody holds, and the agent stays.
LEMMA ConversationKeeps ==
    ASSUME VersionInv, NEW p \in Proposals, Propose(p) \/ DeleteConversation(p)
    PROVE  VersionInv'
<1>1. VersionTypeOK'
  <2>1. CASE Propose(p)
    <3>1. [proposal[p] EXCEPT !.status = "pending"] \in Verdict
        BY DEF VersionInv, VersionTypeOK, Verdict
    <3>2. QED
        BY <2>1, <3>1 DEF Propose, VersionInv, VersionTypeOK, Verdict
  <2>2. CASE DeleteConversation(p)
      BY <2>2 DEF DeleteConversation, VersionInv, VersionTypeOK, Rows
  <2>3. QED
      BY <2>1, <2>2
<1>2. prompts' = prompts /\ owner' = owner /\ req' = req
    BY DEF Propose, DeleteConversation
<1>3. \A x \in Proposals :
         \/ proposal'[x] = proposal[x]
         \/ proposal[x].status = "none" /\ proposal'[x].status = "pending"
    BY DEF Propose, DeleteConversation, VersionInv, VersionTypeOK, Verdict
<1>4. \A x \in Agents : x \in hidden' => x \in hidden
    BY VersionAssumption DEF Propose, DeleteConversation
<1>5. (\A a \in Agents : Counted(a)') /\ Unique' /\ ApprovedIsVersioned'
    BY <1>2, <1>3 DEF VersionInv, Counted, Versions, Unique, ApprovedIsVersioned, MadeFrom
<1>6. ASSUME NEW o \in Requests PROVE RequestInv(o)'
  <2>1. \A x \in Agents : Versions(x)' = Versions(x)
      BY <1>2 DEF Versions
  <2>2. \A x \in Proposals : proposal[x].status = "pending" => proposal'[x].status = "pending"
      BY <1>3
  <2>3. QED
      BY <1>2, <1>4, <2>1, <2>2, OthersKeep DEF VersionInv
<1>7. QED
    BY <1>1, <1>5, <1>6 DEF VersionInv

-----------------------------------------------------------------------------
(* Theorems *)

\* Every step keeps the invariant.
LEMMA VersionStep == VersionInv /\ [VersionNext]_versionVars => VersionInv'
<1> SUFFICES ASSUME VersionInv, [VersionNext]_versionVars
             PROVE  VersionInv'
    OBVIOUS
<1>1. ASSUME NEW q \in Requests, Find(q) \/ Work(q) \/ Abort(q) PROVE VersionInv'
    BY <1>1, FindKeeps, LockProposalKeeps, LockAgentKeeps, ReadVersionKeeps,
       InsertKeeps, TellKeeps, CommitKeeps, DeleteKeeps, RollbackKeeps DEF Work, Abort
<1>2. ASSUME NEW p \in Proposals, Propose(p) \/ DeleteConversation(p) PROVE VersionInv'
    BY <1>2, ConversationKeeps
<1>3. CASE UNCHANGED versionVars
    BY <1>3
       DEF versionVars, VersionInv, VersionTypeOK, Counted, Versions, Unique,
           ApprovedIsVersioned, MadeFrom, RequestInv, HoldsAgent, HoldsProposal,
           Computed, OnItsWay, Inserted, At, Undecided, Latest
<1>4. QED
    BY <1>1, <1>2, <1>3 DEF VersionNext

\* It holds before the first request.
LEMMA VersionInitInv == VersionInit => VersionInv
<1> SUFFICES ASSUME VersionInit PROVE VersionInv
    OBVIOUS
<1>1. VersionTypeOK
    BY DEF VersionInit, VersionTypeOK, Verdict, ReqState, Step
<1>2. ASSUME NEW a \in Agents PROVE Counted(a)
  <2>1. Versions(a) = 1 .. 0
      BY DEF VersionInit, Versions
  <2>2. QED
      BY <2>1 DEF Counted
<1>3. Unique /\ ApprovedIsVersioned
    BY DEF VersionInit, Unique, ApprovedIsVersioned, MadeFrom
<1>4. ASSUME NEW q \in Requests PROVE RequestInv(q)
    BY DEF VersionInit, RequestInv, HoldsAgent, HoldsProposal, Computed, OnItsWay,
           Inserted, At
<1>5. QED
    BY <1>1, <1>2, <1>3, <1>4 DEF VersionInv

\* Every reachable state satisfies the invariant.
THEOREM VersionInvariant == VersionSpec => []VersionInv
<1>1. VersionInit => VersionInv
    BY VersionInitInv
<1>2. VersionInv /\ [VersionNext]_versionVars => VersionInv'
    BY VersionStep
<1>3. QED
    BY <1>1, <1>2, PTL DEF VersionSpec

\* The tables, the locks and the requests are well typed in every state.
THEOREM VersionTypeInvariant == VersionSpec => []VersionTypeOK
<1>1. VersionInv => VersionTypeOK
    BY DEF VersionInv
<1>2. QED
    BY <1>1, VersionInvariant, PTL

\* The versions of an agent are numbered 1 to n, each once (create_next_prompt
\* under the lock of the agent).
THEOREM VersionsHaveNoGap == VersionSpec => []GaplessVersions
<1>1. VersionInv => GaplessVersions
  <2> SUFFICES ASSUME VersionInv PROVE GaplessVersions
      OBVIOUS
  <2>1. \A a \in Agents : Versions(a) = 1 .. Latest(a)
      BY LatestCounts DEF VersionInv
  <2>2. QED
      BY <2>1 DEF GaplessVersions, VersionInv, Unique
<1>2. QED
    BY <1>1, VersionInvariant, PTL

\* A proposal is approved exactly when one version was made from it.
THEOREM ApprovalsHaveTheirVersion == VersionSpec => []ApprovedIsVersioned
<1>1. VersionInv => ApprovedIsVersioned
    BY DEF VersionInv
<1>2. QED
    BY <1>1, VersionInvariant, PTL

\* No request ever fails on the unique index of the versions.
THEOREM IndexStaysIdle == VersionSpec => []NoVersionClash
<1>1. VersionInv => NoVersionClash
    BY DEF VersionInv, RequestInv, OnItsWay, NoVersionClash, At
<1>2. QED
    BY <1>1, VersionInvariant, PTL

-----------------------------------------------------------------------------
(* What a step may not do *)

\* Only a commit and a new proposal touch what is stored.
LEMMA StoredBy ==
    ASSUME VersionInv, [VersionNext]_versionVars
    PROVE  \/ UNCHANGED <<prompts, proposal>>
           \/ \E q \in Requests : Commit(q)
           \/ \E p \in Proposals : Propose(p)
<1>1. ASSUME NEW q \in Requests, Find(q) \/ Abort(q) \/ (Work(q) /\ ~Commit(q))
      PROVE  UNCHANGED <<prompts, proposal>>
    BY <1>1 DEF Find, Abort, Work, LockProposal, LockAgent, ReadVersion, Insert, Tell,
                Delete, Rollback, Continue
<1>2. ASSUME NEW p \in Proposals, DeleteConversation(p)
      PROVE  UNCHANGED <<prompts, proposal>>
    BY <1>2 DEF DeleteConversation
<1>3. CASE UNCHANGED versionVars
    BY <1>3 DEF versionVars
<1>4. QED
    BY <1>1, <1>2, <1>3 DEF VersionNext

\* A request that commits holds the lock of its proposal, still pending.
LEMMA CommitDecides ==
    ASSUME VersionInv, NEW q \in Requests, Commit(q), Decides(q)
    PROVE  On(q) \in Proposals /\ proposal[On(q)].status = "pending"
<1>1. req[q].pc \in {"write", "told"} /\ RequestInv(q) /\ On(q) \in Proposals
    BY TaskFacts, CommitFacts
<1>2. QED
    BY <1>1 DEF RequestInv, HoldsProposal, Undecided

\* Of two decisions about a proposal the second is refused (approve, discard).
THEOREM DecisionsAreFinal == VersionSpec => DecidedOnce
<1> DEFINE Kept == \A p \in Proposals : proposal[p].status \in Decided =>
                      proposal'[p] = proposal[p]
<1>1. VersionInv /\ [VersionNext]_versionVars => [Kept]_versionVars
  <2> SUFFICES ASSUME VersionInv, [VersionNext]_versionVars PROVE Kept
      OBVIOUS
  <2>1. ASSUME NEW q \in Requests, Commit(q) PROVE Kept
      BY <2>1, CommitDecides DEF Commit, Decided, VersionInv, VersionTypeOK
  <2>2. ASSUME NEW p \in Proposals, Propose(p) PROVE Kept
      BY <2>2 DEF Propose, Decided, VersionInv, VersionTypeOK
  <2>3. QED
      BY <2>1, <2>2, StoredBy
<1>2. QED
    BY <1>1, VersionInvariant, PTL DEF VersionSpec, DecidedOnce

\* No version is added to an agent that is deleted, whatever the request found
\* before it waited for the lock.
THEOREM DeletedAgentsAreClosed == VersionSpec => NothingAfterDeletion
<1> DEFINE Kept == \A x \in prompts' \ prompts : x.agent \notin hidden
<1>1. VersionInv /\ [VersionNext]_versionVars => [Kept]_versionVars
  <2> SUFFICES ASSUME VersionInv, [VersionNext]_versionVars PROVE Kept
      OBVIOUS
  <2>1. ASSUME NEW q \in Requests, Commit(q) PROVE Kept
    <3>1. CASE Writes(q)
        BY <2>1, <3>1, CommitAdds DEF Commit, NewPrompts
    <3>2. CASE ~Writes(q)
        BY <2>1, <3>2 DEF Commit, NewPrompts
    <3>3. QED
        BY <3>1, <3>2
  <2>2. ASSUME NEW p \in Proposals, Propose(p) PROVE Kept
      BY <2>2 DEF Propose
  <2>3. QED
      BY <2>1, <2>2, StoredBy
<1>2. QED
    BY <1>1, VersionInvariant, PTL DEF VersionSpec, NothingAfterDeletion

-----------------------------------------------------------------------------
(* The log *)

\* Before the first request the log is empty.
LEMMA LogInit == VersionInit => Log!Init
<1> SUFFICES ASSUME VersionInit PROVE Log!Init
    OBVIOUS
<1>1. ASSUME NEW a \in Agents PROVE Latest(a) = 0
  <2>1. Versions(a) = 1 .. 0
      BY DEF VersionInit, Versions
  <2>2. QED
      BY <2>1, MaxOfInterval DEF Latest
<1>2. QED
    BY <1>1 DEF VersionInit, Log!Init

\* Every step writes one entry of the log, or decides one proposal, or neither.
LEMMA LogStep ==
    ASSUME VersionInv, [VersionNext]_versionVars
    PROVE  [Log!Next]_(Log!logVars)
<1> DEFINE count == [a \in Agents |-> Latest(a)]
<1>1. CASE UNCHANGED <<prompts, proposal>>
    BY <1>1 DEF Log!logVars, Latest, Versions
<1>2. ASSUME NEW q \in Requests, Commit(q) PROVE [Log!Next]_(Log!logVars)
  <2>1. CASE Writes(q)
    <3>1. /\ AgentFor(q) \in Agents
          /\ count' = [count EXCEPT ![AgentFor(q)] = @ + 1]
          /\ count'[AgentFor(q)] = req[q].version
      <4>1. AgentFor(q) \in Agents
          BY TaskFacts
      <4>2. Latest(AgentFor(q))' = Latest(AgentFor(q)) + 1
        <5>1. Latest(AgentFor(q)) + 1 \in Nat
            BY <1>2, <2>1, CommitAdds
        <5>2. Versions(AgentFor(q))' = 1 .. (Latest(AgentFor(q)) + 1)
            BY <1>2, <2>1, CommitAdds
        <5>3. QED
            BY <5>1, <5>2, MaxOfInterval DEF Latest
      <4>3. \A a \in Agents \ {AgentFor(q)} : Latest(a)' = Latest(a)
          BY <1>2, <2>1, CommitAdds DEF Latest
      <4>4. req[q].version = Latest(AgentFor(q)) + 1
          BY <1>2, <2>1, CommitAdds
      <4>5. QED
          BY <4>1, <4>2, <4>3, <4>4
    <3>2. CASE Kind(q) = "approve"
      <4>1. /\ On(q) \in Proposals /\ proposal[On(q)].status = "pending"
            /\ AgentFor(q) = AgentOf[On(q)]
          BY <1>2, <3>2, CommitDecides DEF Decides, AgentFor
      <4>2. proposal' = [proposal EXCEPT ![On(q)] =
                           [status |-> "approved", prompt |-> count'[AgentOf[On(q)]]]]
          BY <1>2, <3>1, <3>2, <4>1 DEF Commit, NewVerdict, Decides
      <4>3. Log!Approve(On(q))
          BY <3>1, <4>1, <4>2 DEF Log!Approve, Log!Grow
      <4>4. QED
          BY <4>1, <4>3 DEF Log!Next
    <3>3. CASE Kind(q) = "add"
      <4>1. proposal' = proposal
          BY <1>2, <3>3 DEF Commit, Decides
      <4>2. Log!Write(AgentFor(q))
          BY <3>1, <4>1 DEF Log!Write, Log!Grow
      <4>3. QED
          BY <3>1, <4>2 DEF Log!Next
    <3>4. QED
        BY <2>1, <3>2, <3>3 DEF Writes
  <2>2. CASE ~Writes(q)
    <3>1. Kind(q) = "discard"
        BY <1>2, <2>2, TaskFacts, CommitFacts DEF RequestInv, OnItsWay, Writes, Decides
    <3>2. /\ On(q) \in Proposals /\ proposal[On(q)].status = "pending"
          /\ proposal' = [proposal EXCEPT ![On(q)].status = "discarded"]
        BY <1>2, <3>1, CommitDecides DEF Commit, NewVerdict, Decides
    <3>3. prompts' = prompts
        BY <1>2, <2>2 DEF Commit, NewPrompts
    <3>4. Log!Discard(On(q))
        BY <3>2, <3>3 DEF Log!Discard, Latest, Versions
    <3>5. QED
        BY <3>2, <3>4 DEF Log!Next
  <2>3. QED
      BY <2>1, <2>2
<1>3. ASSUME NEW p \in Proposals, Propose(p) PROVE [Log!Next]_(Log!logVars)
  <2>1. /\ prompts' = prompts /\ proposal[p].status = "none"
        /\ proposal' = [proposal EXCEPT ![p].status = "pending"]
      BY <1>3 DEF Propose
  <2>2. Log!Propose(p)
      BY <2>1 DEF Log!Propose, Latest, Versions
  <2>3. QED
      BY <2>2 DEF Log!Next
<1>4. QED
    BY <1>1, <1>2, <1>3, StoredBy

\* PromptVersions implements VersionLog: whatever the interleaving of requests,
\* rollbacks and deletions, the stored prompts and proposals are its log.
THEOREM ImplementsLog == VersionSpec => LogKept
<1>1. VersionInit => Log!Init
    BY LogInit
<1>2. VersionInv /\ [VersionNext]_versionVars => [Log!Next]_(Log!logVars)
    BY LogStep
<1>3. QED
    BY <1>1, <1>2, VersionInvariant, PTL DEF VersionSpec, LogKept, Log!Spec

-----------------------------------------------------------------------------
(* Locks *)

\* The places of the code where request q has the lock of row x.
HoldsFor(q, x) ==
    \/ /\ Writes(q) /\ x = AgentFor(q)
       /\ req[q].pc \in {"version", "insert", "write", "told"}
    \/ /\ Decides(q) /\ x = On(q)
       /\ req[q].pc \in {"agent", "version", "insert", "write", "told"}

\* A lock is held by a request that is between the statement that takes it and
\* the end of its transaction.
LocksAreHeldFor ==
    \A x \in Rows : owner[x] # Nobody => HoldsFor(owner[x], x)

\* The row that the next statement of request q waits for, if it is locked.
WaitsFor(q, x) ==
    \/ req[q].pc \in {"lock", "delete"} /\ x = On(q)
    \/ At(q, "agent") /\ x = AgentFor(q) /\ x \notin hidden

\* The unique index lets an insert wait as well.
WaitsOnIndex(q, o) ==
    /\ At(q, "insert") /\ o # q
    /\ Inserted(o) /\ AgentFor(o) = AgentFor(q) /\ req[o].version = req[q].version

Blocks(o, q) == \E x \in Rows : WaitsFor(q, x) /\ owner[x] = o

CanMove(q) == Running(q) /\ \A o \in Requests : ~Blocks(o, q) /\ ~WaitsOnIndex(q, o)

\* Whoever waits, waits for a request that can go on, or for one that waits for
\* a request that can: there is no circle of requests, and no lock is left
\* behind by a request that has ended.
ChainsEnd ==
    \A q \in Requests : Running(q) =>
        \/ CanMove(q)
        \/ \E o \in Requests :
              /\ Blocks(o, q)
              /\ CanMove(o) \/ \E p \in Requests : Blocks(p, o) /\ CanMove(p)

\* A step of q that leaves every other request where it is keeps their locks.
LEMMA LocksStay ==
    ASSUME VersionInv, LocksAreHeldFor, NEW q \in Requests,
           \A o \in Requests \ {q} : req'[o] = req[o],
           \A x \in Rows : owner'[x] \notin {q, Nobody} => owner'[x] = owner[x],
           \A x \in Rows : owner'[x] = q => HoldsFor(q, x)',
           owner' \in [Rows -> Requests \union {Nobody}]
    PROVE  LocksAreHeldFor'
<1> SUFFICES ASSUME NEW x \in Rows, owner'[x] # Nobody PROVE HoldsFor(owner[x], x)'
    BY DEF LocksAreHeldFor
<1>1. CASE owner'[x] = q
    BY <1>1 DEF HoldsFor
<1>2. CASE owner'[x] # q
  <2>1. owner'[x] = owner[x] /\ owner[x] \in Requests \ {q} /\ owner[x] # Nobody
      BY <1>2, VersionAssumption
  <2>2. HoldsFor(owner[x], x) /\ req'[owner[x]] = req[owner[x]]
      BY <2>1 DEF LocksAreHeldFor
  <2>3. QED
      BY <2>1, <2>2 DEF HoldsFor
<1>3. QED
    BY <1>1, <1>2

\* Each statement takes the lock it says, and each end gives all back.
LEMMA LockStep ==
    ASSUME VersionInv, LocksAreHeldFor, [VersionNext]_versionVars
    PROVE  LocksAreHeldFor'
<1>t. /\ req \in [Requests -> ReqState] /\ owner \in [Rows -> Requests \union {Nobody}]
      /\ \A q \in Requests : q # Nobody
    BY VersionAssumption DEF VersionInv, VersionTypeOK
<1>o. owner' \in [Rows -> Requests \union {Nobody}]
    BY VersionStep DEF VersionInv, VersionTypeOK
<1>u. ASSUME UNCHANGED <<req, owner>> PROVE LocksAreHeldFor'
    BY <1>u DEF LocksAreHeldFor, HoldsFor
<1>r. ASSUME NEW q \in Requests, NEW end, Rollback(q, end) PROVE LocksAreHeldFor'
  <2>1. \A x \in Rows : owner'[x] # q /\ (owner'[x] # Nobody => owner'[x] = owner[x])
      BY <1>t, <1>r DEF Rollback, Release
  <2>2. \A o \in Requests \ {q} : req'[o] = req[o]
      BY <1>t, <1>r DEF Rollback, Goto
  <2>3. QED
      BY <1>o, <2>1, <2>2, LocksStay
<1>c. ASSUME NEW q \in Requests, NEW pc \in Step, owner' = owner,
             req'[q].pc = pc, \A o \in Requests \ {q} : req'[o] = req[o],
             \/ req[q].pc \in {"new", "delete"}
             \/ req[q].pc = "version" /\ pc = "insert"
             \/ req[q].pc = "insert" /\ pc = "write"
             \/ req[q].pc = "write" /\ pc = "told"
      PROVE  LocksAreHeldFor'
  <2>1. \A x \in Rows : owner[x] = q => HoldsFor(q, x)
      BY <1>t DEF LocksAreHeldFor
  <2>2. \A x \in Rows : owner[x] = q => HoldsFor(q, x)'
      BY <1>c, <2>1 DEF HoldsFor
  <2>3. QED
      BY <1>c, <1>o, <2>2, LocksStay
<1>1. ASSUME NEW q \in Requests, Find(q) PROVE LocksAreHeldFor'
  <2>1. ASSUME NEW pc \in {"lock", "delete", "agent"}, Continue(q, pc)
        PROVE  LocksAreHeldFor'
    <3>1. req'[q].pc = pc /\ \A o \in Requests \ {q} : req'[o] = req[o]
        BY <1>t, <2>1 DEF Continue, Goto, ReqState
    <3>2. req[q].pc = "new" /\ owner' = owner /\ pc \in Step
        BY <1>1, <2>1 DEF Find, At, Continue, Step
    <3>3. QED
        BY <1>c, <3>1, <3>2
  <2>2. QED
      BY <1>1, <1>r, <2>1 DEF Find
<1>2. ASSUME NEW q \in Requests, LockProposal(q) PROVE LocksAreHeldFor'
  <2>1. CASE Rollback(q, "conflict")
      BY <1>r, <2>1
  <2>2. CASE /\ Goto(q, IF Kind(q) = "approve" THEN "agent" ELSE "write")
             /\ Take(q, On(q))
    <3>1. /\ req'[q].pc \in {"agent", "write"}
          /\ \A o \in Requests \ {q} : req'[o] = req[o]
        BY <1>t, <2>2 DEF Goto, ReqState
    <3>2. Decides(q) /\ req[q].pc = "lock"
        BY <1>2 DEF LockProposal, At, VersionInv, RequestInv, OnItsWay
    <3>3. \A x \in Rows : owner[x] # q
        BY <1>t, <3>2 DEF LocksAreHeldFor, HoldsFor
    <3>4. \A x \in Rows : \/ x = On(q) /\ owner'[x] = q
                          \/ owner'[x] = owner[x] /\ owner'[x] # q
        BY <1>t, <2>2, <3>3 DEF Take
    <3>5. \A x \in Rows : owner'[x] = q => HoldsFor(q, x)'
        BY <3>1, <3>2, <3>4 DEF HoldsFor
    <3>6. QED
        BY <1>o, <3>1, <3>4, <3>5, LocksStay
  <2>3. QED
      BY <1>2, <2>1, <2>2 DEF LockProposal
<1>3. ASSUME NEW q \in Requests, LockAgent(q) PROVE LocksAreHeldFor'
  <2>1. CASE Rollback(q, "not_found")
      BY <1>r, <2>1
  <2>2. CASE Goto(q, "version") /\ Take(q, AgentFor(q))
    <3>1. /\ req'[q].pc = "version"
          /\ \A o \in Requests \ {q} : req'[o] = req[o]
        BY <1>t, <2>2 DEF Goto, ReqState
    <3>2. Writes(q) /\ req[q].pc = "agent"
        BY <1>3 DEF LockAgent, At, VersionInv, RequestInv, OnItsWay
    <3>3. \A x \in Rows : owner[x] = q => Decides(q) /\ x = On(q)
        BY <1>t, <3>2 DEF LocksAreHeldFor, HoldsFor
    <3>4. \A x \in Rows : \/ x = AgentFor(q) /\ owner'[x] = q
                          \/ owner'[x] = owner[x]
        BY <1>t, <2>2 DEF Take
    <3>5. \A x \in Rows : owner'[x] = q => HoldsFor(q, x)'
        BY <3>1, <3>2, <3>3, <3>4 DEF HoldsFor
    <3>6. QED
        BY <1>o, <3>1, <3>4, <3>5, LocksStay
  <2>3. QED
      BY <1>3, <2>1, <2>2 DEF LockAgent
<1>4. ASSUME NEW q \in Requests, ReadVersion(q) PROVE LocksAreHeldFor'
  <2>1. /\ req[q].pc = "version" /\ req'[q].pc = "insert" /\ owner' = owner
        /\ \A o \in Requests \ {q} : req'[o] = req[o]
      BY <1>t, <1>4 DEF ReadVersion, At
  <2>2. QED
      BY <1>c, <2>1 DEF Step
<1>5. ASSUME NEW q \in Requests, Insert(q) PROVE LocksAreHeldFor'
  <2>1. CASE Rollback(q, "clash")
      BY <1>r, <2>1
  <2>2. CASE Continue(q, "write")
    <3>1. /\ req[q].pc = "insert" /\ req'[q].pc = "write" /\ owner' = owner
          /\ \A o \in Requests \ {q} : req'[o] = req[o]
        BY <1>t, <1>5, <2>2 DEF Insert, At, Continue, Goto, ReqState
    <3>2. QED
        BY <1>c, <3>1 DEF Step
  <2>3. QED
      BY <1>5, <2>1, <2>2 DEF Insert
<1>6. ASSUME NEW q \in Requests, Commit(q) PROVE LocksAreHeldFor'
  <2>1. \A x \in Rows : owner'[x] # q /\ (owner'[x] # Nobody => owner'[x] = owner[x])
      BY <1>t, <1>6 DEF Commit, Release
  <2>2. \A o \in Requests \ {q} : req'[o] = req[o]
      BY <1>6, CommitFacts
  <2>3. QED
      BY <1>o, <2>1, <2>2, LocksStay
<1>7. ASSUME NEW q \in Requests, Delete(q) PROVE LocksAreHeldFor'
  <2>1. req[q].pc = "delete" /\ owner' = owner
      BY <1>7 DEF Delete, At
  <2>2. \A x \in Rows : owner[x] # q
      BY <1>t, <2>1 DEF LocksAreHeldFor, HoldsFor
  <2>3. \A o \in Requests \ {q} : req'[o] = req[o]
      BY <1>t, <1>7 DEF Delete, Goto, EndsOfCommit
  <2>4. QED
      BY <1>o, <2>1, <2>2, <2>3, LocksStay
<1>8. ASSUME NEW p \in Proposals, Propose(p) \/ DeleteConversation(p)
      PROVE  LocksAreHeldFor'
    BY <1>8, <1>u DEF Propose, DeleteConversation
<1>9. CASE UNCHANGED versionVars
    BY <1>9, <1>u DEF versionVars
<1>10. ASSUME NEW q \in Requests, Tell(q) PROVE LocksAreHeldFor'
  <2>1. /\ req[q].pc = "write" /\ req'[q].pc = "told" /\ owner' = owner
        /\ \A o \in Requests \ {q} : req'[o] = req[o]
      BY <1>t, <1>10 DEF Tell, At, Continue, Goto, ReqState
  <2>2. QED
      BY <1>c, <2>1 DEF Step
<1>11. QED
    BY <1>1, <1>2, <1>3, <1>4, <1>5, <1>6, <1>7, <1>8, <1>9, <1>10, <1>r
    DEF VersionNext, Work, Abort

\* A request that holds the lock of an agent waits for nobody.
LEMMA AgentHolderMoves ==
    ASSUME VersionInv, NEW q \in Requests, Writes(q),
           req[q].pc \in {"version", "insert", "write", "told"}
    PROVE  CanMove(q)
<1>1. \A o \in Requests : ~Blocks(o, q)
    BY DEF Blocks, WaitsFor, At
<1>2. ASSUME NEW o \in Requests PROVE ~WaitsOnIndex(q, o)
  <2>1. SUFFICES ASSUME WaitsOnIndex(q, o) PROVE FALSE
      OBVIOUS
  <2>2. owner[AgentFor(q)] = q /\ owner[AgentFor(o)] = o
      BY <2>1 DEF WaitsOnIndex, At, VersionInv, RequestInv, HoldsAgent
  <2>3. QED
      BY <2>1, <2>2 DEF WaitsOnIndex
<1>3. QED
    BY <1>1, <1>2 DEF CanMove, Running, Step

\* So whoever waits for an agent is next but one at most.
LEMMA WaitForAgent ==
    ASSUME VersionInv, LocksAreHeldFor, NEW q \in Requests, NEW x \in Agents,
           owner[x] # Nobody
    PROVE  owner[x] \in Requests /\ CanMove(owner[x])
<1>1. x \in Rows /\ x \notin Proposals /\ owner[x] \in Requests
    BY VersionAssumption DEF Rows, VersionInv, VersionTypeOK
<1>2. Decides(owner[x]) => On(owner[x]) \in Proposals
    BY <1>1, TaskFacts
<1>3. /\ Writes(owner[x])
      /\ req[owner[x]].pc \in {"version", "insert", "write", "told"}
    BY <1>1, <1>2 DEF LocksAreHeldFor, HoldsFor
<1>4. QED
    BY <1>1, <1>3, AgentHolderMoves

\* A running request goes on, or waits for one of those two.
LEMMA ChainIsShort ==
    ASSUME VersionInv, LocksAreHeldFor
    PROVE  ChainsEnd
<1> SUFFICES ASSUME NEW q \in Requests, Running(q), ~CanMove(q)
             PROVE  \E o \in Requests :
                       /\ Blocks(o, q)
                       /\ CanMove(o) \/ \E p \in Requests : Blocks(p, o) /\ CanMove(p)
    BY DEF ChainsEnd
<1>t. /\ AgentFor(q) \in Agents /\ AgentFor(q) \in Rows /\ On(q) \in Rows
      /\ Decides(q) => On(q) \in Proposals
      /\ ~Decides(q) => On(q) \in Agents
      /\ owner \in [Rows -> Requests \union {Nobody}] /\ Nobody \notin Requests
    BY TaskFacts, VersionAssumption DEF Rows, VersionInv, VersionTypeOK
\* Who waits for an agent.
<1>a. ASSUME NEW o \in Requests, NEW x \in Agents, WaitsFor(o, x), NEW p \in Requests,
             owner[x] = p
      PROVE  Blocks(p, o) /\ CanMove(p)
    BY <1>a, <1>t, WaitForAgent DEF Blocks, Rows
<1>1. \E o \in Requests : Blocks(o, q) \/ WaitsOnIndex(q, o)
    BY DEF CanMove
<1>2. \A o \in Requests : ~WaitsOnIndex(q, o)
  <2>1. SUFFICES ASSUME At(q, "insert") PROVE FALSE
      BY DEF WaitsOnIndex
  <2>2. Writes(q)
      BY <2>1 DEF At, VersionInv, RequestInv, HoldsAgent
  <2>3. QED
      BY <2>1, <2>2, AgentHolderMoves DEF At
<1>3. PICK o \in Requests, x \in Rows : WaitsFor(q, x) /\ owner[x] = o
    BY <1>1, <1>2 DEF Blocks
<1>4. CASE x \in Agents
    BY <1>3, <1>4, <1>a
<1>5. CASE x \in Proposals
  <2>1. Blocks(o, q)
      BY <1>3 DEF Blocks
  <2>2. x \notin Agents /\ AgentFor(o) \in Agents
      BY <1>5, TaskFacts, VersionAssumption
  <2>3. /\ Decides(o) /\ x = On(o)
        /\ req[o].pc \in {"agent", "version", "insert", "write", "told"}
      BY <1>3, <1>t, <2>2 DEF LocksAreHeldFor, HoldsFor
  <2>4. CASE At(o, "agent")
    <3>1. CASE \E y \in Agents, p \in Requests : WaitsFor(o, y) /\ owner[y] = p
        BY <2>1, <3>1, <1>a
    <3>2. CASE ~ \E y \in Agents, p \in Requests : WaitsFor(o, y) /\ owner[y] = p
      <4>1. \A p \in Requests : ~Blocks(p, o)
          BY <2>2, <2>4, <3>2 DEF Blocks, WaitsFor, At
      <4>2. CanMove(o)
          BY <2>4, <4>1 DEF CanMove, Running, Step, At, WaitsOnIndex
      <4>3. QED
          BY <2>1, <4>2
    <3>3. QED
        BY <3>1, <3>2
  <2>5. CASE ~At(o, "agent") /\ Writes(o)
      BY <2>1, <2>3, <2>5, AgentHolderMoves DEF At
  <2>6. CASE ~At(o, "agent") /\ ~Writes(o)
    <3>1. req[o].pc \in {"write", "told"}
        BY <2>3, <2>6 DEF At, VersionInv, RequestInv, HoldsAgent
    <3>2. CanMove(o)
        BY <3>1 DEF CanMove, Running, Step, At, Blocks, WaitsFor, WaitsOnIndex
    <3>3. QED
        BY <2>1, <3>2
  <2>7. QED
      BY <2>4, <2>5, <2>6
<1>6. QED
    BY <1>3, <1>4, <1>5 DEF Rows

\* Every lock belongs to a request that is at work behind the statement that
\* takes it: none is left behind on any path, a rollback or an abort included
\* (prompt_proposal/repository.py and prompt/repository.py, with_for_update).
THEOREM LocksAreGivenBack == VersionSpec => []LocksAreHeldFor
<1>1. VersionInit => LocksAreHeldFor
    BY DEF VersionInit, LocksAreHeldFor
<1>2. VersionInv /\ LocksAreHeldFor /\ [VersionNext]_versionVars => LocksAreHeldFor'
    BY LockStep
<1>3. QED
    BY <1>1, <1>2, VersionInvariant, PTL DEF VersionSpec

\* Requests cannot wait in a circle, however many there are: a proposal is
\* locked before an agent, and who has the agent waits for nobody.  This is
\* what EveryRequestEnds rests on.
THEOREM NoCircularWait == VersionSpec => []ChainsEnd
<1>1. VersionInv /\ LocksAreHeldFor => ChainsEnd
    BY ChainIsShort
<1>2. QED
    BY <1>1, VersionInvariant, LocksAreGivenBack, PTL

-----------------------------------------------------------------------------
(* Outcomes *)

WrittenBy(q) == {x \in prompts : x.by = q}

Committed(q) == req[q].pc \in Written

\* What the tables say of a request that has ended, whatever others do later:
\* what it committed is there, and what it rolled back is not, a decision that
\* was answered 200 included.
OutcomeTrue(q) ==
    /\ WrittenBy(q) = IF Committed(q) THEN NewPrompts(q) ELSE {}
    /\ Committed(q) /\ Kind(q) = "approve" =>
          proposal[On(q)] = [status |-> "approved", prompt |-> req[q].version]
    /\ Committed(q) /\ Kind(q) = "discard" => proposal[On(q)].status = "discarded"
    /\ Committed(q) /\ Kind(q) = "delete" => On(q) \in hidden
    /\ At(q, "conflict") => Decides(q) /\ proposal[On(q)].status \in Decided
    /\ At(q, "not_found") /\ ~Decides(q) => On(q) \in hidden
    /\ At(q, "untrue") => Decides(q)
    /\ At(q, "unanswered") => ~Decides(q)

OutcomesTrue == \A q \in Requests : OutcomeTrue(q)

\* A decision that was answered 200 and is not rolled back.
Stands(q) == Decides(q) /\ (At(q, "told") \/ Committed(q))

OneDecision ==
    \A q, o \in Requests : Stands(q) /\ Stands(o) /\ On(q) = On(o) => q = o

\* What a decision finds stays.
Known(q) == At(q, "lock") => proposal[On(q)].status # "none"

OneCommitted ==
    \A q, o \in Requests :
        /\ Committed(q) /\ Committed(o) /\ Decides(q) /\ Decides(o) /\ On(q) = On(o)
        => q = o

OutcomeInv == OutcomesTrue /\ OneCommitted /\ \A q \in Requests : Known(q)

\* Nothing that a request may rely on is taken back by a step that leaves the
\* request where it is.
LEMMA OutcomeStays ==
    ASSUME VersionInv, NEW q \in Requests, OutcomeTrue(q), Known(q), req'[q] = req[q],
           hidden \subseteq hidden',
           \A x \in prompts' : x \in prompts \/ x.by # q,
           prompts \subseteq prompts',
           Decides(q) => \/ proposal'[On(q)] = proposal[On(q)]
                         \/ /\ proposal[On(q)].status \in {"none", "pending"}
                            /\ proposal'[On(q)].status # "none"
    PROVE  OutcomeTrue(q)' /\ Known(q)'
<1>1. WrittenBy(q)' = WrittenBy(q) /\ NewPrompts(q)' = NewPrompts(q)
    BY DEF WrittenBy, NewPrompts
<1>2. At(q, "lock") => Decides(q)
    BY DEF At, VersionInv, RequestInv, OnItsWay
<1>3. Committed(q) /\ Kind(q) \in {"approve", "discard"} =>
          proposal'[On(q)] = proposal[On(q)]
    BY DEF OutcomeTrue, Decides
<1>4. At(q, "conflict") => proposal'[On(q)] = proposal[On(q)]
    BY DEF OutcomeTrue, Decided
<1>5. QED
    BY <1>1, <1>2, <1>3, <1>4 DEF OutcomeTrue, Known, At, Committed

\* A step of q that touches neither table: what its own end says is true, and
\* the others keep theirs.
LEMMA LocalOutcomes ==
    ASSUME VersionInv, OutcomeInv, NEW q \in Requests,
           UNCHANGED <<prompts, proposal>>, hidden \subseteq hidden',
           \A o \in Requests \ {q} : req'[o] = req[o],
           ~Committed(q), Committed(q)' => ~Decides(q),
           OutcomeTrue(q)' /\ Known(q)'
    PROVE  OutcomeInv'
<1>1. ASSUME NEW o \in Requests \ {q} PROVE OutcomeTrue(o)' /\ Known(o)'
    BY <1>1, OutcomeStays DEF OutcomeInv, OutcomesTrue
<1>2. OneCommitted'
    BY DEF OutcomeInv, OneCommitted, Committed
<1>3. QED
    BY <1>1, <1>2 DEF OutcomeInv, OutcomesTrue

\* A transaction that is rolled back.
LEMMA RollbackOutcomes ==
    ASSUME VersionInv, OutcomeInv, NEW q \in Requests,
           NEW end \in {"conflict", "not_found", "clash", "aborted", "untrue"},
           Rollback(q, end), ~Committed(q),
           end = "conflict" => Decides(q) /\ proposal[On(q)].status \in Decided,
           end = "not_found" /\ ~Decides(q) => On(q) \in hidden,
           end = "untrue" => Decides(q)
    PROVE  OutcomeInv'
<1>1. /\ req'[q].pc = end /\ \A o \in Requests \ {q} : req'[o] = req[o]
      /\ UNCHANGED <<prompts, proposal, hidden>>
    BY DEF Rollback, Goto, VersionInv, VersionTypeOK, ReqState
<1>2. WrittenBy(q)' = {}
    BY <1>1 DEF OutcomeInv, OutcomesTrue, OutcomeTrue, WrittenBy
<1>3. OutcomeTrue(q)' /\ Known(q)'
    BY <1>1, <1>2 DEF OutcomeTrue, Known, At, Committed, Written
<1>4. QED
    BY <1>1, <1>3, LocalOutcomes DEF Committed, Written

\* A transaction that goes on has no outcome yet.
LEMMA GoingOnOutcomes ==
    ASSUME VersionInv, OutcomeInv, NEW q \in Requests, ~Committed(q),
           UNCHANGED <<prompts, proposal, hidden>>,
           req'[q].pc \in Step, \A o \in Requests \ {q} : req'[o] = req[o],
           req'[q].pc = "lock" => proposal[On(q)].status # "none"
    PROVE  OutcomeInv'
<1>1. WrittenBy(q)' = {}
    BY DEF OutcomeInv, OutcomesTrue, OutcomeTrue, WrittenBy
<1>2. OutcomeTrue(q)' /\ Known(q)'
    BY <1>1 DEF OutcomeTrue, Known, At, Step, Committed, Written
<1>3. QED
    BY <1>2, LocalOutcomes DEF Committed, Written, Step

\* A commit stores what was flushed, and takes back nothing that is stored.
LEMMA CommitOutcomes ==
    ASSUME VersionInv, OutcomeInv, NEW q \in Requests, Commit(q)
    PROVE  OutcomeInv'
<1>1. /\ req[q].pc \in {"write", "told"} /\ RequestInv(q)
      /\ req'[q].pc \in Written /\ req'[q].version = req[q].version
      /\ \A o \in Requests \ {q} : req'[o] = req[o]
      /\ prompts' = prompts \union NewPrompts(q) /\ hidden' = hidden
    BY CommitFacts DEF Commit
<1>d. Decides(q) => req'[q].pc = "committed"
  <2>1. ASSUME Decides(q) PROVE Goto(q, "committed")
      BY <2>1 DEF Commit, EndsOfCommit
  <2>2. QED
      BY <2>1 DEF Goto, VersionInv, VersionTypeOK, ReqState
<1>2. /\ Decides(q) => /\ On(q) \in Proposals /\ proposal[On(q)].status = "pending"
                       /\ proposal'[On(q)] = NewVerdict(q)
      /\ \A p \in Proposals : ~Decides(q) \/ p # On(q) => proposal'[p] = proposal[p]
    BY CommitDecides DEF Commit, VersionInv, VersionTypeOK
<1>3. OutcomeTrue(q)' /\ Known(q)'
  <2>1. WrittenBy(q)' = NewPrompts(q)'
    <3>1. WrittenBy(q) = {}
        BY <1>1 DEF OutcomeInv, OutcomesTrue, OutcomeTrue, Committed, Written
    <3>2. \A x \in NewPrompts(q) : x.by = q
        BY DEF NewPrompts
    <3>3. NewPrompts(q)' = NewPrompts(q)
        BY <1>1 DEF NewPrompts
    <3>4. QED
        BY <1>1, <3>1, <3>2, <3>3 DEF WrittenBy
  <2>2. Kind(q) # "delete"
      BY <1>1 DEF RequestInv, OnItsWay, Writes, Decides
  <2>3. Kind(q) = "approve" =>
            proposal'[On(q)] = [status |-> "approved", prompt |-> req'[q].version]
      BY <1>1, <1>2 DEF NewVerdict, Decides
  <2>4. Kind(q) = "discard" => proposal'[On(q)].status = "discarded"
    <3>1. Kind(q) = "discard" => proposal[On(q)] \in Verdict
        BY <1>2 DEF Decides, VersionInv, VersionTypeOK
    <3>2. QED
        BY <1>2, <3>1 DEF NewVerdict, Decides, Verdict
  <2>5. QED
      BY <1>1, <1>d, <2>1, <2>2, <2>3, <2>4 DEF OutcomeTrue, Known, At, Committed, Written
<1>4. ASSUME NEW o \in Requests \ {q} PROVE OutcomeTrue(o)' /\ Known(o)'
  <2>1. \A x \in prompts' : x \in prompts \/ x.by # o
      BY <1>1 DEF NewPrompts
  <2>2. Decides(o) => On(o) \in Proposals
      BY TaskFacts
  <2>3. Decides(q) => NewVerdict(q).status # "none"
    <3>1. Decides(q) => proposal[On(q)] \in Verdict
        BY <1>2 DEF VersionInv, VersionTypeOK
    <3>2. QED
        BY <3>1 DEF NewVerdict, Verdict
  <2>4. Decides(o) => \/ proposal'[On(o)] = proposal[On(o)]
                      \/ /\ proposal[On(o)].status \in {"none", "pending"}
                         /\ proposal'[On(o)].status # "none"
      BY <1>2, <2>2, <2>3
  <2>5. QED
      BY <1>1, <2>1, <2>4, OutcomeStays DEF OutcomeInv, OutcomesTrue
<1>5. OneCommitted'
  <2>1. ASSUME NEW o \in Requests \ {q}, Committed(o), Decides(o), Decides(q), On(o) = On(q)
        PROVE  FALSE
    <3>1. OutcomeTrue(o)
        BY DEF OutcomeInv, OutcomesTrue
    <3>2. proposal[On(o)].status \in {"approved", "discarded"}
        BY <2>1, <3>1 DEF OutcomeTrue, Decides
    <3>3. QED
        BY <1>2, <2>1, <3>2
  <2>2. \A o \in Requests \ {q} : Committed(o)' => Committed(o)
      BY <1>1 DEF Committed
  <2>3. QED
      BY <2>1, <2>2 DEF OutcomeInv, OneCommitted
<1>6. QED
    BY <1>3, <1>4, <1>5 DEF OutcomeInv, OutcomesTrue

\* Every step keeps the outcomes true.
LEMMA OutcomeStep ==
    ASSUME VersionInv, OutcomeInv, [VersionNext]_versionVars
    PROVE  OutcomeInv'
<1>t. req \in [Requests -> ReqState] /\ proposal \in [Proposals -> Verdict]
    BY DEF VersionInv, VersionTypeOK
<1>1. ASSUME NEW q \in Requests, Find(q) PROVE OutcomeInv'
  <2>1. ASSUME NEW pc \in {"lock", "delete", "agent"}, Continue(q, pc),
               pc = "lock" => Owned(On(q))
        PROVE  OutcomeInv'
    <3>1. req'[q].pc = pc /\ \A o \in Requests \ {q} : req'[o] = req[o]
        BY <1>t, <2>1 DEF Continue, Goto, ReqState
    <3>2. req[q].pc = "new"
        BY <1>1 DEF Find, At
    <3>3. QED
        BY <2>1, <3>1, <3>2, GoingOnOutcomes DEF Continue, Owned, Step, Committed, Written
  <2>2. CASE Rollback(q, "not_found") /\ (Decides(q) \/ On(q) \in hidden)
      BY <1>1, <2>2, RollbackOutcomes DEF Find, At, Committed, Written
  <2>3. QED
      BY <1>1, <2>1, <2>2 DEF Find
<1>2. ASSUME NEW q \in Requests, LockProposal(q) PROVE OutcomeInv'
  <2>1. Decides(q) /\ On(q) \in Proposals /\ req[q].pc = "lock"
        /\ proposal[On(q)].status # "none"
      BY <1>2, TaskFacts
      DEF LockProposal, At, VersionInv, RequestInv, OnItsWay, OutcomeInv, Known
  <2>2. CASE ~Undecided(q) /\ Rollback(q, "conflict")
    <3>1. proposal[On(q)].status \in Decided
        BY <1>t, <2>1, <2>2 DEF Undecided, Verdict
    <3>2. QED
        BY <2>1, <2>2, <3>1, RollbackOutcomes DEF Committed, Written
  <2>3. CASE /\ Goto(q, IF Kind(q) = "approve" THEN "agent" ELSE "write")
             /\ UNCHANGED <<prompts, proposal, hidden>>
    <3>1. /\ req'[q].pc \in {"agent", "write"}
          /\ \A o \in Requests \ {q} : req'[o] = req[o]
        BY <1>t, <2>3 DEF Goto, ReqState
    <3>2. QED
        BY <2>1, <2>3, <3>1, GoingOnOutcomes DEF Committed, Written, Step
  <2>4. QED
      BY <1>2, <2>2, <2>3 DEF LockProposal
<1>3. ASSUME NEW q \in Requests, LockAgent(q) PROVE OutcomeInv'
  <2>1. req[q].pc = "agent"
      BY <1>3 DEF LockAgent, At
  <2>2. CASE AgentFor(q) \in hidden /\ Rollback(q, "not_found")
      BY <2>1, <2>2, RollbackOutcomes DEF Committed, Written, AgentFor
  <2>3. CASE Goto(q, "version") /\ UNCHANGED <<prompts, proposal, hidden>>
    <3>1. req'[q].pc = "version" /\ \A o \in Requests \ {q} : req'[o] = req[o]
        BY <1>t, <2>3 DEF Goto, ReqState
    <3>2. QED
        BY <2>1, <2>3, <3>1, GoingOnOutcomes DEF Committed, Written, Step
  <2>4. QED
      BY <1>3, <2>2, <2>3 DEF LockAgent
<1>4. ASSUME NEW q \in Requests, ReadVersion(q) PROVE OutcomeInv'
  <2>1. /\ req[q].pc = "version" /\ req'[q].pc = "insert"
        /\ \A o \in Requests \ {q} : req'[o] = req[o]
      BY <1>t, <1>4 DEF ReadVersion, At
  <2>2. QED
      BY <1>4, <2>1, GoingOnOutcomes DEF ReadVersion, Committed, Written, Step
<1>5. ASSUME NEW q \in Requests, Insert(q) PROVE OutcomeInv'
  <2>1. req[q].pc = "insert"
      BY <1>5 DEF Insert, At
  <2>2. CASE Rollback(q, "clash")
      BY <2>1, <2>2, RollbackOutcomes DEF Committed, Written
  <2>3. CASE Continue(q, "write")
    <3>1. req'[q].pc = "write" /\ \A o \in Requests \ {q} : req'[o] = req[o]
        BY <1>t, <2>3 DEF Continue, Goto, ReqState
    <3>2. QED
        BY <2>1, <2>3, <3>1, GoingOnOutcomes DEF Continue, Committed, Written, Step
  <2>4. QED
      BY <1>5, <2>2, <2>3 DEF Insert
<1>6. ASSUME NEW q \in Requests, Commit(q) PROVE OutcomeInv'
    BY <1>6, CommitOutcomes
<1>7. ASSUME NEW q \in Requests, Delete(q) PROVE OutcomeInv'
  <2>0. PICK end \in Written : Goto(q, end)
      BY <1>7 DEF Delete, EndsOfCommit, Written
  <2>1. /\ req[q].pc = "delete" /\ Kind(q) = "delete" /\ req'[q].pc \in Written
        /\ \A o \in Requests \ {q} : req'[o] = req[o]
        /\ UNCHANGED <<prompts, proposal>> /\ hidden' = hidden \union {On(q)}
      BY <1>t, <1>7, <2>0 DEF Delete, At, Goto, ReqState, VersionInv, RequestInv, OnItsWay
  <2>2. OutcomeTrue(q)' /\ Known(q)'
    <3>1. WrittenBy(q)' = {} /\ NewPrompts(q)' = {}
        BY <2>1 DEF OutcomeInv, OutcomesTrue, OutcomeTrue, WrittenBy, NewPrompts, Writes,
                    Committed, Written
    <3>2. QED
        BY <2>1, <3>1 DEF OutcomeTrue, Known, At, Committed, Written, Decides
  <2>3. QED
      BY <2>1, <2>2, LocalOutcomes DEF Committed, Written, Decides
<1>8. ASSUME NEW q \in Requests, Abort(q) PROVE OutcomeInv'
  <2>1. ~Committed(q)
      BY <1>8 DEF Abort, Running, Step, Committed, Written
  <2>2. At(q, "told") => Decides(q)
      BY DEF At, VersionInv, RequestInv, OnItsWay
  <2>3. PICK end \in {"aborted", "untrue"} : Rollback(q, end) /\ (end = "untrue" => Decides(q))
      BY <1>8, <2>2 DEF Abort
  <2>4. QED
      BY <2>1, <2>3, RollbackOutcomes
<1>9. ASSUME NEW p \in Proposals, Propose(p) \/ DeleteConversation(p) PROVE OutcomeInv'
  <2>1. /\ req' = req /\ prompts' = prompts /\ hidden \subseteq hidden'
        /\ \A x \in Proposals : \/ proposal'[x] = proposal[x]
                                \/ /\ proposal[x].status = "none"
                                   /\ proposal'[x].status = "pending"
      BY <1>t, <1>9 DEF Propose, DeleteConversation, Verdict
  <2>2. ASSUME NEW q \in Requests PROVE OutcomeTrue(q)' /\ Known(q)'
    <3>1. Decides(q) => On(q) \in Proposals
        BY TaskFacts
    <3>2. QED
        BY <2>1, <3>1, OutcomeStays DEF OutcomeInv, OutcomesTrue
  <2>3. QED
      BY <2>1, <2>2 DEF OutcomeInv, OutcomesTrue, OneCommitted, Committed
<1>10. CASE UNCHANGED versionVars
    BY <1>10
    DEF versionVars, OutcomeInv, OutcomesTrue, OutcomeTrue, OneCommitted, Known, WrittenBy,
        NewPrompts, At, Committed
<1>11. ASSUME NEW q \in Requests, Tell(q) PROVE OutcomeInv'
  <2>1. /\ req[q].pc = "write" /\ req'[q].pc = "told"
        /\ \A o \in Requests \ {q} : req'[o] = req[o]
      BY <1>t, <1>11 DEF Tell, At, Continue, Goto, ReqState
  <2>2. QED
      BY <1>11, <2>1, GoingOnOutcomes DEF Tell, Continue, Committed, Written, Step
<1>12. QED
    BY <1>1, <1>2, <1>3, <1>4, <1>5, <1>6, <1>7, <1>8, <1>9, <1>10, <1>11 DEF VersionNext, Work

LEMMA OutcomeInvariant == VersionSpec => []OutcomeInv
<1>1. VersionInit => OutcomeInv
    BY DEF VersionInit, OutcomeInv, OutcomesTrue, OutcomeTrue, OneCommitted, Known, WrittenBy,
           At, Committed, Written
<1>2. VersionInv /\ OutcomeInv /\ [VersionNext]_versionVars => OutcomeInv'
    BY OutcomeStep
<1>3. QED
    BY <1>1, <1>2, VersionInvariant, PTL DEF VersionSpec

\* What a transaction has committed stays, and what is rolled back leaves
\* nothing: an approval or a new prompt whose commit succeeded has its version for
\* good, whatever was answered; a request that was refused, and a decision that
\* was answered 200 and then failed to commit, has written nothing; and who was
\* told that the proposal is decided already was told so rightly.  That a 200
\* means a commit is not so (prompt_proposal/router.py, the commit behind yield).
THEOREM OutcomesStayTrue == VersionSpec => []OutcomesTrue
<1>1. OutcomeInv => OutcomesTrue
    BY DEF OutcomeInv
<1>2. QED
    BY <1>1, OutcomeInvariant, PTL

\* Of the decisions about a proposal that were answered 200 all but one have
\* been rolled back: whoever is told of a second one is told after the first has
\* failed to commit (prompt_proposal/repository.py, the lock of the proposal).
THEOREM OneDecisionStands == VersionSpec => []OneDecision
<1>1. VersionInv /\ OutcomeInv => OneDecision
  <2> SUFFICES ASSUME VersionInv, OutcomeInv,
                      NEW q \in Requests, NEW o \in Requests,
                      Stands(q), Stands(o), On(q) = On(o)
               PROVE  q = o
      BY DEF OneDecision
  <2>1. ASSUME NEW r \in Requests, Stands(r), At(r, "told")
        PROVE  owner[On(r)] = r /\ proposal[On(r)].status = "pending"
      BY <2>1 DEF Stands, At, VersionInv, RequestInv, HoldsProposal, Undecided
  <2>2. ASSUME NEW r \in Requests, Stands(r), Committed(r)
        PROVE  proposal[On(r)].status \in {"approved", "discarded"}
    <3>1. OutcomeTrue(r) /\ Kind(r) \in {"approve", "discard"}
        BY <2>2 DEF Stands, Decides, OutcomeInv, OutcomesTrue
    <3>2. QED
        BY <2>2, <3>1 DEF OutcomeTrue
  <2>3. CASE At(q, "told") /\ At(o, "told")
      BY <2>1, <2>3
  <2>4. CASE Committed(q) /\ At(o, "told")
      BY <2>1, <2>2, <2>4
  <2>5. CASE At(q, "told") /\ Committed(o)
      BY <2>1, <2>2, <2>5
  <2>6. CASE Committed(q) /\ Committed(o)
      BY <2>6 DEF Stands, OutcomeInv, OneCommitted
  <2>7. At(q, "told") \/ Committed(q)
      BY DEF Stands
  <2>8. At(o, "told") \/ Committed(o)
      BY DEF Stands
  <2>9. QED
      BY <2>3, <2>4, <2>5, <2>6, <2>7, <2>8, Zenon
<1>2. QED
    BY <1>1, VersionInvariant, OutcomeInvariant, PTL
=============================================================================
