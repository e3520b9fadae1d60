--------------------------- MODULE PromptVersions ---------------------------
(***************************************************************************)
(* The versions of a prompt and the proposals that become versions.  A     *)
(* request is one transaction that takes row locks as it goes: approve and *)
(* discard lock the proposal, approve and add_prompt the agent, and        *)
(* delete_agent waits for that lock only to write.  All locks go when the  *)
(* transaction ends.  That of approve and discard ends after the answer:   *)
(* the dependency of their routes commits, which FastAPI runs when the     *)
(* answer is out, so a 200 may be followed by a rollback.                  *)
(***************************************************************************)
EXTENDS Integers, FiniteSetsExt

CONSTANTS
    Agents,
    Proposals,
    AgentOf,     \* AgentOf[p]: the agent whose prompt proposal p rewrites
    Requests,    \* the HTTP requests
    TaskOf,      \* TaskOf[q]: what request q asks for, and of which row
    Nobody       \* the owner of a lock that is free

Rows == Agents \union Proposals

Task ==
    [kind : {"approve", "discard"}, on : Proposals] \union
    [kind : {"add", "delete"}, on : Agents]

ASSUME VersionAssumption ==
    /\ Agents \intersect Proposals = {}
    /\ AgentOf \in [Proposals -> Agents]
    /\ TaskOf \in [Requests -> Task]
    /\ Nobody \notin Requests

VARIABLES
    prompts,    \* the committed prompts
    proposal,   \* proposal[p]: status and approved_prompt
    hidden,     \* the rows deleted, for a proposal with its conversation
    owner,      \* owner[x]: the request that holds the lock of row x
    req         \* req[q]: where request q is and the version it computed

versionVars == <<prompts, proposal, hidden, owner, req>>

Decided == {"approved", "discarded"}

Prompt   == [agent : Agents, version : Nat \ {0}, by : Requests]
Verdict  == [status : {"none", "pending"} \union Decided, prompt : Nat]
Step     == {"new", "lock", "agent", "version", "insert", "write", "told", "delete"}

\* unanswered: committed, though the route answered an error; untrue: rolled
\* back, though the route answered 200.
Written  == {"committed", "unanswered"}
Ended    == Written \union {"conflict", "not_found", "clash", "aborted", "untrue"}
ReqState == [pc : Step \union Ended, version : Nat]

VersionTypeOK ==
    /\ prompts \subseteq Prompt
    /\ proposal \in [Proposals -> Verdict]
    /\ hidden \subseteq Rows
    /\ owner \in [Rows -> Requests \union {Nobody}]
    /\ req \in [Requests -> ReqState]

VersionInit ==
    /\ prompts = {}
    /\ proposal = [p \in Proposals |-> [status |-> "none", prompt |-> 0]]
    /\ hidden = {}
    /\ owner = [x \in Rows |-> Nobody]
    /\ req = [q \in Requests |-> [pc |-> "new", version |-> 0]]

-----------------------------------------------------------------------------
(* Tasks, rows and versions *)

Kind(q)     == TaskOf[q].kind
On(q)       == TaskOf[q].on
Decides(q)  == Kind(q) \in {"approve", "discard"}
Writes(q)   == Kind(q) \in {"approve", "add"}
AgentFor(q) == IF Decides(q) THEN AgentOf[On(q)] ELSE On(q)

Versions(a) == {x.version : x \in {y \in prompts : y.agent = a}}

\* max(Prompt.version), 0 when there is none.
Latest(a) == Max(Versions(a) \union {0})

NextVersionOfNone(a) == IF Versions(a) = {} THEN 2 ELSE Latest(a) + 1
NextVersionSame(a)   == Latest(a)
NextVersion(a)       == Latest(a) + 1

\* _owned: neither the conversation nor the agent of the proposal is deleted.
Owned(p) == proposal[p].status # "none" /\ {p, AgentOf[p]} \intersect hidden = {}

FreeForAll(x) == TRUE
Free(x) == owner[x] = Nobody

-----------------------------------------------------------------------------
(* Steps of a transaction *)

At(q, pc)   == req[q].pc = pc
Goto(q, pc) == req' = [req EXCEPT ![q].pc = pc]

Take(q, x) == owner' = [owner EXCEPT ![x] = q]

ReleaseOnCommit(q) ==
    owner' = [x \in Rows |->
                IF owner[x] = q /\ req'[q].pc \in Written THEN Nobody ELSE owner[x]]

\* The locks of a transaction go at its end.
Release(q) ==
    owner' = [x \in Rows |-> IF owner[x] = q THEN Nobody ELSE owner[x]]

\* The end of a transaction that stores nothing.
Rollback(q, end) ==
    /\ Goto(q, end)
    /\ Release(q)
    /\ UNCHANGED <<prompts, proposal, hidden>>

Continue(q, pc) ==
    /\ Goto(q, pc)
    /\ UNCHANGED <<prompts, proposal, hidden, owner>>

\* The first SELECT: of approve and discard, what its snapshot shows, before
\* it waits for the row; of delete_agent, without a lock.
Find(q) ==
    /\ At(q, "new")
    /\ \/ Decides(q) /\ Owned(On(q)) /\ Continue(q, "lock")
       \/ Kind(q) = "delete" /\ On(q) \notin hidden /\ Continue(q, "delete")
       \/ Kind(q) = "add" /\ Continue(q, "agent")
       \/ Decides(q) /\ ~Owned(On(q)) /\ Rollback(q, "not_found")
       \/ Kind(q) = "delete" /\ On(q) \in hidden /\ Rollback(q, "not_found")

StillThere(q) == proposal[On(q)].status # "none"
Undecided(q)  == proposal[On(q)].status = "pending"

\* The row is locked, read again, and its status tested.
LockProposal(q) ==
    /\ At(q, "lock")
    /\ Free(On(q))
    /\ \/ /\ Undecided(q)
          /\ Goto(q, IF Kind(q) = "approve" THEN "agent" ELSE "write")
          /\ Take(q, On(q))
          /\ UNCHANGED <<prompts, proposal, hidden>>
       \/ ~Undecided(q) /\ Rollback(q, "conflict")

\* The agent is locked, unless it is deleted or was while the request waited.
LockAgent(q) ==
    /\ At(q, "agent")
    /\ \/ /\ Free(AgentFor(q))
          /\ AgentFor(q) \notin hidden
          /\ Goto(q, "version")
          /\ Take(q, AgentFor(q))
          /\ UNCHANGED <<prompts, proposal, hidden>>
       \/ AgentFor(q) \in hidden /\ Rollback(q, "not_found")

\* create_next_prompt reads the newest committed version ...
ReadVersion(q) ==
    /\ At(q, "version")
    /\ req' = [req EXCEPT ![q] = [pc |-> "insert", version |-> NextVersion(AgentFor(q))]]
    /\ UNCHANGED <<prompts, proposal, hidden, owner>>

\* ... and inserts the next one.  The unique index lets an insert wait for
\* another transaction with the same version, and refuses it when that commits.
Inserted(q) == req[q].pc \in {"write", "told"} /\ Writes(q)

Insert(q) ==
    /\ At(q, "insert")
    /\ \A o \in Requests \ {q} :
          Inserted(o) /\ AgentFor(o) = AgentFor(q) => req[o].version # req[q].version
    /\ IF req[q].version \in Versions(AgentFor(q))
       THEN Rollback(q, "clash")
       ELSE Continue(q, "write")

\* approve and discard answer with what they flushed; the locks are still held.
Tell(q) == At(q, "write") /\ Decides(q) /\ Continue(q, "told")

\* The commit of what was flushed: the prompt, and the status of the proposal.
NewPrompts(q) ==
    IF Writes(q)
    THEN {[agent |-> AgentFor(q), version |-> req[q].version, by |-> q]}
    ELSE {}

NewVerdict(q) ==
    IF Kind(q) = "approve"
    THEN [status |-> "approved", prompt |-> req[q].version]
    ELSE [proposal[On(q)] EXCEPT !.status = "discarded"]

\* The reply of a commit may be lost: add_prompt and delete_agent, which commit
\* before they answer, then answer an error.
EndsOfCommit(q) == IF Decides(q) THEN {"committed"} ELSE Written

Commit(q) ==
    /\ At(q, IF Decides(q) THEN "told" ELSE "write")
    /\ prompts' = prompts \union NewPrompts(q)
    /\ proposal' = IF Decides(q) THEN [proposal EXCEPT ![On(q)] = NewVerdict(q)]
                   ELSE proposal
    /\ \E end \in EndsOfCommit(q) : Goto(q, end)
    /\ Release(q)
    /\ UNCHANGED hidden

\* UPDATE agents SET deleted_at: waits for the row and commits at once.
Delete(q) ==
    /\ At(q, "delete")
    /\ Free(On(q))
    /\ hidden' = hidden \union {On(q)}
    /\ \E end \in EndsOfCommit(q) : Goto(q, end)
    /\ UNCHANGED <<prompts, proposal, owner>>

Running(q) == req[q].pc \in Step \ {"new"}

\* The client is gone, the process dies or the connection fails.
Abort(q) == Running(q) /\ Rollback(q, IF At(q, "told") THEN "untrue" ELSE "aborted")

Work(q) ==
    \/ LockProposal(q) \/ LockAgent(q) \/ ReadVersion(q) \/ Insert(q)
    \/ Tell(q) \/ Commit(q) \/ Delete(q)

-----------------------------------------------------------------------------
(* What comes from the conversations *)

\* create_for_message in the transaction of an answer; the foreign key waits
\* for the lock of the agent.  A conversation starts from a prompt.
Propose(p) ==
    /\ proposal[p].status = "none"
    /\ p \notin hidden
    /\ Versions(AgentOf[p]) # {}
    /\ Free(AgentOf[p])
    /\ proposal' = [proposal EXCEPT ![p].status = "pending"]
    /\ UNCHANGED <<prompts, hidden, owner, req>>

\* delete_session, which looks at no proposal.
DeleteConversation(p) ==
    /\ p \notin hidden
    /\ hidden' = hidden \union {p}
    /\ UNCHANGED <<prompts, proposal, owner, req>>

VersionNext ==
    \/ \E q \in Requests : Find(q) \/ Work(q) \/ Abort(q)
    \/ \E p \in Proposals : Propose(p) \/ DeleteConversation(p)

VersionSpec == VersionInit /\ [][VersionNext]_versionVars

-----------------------------------------------------------------------------
(* Properties *)

\* The versions of an agent are 1, 2, ..., n: no gap and no number twice,
\* whatever is approved, added, rolled back or deleted at the same time.
GaplessVersions ==
    \A a \in Agents :
        /\ Versions(a) = 1 .. Latest(a)
        /\ \A x, y \in prompts :
              x.agent = a /\ y.agent = a /\ x.version = y.version => x = y

\* The prompts that the approval of proposal p created.
MadeFrom(p) == {x \in prompts : Kind(x.by) = "approve" /\ On(x.by) = p}

\* A proposal is approved exactly when there is a version made from it, one
\* only, and it points to that version (prompt_proposal/repository.py, approve).
ApprovedIsVersioned ==
    \A p \in Proposals :
        IF proposal[p].status = "approved"
        THEN \E x \in prompts : MadeFrom(p) = {x} /\ x.version = proposal[p].prompt
        ELSE MadeFrom(p) = {}

\* The lock of the agent makes the unique index of the versions idle: no
\* request fails on it (prompt/repository.py, create_next_prompt).
NoVersionClash == \A q \in Requests : ~At(q, "clash")

\* Of two decisions about a proposal the second is refused.
DecidedOnce ==
    [][\A p \in Proposals : proposal[p].status \in Decided =>
          proposal'[p] = proposal[p]]_versionVars

\* A deleted agent gets no version, not even from a request that found the
\* agent before it was deleted.
NothingAfterDeletion ==
    [][\A x \in prompts' \ prompts : x.agent \notin hidden]_versionVars

Log == INSTANCE VersionLog WITH
    count   <- [a \in Agents |-> Latest(a)],
    verdict <- proposal

\* Whatever the interleaving, prompts and proposals are the log VersionLog
\* promises: an approval and its version are one step, and the number of
\* versions only grows, by one.
LogKept == Log!Spec

\* The database answers, and the event loop of the API goes on.
VersionFairSpec == VersionSpec /\ \A q \in Requests : WF_versionVars(Work(q))

\* No request waits for ever for a row: the locks are taken in one order and
\* given back on every path.
EveryRequestEnds == \A q \in Requests : Running(q) ~> ~Running(q)
=============================================================================
