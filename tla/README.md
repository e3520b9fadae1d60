# Promptune in TLA+

Promptune lets a user improve the prompt of an agent in a conversation with a
language model. A message is stored together with an *agent run*; a worker takes
the run from a queue, calls the model and stores the answer, with a proposal the
user may turn into a version of the prompt. This directory models that path from
the POST to the answer or the failure, with everything that may fail between, the
stream of events that reports it, what the model is shown, the versions, and the accounts
the requests come from; checks it with TLC on small instances and proves its safety with TLAPS for any
instance. Paths below are relative to the repository;
`modules/` is `src/promptune/modules/`.

## 1. The system

| Part | State | Operations | Meets |
|---|---|---|---|
| Agent run rows, `modules/agent_run/{model,repository}.py` | status, attempt_count, error, answer of each run; a partial unique index on the active run of a session | `create`, `claim_by_id`, `mark_completed`, `mark_error`, `mark_failed`; each a conditional UPDATE | requests, workers, event streams, through PostgreSQL |
| Worker, `modules/agent_run/{processor,worker}.py` | one task per delivery, its run id and attempt number | `handle` around `process`: claim, load, call, complete, handle error, ack or nack | rows, queues, LLM provider |
| Queues, `modules/agent_run/queue.py` | `process` (quorum, delivery limit 5), `retry` (TTL), `dead` (no consumer) | publish with confirmation, deliver, ack, nack, dead-letter | requests, workers |
| Sending a message, `modules/message/{service,repository}.py` | the request in progress | check the session, insert message and run, commit, publish, or mark the run failed | rows, queues |
| Conversations, `modules/session/` | status, deleted_at | `create`, `complete`, `delete`; the last two refuse while a run is active | runs, agents |
| Agents, `modules/agent/` | deleted_at, texts | add, update, delete; deletion hides everything under the agent | every query on conversations |
| Run events, `modules/agent_run/{event_stream,notification}.py` | a LISTEN connection, a queue of payloads, the last snapshot | register, snapshot, wait, snapshot ... until the run has ended | NOTIFY of every transition |
| Prompts and proposals, `modules/{prompt,prompt_proposal}/` | versions of a prompt, status of a proposal | `add_prompt`, `approve`, `discard`, with row locks | agents, answers |
| Editor context, `agents/prompt_editor/context.py` | none | chooses history and base content of an edit | messages, proposals |
| Authentication, `modules/auth/`, `core/secret.py` | users, refresh tokens; access tokens have no row | register, login, refresh, logout, the check of an access token | every request |
| Database sessions, `database/session.py` | the pool of connections of the API | a request takes one with its first query and keeps it to its end, a snapshot of a stream takes another | every request, every stream |
| Migrations, `alembic/` | the schema | `upgrade`, `downgrade`, by hand | |
| Routers, settings, logging, start-up | none of its own | translation and wiring | |

External: PostgreSQL in READ COMMITTED, RabbitMQ, the LLM provider, SQLAlchemy,
FastAPI, aio-pika.

**What is hard.** Messages are delivered at least once, so two handlers may
work on one run, one of them without knowing that its delivery was taken away.
A transaction commits or not without its writer knowing. Publication and commit
are two steps. A redelivery, a retry copy and a late handler meet at one row. A
request tests a session it has not locked yet. The correctness of the whole
rests on row conditions (fencing by `attempt_count`, the active slot) and on
*every* path leaving the run ended or with a message that will come back.

**What makes each part correct.** Rows: one answer per run, one active run per
conversation, what has ended stays. Worker: no write by an attempt that lost its
run, a bounded number of calls, no run forgotten. Request: a 503 means a failed
run; an accepted one ends. Conversations: nothing pending in a closed one.
Events: no lost wake-up, the last event shows the end, and open streams leave
connections to the others. Accounts: one per address, a token stays good until it is
used, nothing that is known to be too late succeeds. Prompts: versions without
gaps or duplicates, a proposal approved at most once, no deadlock. Editor
context: the history contains what the user saw before the message, and history and
base stay what they are until the answer is stored. (Of the third thing the model is
shown, the text of the agent, nothing of the kind is promised.)

## 2. The modules

| Module | What it is |
|---|---|
| `AgentRunConstants` | the constants and their assumptions |
| `RunContract` | the abstract specification: a run is accepted, then answered by one message or failed; a conversation is removed only when nothing is pending in it |
| `RunStore` | the rows and the transactions on them; `StoreSpec` allows them in any order |
| `RunBroker` | the three queues and the places a message can be in |
| `AgentRuns` | extends both: requests, handlers, failures; the properties of the whole |
| `MCAgentRuns` | values of the constants for TLC |
| `RunEvents` | the streams of `GET /agent-runs/{id}/events` beside the transactions of `RunStore` |
| `StreamPool` | the streams of `RunEvents` and other requests on one pool of connections |
| `EditorHistory` | requests and attempts over `RunStore`, with the messages they store and read by `created_at` |
| `VersionLog` | the abstract specification of prompts: a log of versions, proposals decided once |
| `PromptVersions` | approvals, new prompts and deletions as transactions that take row locks |
| `Accounts` | registrations, logins, refreshes, logouts and access checks over the tables of users and refresh tokens |
| `MCStreamPool`, `MCEditorHistory`, `MCPromptVersions`, `MCAccounts` | values for TLC |
| `RunStoreProofs`, `AgentRunsProofs`, `AttemptProofs`, `RunEventsProofs`, `StreamPoolProofs`, `EditorHistoryProofs`, `PromptVersionsProofs`, `AccountsProofs` | the theorems |

`RunStore` is the trunk: `AgentRuns`, `RunEvents` and `EditorHistory` extend it, each
with the actors of one question, so that none of them carries the others' state.
`StreamPool` extends `RunEvents` and composes it with the connections.
`PromptVersions` stands alone; it meets the runs only where an answer creates a
proposal (its action `Propose`) and where agents and conversations are deleted.
`Accounts` stands alone too: of an account the other modules know an id that does not
change.

The modules of the runs refine one another: `AgentRuns`, `RunEvents` and `EditorHistory`
implement `RunStore!StoreSpec` (theorems `ImplementsStore`, `EventsImplementStore`,
`HistoryImplementsStore`), `StoreSpec` implements `RunContract` under the mapping
`Contract` in `RunStore` (theorem `StoreKeepsContract`), and `StreamPool` implements
`RunEvents!EventsSpec` (theorem `PoolKeepsEvents`), so `StoreSpec` too. So what holds of the rows
for *any* order of transactions holds of the system, whatever its processes do.

**Atomicity.** An action is what happens between two awaits at which another
actor can interfere. A transaction is one action, because each of them locks
(`SELECT ... FOR UPDATE`, `UPDATE ... WHERE`) the row it decides on before it
decides, and READ COMMITTED evaluates the condition again on the locked row. A
value read *before* the lock is a step of its own: `SendCheck` reads the status
of the session, `SendCommit` locks the session row and tests its visibility
again but not its status, since `conversation.status` in
`message/repository.py:89` is the attribute loaded by the earlier query of the
same SQLAlchemy session. The deletion of an agent is locked by nobody; it
commutes with the transactions that overlap it, which makes them one action too.

**State.** `run[r]`, `session[s]` (both `"none"` before their insert) and `deletedAgents` are the columns the code
tests; `replies[r]` is the set of attempts whose assistant message is committed.
`req[r]` is the program counter of the POST that creates run `r`. `handler[h]` is
a task that runs `RunConsumer.handle`: its step, message, attempt number (the local
variable of `_process`; 0 when it is not used any more) and whether its channel is
still the one the message came on (`attached`). Handlers are tasks, wherever they
run: with `worker_prefetch` above 1, several are in one process. `place[m]` is
where a message is. `called[r]` is the only ghost variable: the attempts that
called the model.

**Messages.** A message carries a run id only. To tell copies apart the model
calls the first publication of run `r` `<<r, 0>>` and the copy sent after attempt
`k` failed `<<r, k>>`. That each is sent at most once is not assumed but checked (as a
part of `AttemptInv`) and proved (`RetryCopiesAreFresh`).

**Steps of a handler** (`pc`): `claim` → `context` (`_load_context`) → `llm` →
`complete` → `ack`; `expire` for an attempt above the limit; `transient` and
`permanent` for the exception at hand, decided by `_handle_error`; `republish` and
`giveup` for the retry and its failure; `nack`; `stuck` for an exception that
leaves `handle` with the delivery unanswered.

**Failures** of `AgentRuns`, each an action, chosen by `Faults` and limited by `MaxFaults`:
`crash` (a worker dies or its shutdown cancels the task), `connection` (the
channel closes, the message is redelivered, the handler goes on), `database`
(SQLAlchemyError, with the commit done or not), `refused` (an OSError
instead: one more error of the attempt, transient or permanent, inside the try block of
`_process`, and elsewhere one that leaves the delivery `stuck`),
`publish` (nothing reaches the broker), `confirm` (it does, but the publisher is
not told), `api` (the API process dies after its commit). Timeouts and errors of
the model are not failures in this sense: they may always happen.

**`RunEvents`.** `stream[c]` is the generator: its step, the last snapshot it read and
whether its LISTEN connection works. `inbox[c]` holds the notifications on that
connection and in the `asyncio.Queue` behind it, in order; nothing in the code tells
the two apart. `Transit` is a transaction of `RunStore` that changed its row and the
`pg_notify` in it, delivered by its commit to whoever listens at that moment; `Silent`
are the commits that notify nobody. `Listen`, `Snapshot`, `Show` and `Wake` are the
steps between the awaits of `stream_events`; a snapshot that is not found ends the
stream, as does a client that leaves (`Close`). `ListenLost` drops the connection
with any suffix of what it carried.

**`StreamPool`.** `requestConns` are the requests whose session holds a connection,
`snapshotConns` the streams that are in `load_run` with a second one. The connection of a
request comes with the look-up of its user (`Arrive`) and goes with its response
(`ReturnWhenDone`): FastAPI closes dependencies with `yield` after the response, and the
response of a stream lasts as long as the stream. So each snapshot is two steps,
`Checkout` and the read (`FirstSnapshot`, `LoadSnapshot`). `PoolTimeout` is SQLAlchemy
giving up after `pool_timeout`: before the response the request fails, later the
exception ends the generator. Any other request is `Take` and `Give`. The LISTEN
connection is asyncpg's own and not of the pool; the worker has an engine of its own.

**`EditorHistory`.** `created_at` is `func.now()`, the *start* of the transaction,
while a message appears at its *commit*. `now` is the clock of the database, moved by
each start; `at` is `created_at`, `done` the clock at the commit, a ghost that no
column keeps and only properties read. The transaction of a request starts when the
user of the token is looked up, long before the insert: `Begin` is that lookup with the
check of the conversation after it, `Send` the insert. The transaction of an answer starts after the model has answered
(`Respond`). `Load` reads history and base, `Complete` stores the answer with or
without a proposal. A base is a set of at most one proposal; the empty one stands for
the conversation's own prompt. Tasks claim whatever the rows allow: the messages that
lead to a claim are left to `AgentRuns`, of which this is an over-approximation. Left
out: the text of the agent (`agent_context` of `prepare_editor_context`), which each attempt
reads anew and `PATCH /agents/{id}` rewrites at any time, with no lock and no look at active
runs, so that it would be an arbitrary value at every `Load`, about which nothing can be said; two transactions of one conversation starting in the same microsecond, where the
code orders by random id, and attempts above the limit, which read nothing.

**`PromptVersions`.** `owner[x]` is the transaction that holds the lock of row `x` until
it commits or is rolled back. A `SELECT ... FOR UPDATE` that must wait is two steps:
what its snapshot shows decides whether a row is found (`Find`), and after the wait
PostgreSQL tests the new version of the locked row only (`LockProposal`), so a
conversation deleted meanwhile is not noticed, and a decision is. For `add_prompt`
and the agent of an approval the tested row is the locked one, so `LockAgent` is one
step that may fail even while the lock is taken. `ReadVersion` and `Insert` are apart;
`Insert` has the unique index with its wait. `delete_agent` reads without a lock and
waits for the row to write it. A decision is committed by the dependency of its route
behind the `yield`, which FastAPI (since 0.118; the project requires 0.141) runs when the
answer is out: `Tell` is the answer, `Commit` comes after it, and a request that fails
between the two ends as `untrue`, answered 200 and rolled back. `add_prompt` and
`delete_agent` commit themselves and answer then; when the reply of their commit is lost
they end as `unanswered`, stored but answered with an error. `Abort` is a request that
ends anywhere before its commit. `Propose` and
`DeleteConversation` come from the conversations; a proposal without a version of its
agent cannot be, since a conversation starts from a prompt.

**`Accounts`.** A row is named by the request that inserts it, so `accounts`, `stored` and
their subsets (`inactive`, `deleted`, `revoked`, `expired`) are sets of requests.
`request[q]` holds the next step and what was read before it: the account, its
`is_active` as of then (`FindUser`; the password is verified in a thread after it), the
token presented. Each query and each commit is a step: `CheckAddress` and `AddUser`,
`FindToken`, `LoadUser`, `Revoke` and `IssueTokens`. Any request may present any token
that was answered, also one that was presented before, which covers a client that retries
because no answer reached it. The reply of a commit may be lost (`AfterCommit`): the row is
written and the client gets an error. `Abort` ends a request anywhere else, with what it
committed kept.
An access token is good as long as nothing stands against its account, or not
(`CheckAccess`): its time is not in the model. `UpdateUser` is the repository's
`update_user`, which no route calls, used to deactivate or to delete. `late` is the only
ghost: that on arrival the request was already impossible.

## 3. The runs

The bounds of `AgentRuns` are `Runs`, `Handlers`, `MaxAttempts`, `DeliveryLimit` and
`MaxFaults`; `RunEvents` and `EditorHistory`, which know no messages, bound the attempts
at a run by `ClaimBound` instead; `PoolSize` is the pool. The sets of requests, tasks and streams
do the rest.

| Run | Instance | Shows |
|---|---|---|
| `two_messages` | 2 runs of one session, 2 handlers, 2 attempts, any 1 failure | the row invariants, `AttemptInv`, `TerminalIsFinal`, the contract |
| `takeover` | 1 run, 2 handlers, 3 attempts, any 2 of crash, connection, database, refused | fencing, the call budget, one writer per run at work |
| `progress` | 1 run, 2 handlers, 2 attempts, any 3 of crash, database, publish | no run is forgotten; under fairness every stored request ends |
| `event_stream` | 1 stream, its run with 2 attempts, another run on the channel, another request, 2 connections | no lost wake-up, the end is shown, a full pool moves; under fairness a stream ends after its run and a connection comes free again and again |
| `editor_history` | 2 questions of one session, 2 tasks, 2 attempts each | the history holds what the user saw; it and the base stay current |
| `versions` | 1 agent, 1 proposal, 5 requests (an approval and a discard of it, 2 new prompts, a deletion of the agent), any of them aborted, a decision also after its answer | versions, decisions, the log; under fairness no request waits for ever |
| `accounts` | 1 address, 2 registrations, 1 login, 2 refreshes, 1 logout, 1 request with an access token, any of them aborted | one account, tokens used once, late requests refused |
| `completed_session`, `retry_unpublished`, `unconfirmed_publish`, `api_dies`, `orphaned_owner` | 1 run | disagreements of code and documentation (section 5) |

Why this is enough: the hazards involve two deliveries of one run (two handlers,
a takeover and its loser), two requests for one conversation, the last attempt
and the one after it (2 and 3 attempts reach both), and one or two failures in a
row. Sessions are independent but for their agent, so one is enough. A second run
matters for the slot of the conversation and the index; a third would wait
behind them in the same way. Streams do not meet each other, and the other run of
`event_stream` is there for its payloads on the common channel. Of the pool the smallest
that one stream leaves room in is the hardest: with two connections the stream alone
fills it while it loads a snapshot, and the other request while it does not. What `editor_history`
is about happens between one question and one earlier answer; its second attempts
are there for takeovers. (With three questions and one attempt each TLC found
nothing either.) Questions and tasks are interchangeable there, so symmetry is sound;
it has no liveness. In `versions` every kind of request meets every other on the
agent, the two decisions meet on the proposal, and three requests write versions; two
approvals of one proposal meet as an approval and a discard do, at its lock. In `accounts` two refreshes may present the
token of the login, or one the token of the other, with the logout before, between or
behind; more requests repeat these. The registrations and the refreshes are
interchangeable, and the run has no liveness. The safety properties are proved for all values
anyway; the instances are there to find out what to prove and to check that
each property can fail (`PROJECT.json` lists a mutation of the code for each).

`CHECK_DEADLOCK FALSE` in every run, since each of these systems may stop: requests are
made once, and when all are answered, the queues are empty and the streams closed there
is nothing left to do; `AgentRuns` also stops with a stuck handler. That nobody waits
who should not is what `RequestNotLost`, `StreamEnds` and `EveryRequestEnds` say.

**Properties.** `SingleReply`: a completed run has the one answer of the attempt that
completed it, any other run none. `SlotExclusive`: one active run per
conversation. `DeletedIsQuiet`, `ProcessingInOpenSession`: no conversation is
deleted under an active run, or completed under a running one. `TerminalIsFinal`:
no late step changes a run that has ended. `ContractKept`: the refinement.
`OwnerKeepsRun`: an attempt at work that has not been taken over finds its run in
processing. `OnlyOwnerWrites`: what is in processing is written by the handler that holds
its attempt or taken over by the next one, and by nobody else. `LlmBudget`, `AttemptInv`:
the attempt numbers.
`ActiveRunIsDriven`: a run that could be processed has a message on its way or
somebody about to send one. `UnavailableMeansFailed`: the 503 is true.
`RequestNotLost`: a stored request ends.
`NoLostWakeup`: a stream that waits shows the current row or has a notification of its
run before it. `LastEventIsTheEnd`: a stream that ended has shown the row for good.
`StreamEnds`: after its run a stream ends; the ones whose LISTEN connection is lost are
excluded, since nothing in the code wakes them.
`NothingSeenIsLeftOut`: what was committed before the request began is in the history of
each of its attempts. More is not promised: a request that begins before the previous
answer commits (and is inserted after it) leaves that answer and its proposal out, also
from its base. `ContextIsCurrent`: minutes after they were read, history and base are what
would be read now, for every attempt at a run that has not ended, also one that was taken over.
`AnswersInOrder`: the transactions of
two answers do not overlap, which makes the latest by `created_at` the latest stored.
`AnswersFollow`: no answer without its question, or listed before it.
`GaplessVersions`, `NoVersionClash`: 1 to n, and the unique index is never needed.
`LogKept`: a proposal is decided once, in one step with its version.
`NothingAfterDeletion`: a deleted agent gets no version.
`FullPoolMoves`: with fewer streams than connections, whenever the pool is full some
request or snapshot will return its connection without needing another. `RoomReturns`:
so a connection comes free again and again. Neither holds with as many streams as
connections (5 + 10 by SQLAlchemy's defaults, which `build_engine` keeps): each holds one
for as long as it is open, and all wait for a second until the pool timeout ends one.
`OneAccount`: two registrations that both found an address free leave one account, that
of the one that was answered if one was, and never one of a registration that was refused.
`UnusedTokensWork`: a refresh token that was answered is stored and not revoked before
somebody presents it. `LateRequestsFail`: a request whose token was revoked or expired,
whose account was deactivated or whose address was taken when it arrived is not answered
with success, whatever overlaps it.

**Fairness** (`FairSpec`): weak fairness of a request's steps (the event loop of the
API goes on), of a handler's steps (the worker's event loop goes on; each call is
bounded by `agent_run_timeout_seconds` and the publish timeout), of the delivery of
each queued message to some handler, and of the TTL of each message in the retry
queue. Nobody is obliged to send, complete or delete anything, no failure is
obliged to happen, and the outcome of the model is free: that the retries end
follows from the attempt numbers, not from luck. A crashed worker is assumed to be
restarted (its handler becomes idle again), since `progress` asks what the code does
and not its supervisor. `RequestNotLost` excludes a conversation that is completed,
deleted or without agent: no worker claims its runs by design. In `progress` the
failures are fewer than returns that exceed the delivery limit, and `connection`,
`confirm`, `refused` and `api` are left out: with them the code does lose requests
(section 5, and `stuck`, where the delivery waits until its channel closes).
`PoolFairSpec` has weak fairness of each stream's own steps (the event loop goes on, the
client takes its events or is gone, a wait for a connection ends with one or with the
pool timeout), of the end of each other request, and of no transaction: no stream is
promised a connection, only that it does not wait for ever; `VersionFairSpec` that of
each request's steps, since a lock that is free is given to a waiting request and the
database answers; no abort and no first step of a request is obliged. `EditorHistory`
and `Accounts` have no liveness of their own.

## 4. The proofs

All for arbitrary constants that satisfy the assumptions of their module (`RunAssumption`,
`FaultAssumption`, `StreamAssumption`, `PoolAssumption`, `VersionAssumption`,
`HistoryAssumption`, `AccountAssumption`): any number of runs, handlers, attempts,
requests, and failures of every kind unless a theorem names the ones it excludes.

- `RunStoreProofs`. `StoreInv` (types and the four row invariants) is inductive under
  the transactions in any order: `StoreInvariant`. `StoreTerminalIsFinal` and
  `StoreKeepsContract` follow from it, the second by mapping each transaction to a
  step of `RunContract` or a stutter. `SingleReply` needs no more than fencing;
  `ProcessingInOpenSession` needs that claims test the session and that closing
  tests the slot. `StoreRowsGoForward`: every change of a run's row goes to a later one
  (a higher attempt number, or a later stage of the same one), and the order is strict
  (`LaterIsStrict`). So no row ever returns to a state it had: a test that compares a number
  read earlier with the row, as all of the fencing does, is never fooled by a run that
  went away and came back.
- `AgentRunsProofs`. `TypeInvariant`, and `ImplementsStore`: each action of a request,
  handler or failure commits at most one transaction of `RunStore`. With it the row
  invariants, the finality of runs and the contract carry over: `OneReply`,
  `OneActiveRun`, `NothingLeftInDeleted`, `NothingClosedUnderAttempt`, `RunsEndOnce`,
  `SystemKeepsContract`, `RunsGoForward`.
- `AttemptProofs`. `LlmBudget` and `RetryCopiesAreFresh` are not inductive alone. The
  strengthening is `AttemptInv`: a handler that claimed a run holds a number that was
  given out (`AttemptsGivenOut`) and that no other handler of the run holds
  (`AttemptsDistinct`); the model was called under such numbers only; a number under
  which a retry is due or was sent no longer owns the run (`RetriesDisowned`), so
  nobody can requeue the run under it again; a message a handler holds was sent
  (`HeldWasSent`). `NumbersGrow` says what the transactions contribute: numbers
  never go back and a number that lost its run never owns it again. Four actions
  need an argument of their own (`Claim`, the call, the decision to retry, sending
  the copy); all others leave what the invariant speaks of alone (`KeptStep`).
  On it rest, under every failure:
  - `TakenOverIsFenced`: a handler whose attempt no longer owns its run never owns it again
    (`LostStays`, from `NumbersGrow`) and none of its transactions changes the row or adds
    an answer (`LostWritesNothing`). The exception is in the statement: `giveup`, whose
    `mark_failed` is not fenced (section 5).
  - `CallsAreBounded`: the attempts that called the model for a run are a finite set of at
    most `MaxAttempts`.
  - `AttemptsAreBounded`: `attempt_count` never exceeds `MaxAttempts` plus the number of
    failures that have happened. This is an account (`LoadInv`): the attempts made, the
    messages that may still come to a handler (`Coming`: not sent yet, queued or waiting)
    and the handlers that are about to claim or to put their message back (`Claiming`) are
    together never more. Each step is `Balanced`: it turns one entry of the account into
    another, or brings one more with a failure. The queues alone never make a run go round.
    `ExpiryIsDeserved` follows: without a failure no run ends as redelivered too often.
  - `PostsAreAnsweredTruly` (`AnsweredInv`): a refused POST stored nothing, no message of its
    run exists and the model was never called; an accepted one has its run stored and its
    message handed to the broker.

  Four theorems name the failures that do not happen: with them the properties are
  false (section 5, and a message past the delivery limit ends in the dead queue, which
  nothing consumes). The passing runs that check the same properties are instances.
  - `OwnersKeepTheirRuns`, with publications that succeed (`PublicationsSucceed`): then
    nobody calls `mark_failed`, and every other transaction that ends or requeues a run is
    fenced with a number no other handler holds (`TransactionKeeps`, from
    `AttemptsDistinct`). `OwnersWriteAlone`, under the same assumption, is the property of
    the steps: each step is of one handler or of none (`StepMoves`), a transaction that
    changes a row in processing is of its owner, and a claim raises the number by one.
  - `UnavailableIsTrue`, if no confirmation is lost (`ConfirmsArrive`): a run whose first
    publication failed has no message with the broker, so no handler has heard of it
    (`UnpublishedInv`), and `mark_failed` finds it queued.
  - `RunsAreDriven`, if the API and the channels stay up and the failures do not exceed
    the delivery limit (`DeliveriesReturn`). Every handler is then alone with a delivery
    that the broker still holds (`HeldInv`); each counted return of a message was paid for
    by a failure, so none goes to the dead queue (`ReturnsInv`); and a run that could be
    processed has a queued message or a handler that will not acknowledge before the run
    has ended or is sent again (`CarriedInv`). A fenced handler is not such a handler,
    which is why a lost channel breaks the argument (`orphaned_owner`).
- `RunEventsProofs`. `EventsInv` adds to `NoLostWakeup` (`Awake`) that a stream past its
  first step watches a run that exists (`Found`), and that what an ended stream showed
  is the row (`ShownEnd`, kept by `TerminalIsFinal` of the rows). `Transit` needs that a
  step which changes the row of a listening stream appends to its inbox, and `Wake` that
  it takes the head only: `WakeupsAreKept`, `StreamsShowTheEnd`. What a stream shows is a
  row that was in the table when it was read (`ShownMoves`), so it is never ahead of the run
  (`BehindRun`); as rows go forward, so does what a client sees, although it may miss steps:
  `ClientsSeeProgress`. `EventsTellTheOutcome`: when a client is told of a completion the
  answer is stored, and after a failure there is none.
- `StreamPoolProofs`. `PoolKeepsEvents`: each step under the pool is a step of `RunEvents` or
  leaves its state alone, so what is proved there holds here (`PooledWakeupsAreKept`,
  `PooledStreamsShowTheEnd`, `PooledClientsSeeProgress`; `PoolImplementsStore`), also for streams that got no connection. The invariant of
  the pool is its type, with the bound on the connections (`PoolIsBounded`), and that a
  stream with a second connection is loading a snapshot (`SnapshotStep`). A full pool
  with no other request and nobody loading would be streams with one connection each, of
  which there are too few: `StreamsLeaveRoom`, by counting.
- `EditorHistoryProofs`. `HistoryInv` joins `AnswersInOrder` with `RowInv` (how the stages of
  a request, an attempt and an answer relate to the rows and the clock; an active run was
  asked after every answer of its conversation was stored) and, for each attempt with a
  context, `Shown`: what it left out was not there when its request began, what it read is
  current until the run ends, and no answer without its question. The key is the slot
  of the conversation: while a run is active, nothing but its answer can be committed in
  its conversation, so what its attempts have read cannot change. Transactions
  that write no message are treated once (`QuietKeepsRows`, `QuietShows`).
  `HistoryTypeInvariant`, `HistoriesAreComplete`, `ContextsStayCurrent`,
  `AnswersAreOrdered`, `AnswersComeAfter`. Of the steps: `MessagesAreKept` (a conversation is
  append-only) and `RetriesReadTheSame` (from the moment a message is sent until its run ends
  every attempt reads the same history and base; a retry is not the same question for that,
  since the text of the agent may have been rewritten). `ModelEditsWhatItSees`: what the model is
  asked to edit is the prompt of the conversation or one proposal of the history it is
  shown; for a proposal the user selected this needs that it was stored before the request
  (`Selected`), for the latest one that the order by `created_at` is total on answers.
- `PromptVersionsProofs`. `VersionInv`: the versions of an agent are 1 to n (`Counted`), no
  two prompts share one (`Unique`), and what a request past a lock may rely on
  (`RequestInv`): it owns the row, the agent is not deleted, the number it read is
  still the next one, its proposal still pending. `VersionsHaveNoGap`, `IndexStaysIdle`,
  `VersionTypeInvariant`, `ApprovalsHaveTheirVersion`, `DecisionsAreFinal`,
  `DeletedAgentsAreClosed`, and `ImplementsLog`, which maps each commit to one step of `VersionLog`. (That an approved
  proposal has its version and that decisions are final follow from the log too; they
  are proved from the invariant and not checked in a run of their own.) The safety behind
  `EveryRequestEnds`: `LocksAreGivenBack`, a lock is held only by a request between the
  statement that takes it and the end of its transaction, and `NoCircularWait`, who waits
  waits for a request that can go on or for one that waits for such a one (a proposal is
  locked before an agent, who has the agent waits for nobody). `OutcomesStayTrue`: what a
  transaction has committed stays, whatever was answered, and one that was rolled back has
  left nothing, also when its request had been answered 200; who is refused because the
  proposal is decided is refused rightly. That a 200 means a commit is not so, and not
  claimed. `OneDecisionStands`: of the decisions about a proposal that were answered 200
  one at most is not rolled back: as the lock is held until the commit, a second one is
  answered only after the first has failed.
- `AccountsProofs`. `AuthTypes`. For `OneAccount` the tables suffice: an account is a
  registration that was answered or whose commit got no reply, and `AddUser` tests the index in the step that inserts.
  `UnusedTokensWork` rests on what a step revokes being what its request presented. For
  `LateRequestsFail` the invariant says of each step of a late request what it has not
  read yet or has read already (a late login that found its account read it inactive, a
  late refresh is not past the check of its token or of its account), which needs that
  nothing of what made it late is ever taken back. `AddressesAreUnique`,
  `UnusedTokensStayValid`, `LateRequestsAreRefused`. `TokenInv` follows a token through a
  refresh: once past `Revoke` the old one is revoked, and the account the request has read
  is that of the old one. `RotationSpendsTheToken`: a refresh or a logout that was answered
  has revoked its token (with `LateRequestsAreRefused`, no later refresh uses it), and
  `TokensStayWithTheirAccount`, however often it is rotated.

Only model-checked: `RequestNotLost`, `StreamEnds`, `RoomReturns` and
`EveryRequestEnds`. Liveness under fairness is beyond the prover.

## 5. Disagreements found

1. `completed_session`: a message sent while its conversation is being completed
   leaves a queued run in a completed conversation. `message/repository.py:89` tests
   a status loaded before the lock.
2. `retry_unpublished`: `mark_failed` is meant "for runs with no live attempt"
   (`agent_run/repository.py:200`), but a handler whose retry cannot be published
   calls it after another attempt may have claimed the run.
3. `unconfirmed_publish`: README, flow of a message, step 2: if the publication fails
   the run is failed and the API answers 503. When only the confirmation is missing
   the run may be answered first; `send_message` ignores what `mark_failed` returns.
4. `api_dies`: the README says no request may be lost. A crash of the API between
   commit and publication leaves a queued run nobody looks for.
5. `orphaned_owner`: the README says another worker continues when one dies before its
   ack. A handler that lost its channel may own the run while the redelivered one is
   fenced and acknowledges; when the owner dies no message is left.

Seen while modelling, and no disagreement with anything the repository says:

- The second of two overlapping registrations is answered 500: nobody translates the
  error of the unique index (`failed` in `Accounts`, not `refused`).
- A refresh commits the revocation before it stores the new token. One that fails between
  the two costs the client its token; the user has to log in again.
- Overlapping refreshes with one token may both succeed, each with a token of its own.
- `deleted_at` of a user is tested for access tokens and not by login and refresh, which
  issue tokens that are then refused.
- A decision about a proposal is answered before it is committed: a 200 may be followed by
  a rollback, and then the proposal is still pending (`untrue` in `PromptVersions`).
- An agent may be changed while a run of it is being retried: each attempt reads the text of
  the agent anew, so a retry may be another question than the attempt before it.
- As many open streams as the pool has connections stop the API until the pool timeout
  ends some of them.

## 6. Not modelled, and the plan

Texts, paging and searches; timestamps other than `created_at`; the grace period of a
shutdown (a crash to the rows); malformed messages (no publisher of this code sends
one); a message that arrives long after its publisher gave up (the same as one that
waits in the queue undelivered). `add_agent`, which nothing meets but through the agent's
id; `update_agent`, which reaches a run through the text of the agent only (section 2,
`EditorHistory`). `revoke_all_for_user`, which has no caller; the reactivation of
an account, which nothing does; the lifetime of access tokens. The connections of the
worker, one per transaction. The call of the model inside `PromptEditorAgent`, of which
the outcomes are inputs. The routes that
create, complete or delete a conversation commit in their dependency, after the answer was
sent, as those that decide about a proposal do. Of the latter the answer is modelled; of
conversations the model has what is stored, and a client may have been told of a commit
that then failed. (`send_message` commits before it answers.) The checks of `prepare_editor_context` that its one caller cannot fail are left out too.
Migrations run once and by hand, with nothing beside them; what they make of older rows
(`a4c82d71f9b3` makes `prompt_proposals.message_id` mandatory, which `7146e7ac2e53` had
added without a value for the proposals there were) is a question about data and not
about an order of steps.

The path of a run, its events with the pool they share, the versions, the history and
the accounts are done. Left, in this order:

1. Proofs: the actors of one run together. `RunEvents` and `EditorHistory` let any order of
   transactions happen beside them; that they also hold beside the steps of `AgentRuns` is
   `ImplementsStore` read informally, and could be stated as a composition.
2. A liveness run for a database outage longer than the delivery limit, and one for
   `stuck` handlers: which runs end and which stay.
3. `PromptVersions` and `EditorHistory` composed where they meet: the proposal an answer
   creates, the version a conversation starts from.
