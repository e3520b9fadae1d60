------------------------------ MODULE RunEvents ------------------------------
(***************************************************************************)
(* GET /agent-runs/{id}/events: AgentRunEventService.stream_events beside  *)
(* the transactions of RunStore.  A stream listens on the channel every    *)
(* transition of a run notifies, for all runs, shows a first snapshot, and *)
(* shows another one whenever its queue holds a notification of its run,   *)
(* until the run it shows has ended.                                       *)
(*                                                                         *)
(* The transactions come in any order RunStore allows; attempt numbers are *)
(* those of the current attempt, since the others change nothing.          *)
(***************************************************************************)
EXTENDS RunStore, Sequences

CONSTANTS
    Streams,      \* the event streams clients may open
    Watched,      \* Watched[c]: the run that stream c shows
    ClaimBound    \* ClaimBound[r]: how many attempts run r may be given

ASSUME StreamAssumption ==
    /\ Watched \in [Streams -> Runs]
    /\ ClaimBound \in [Runs -> Nat]

VARIABLES
    stream,   \* stream[c]: where the generator is and the last row it read
    inbox     \* inbox[c]: its asyncio.Queue of notified run ids

eventVars == <<storeVars, stream, inbox>>

Nothing == [status |-> "none", attempt |-> 0, error |-> "none"]

StreamStep  == {"new", "connecting", "reading", "showing", "waiting", "ended", "closed"}
StreamState == [pc : StreamStep, shown : RunRow, listening : BOOLEAN]

EventsTypeOK ==
    /\ StoreTypeOK
    /\ stream \in [Streams -> StreamState]
    /\ inbox \in [Streams -> Seq(Runs)]

EventsInit ==
    /\ StoreInit
    /\ stream = [c \in Streams |->
                   [pc |-> "new", shown |-> Nothing, listening |-> FALSE]]
    /\ inbox = [c \in Streams |-> <<>>]

-----------------------------------------------------------------------------
(* The rows *)

Change(r) ==
    \/ run[r].attempt < ClaimBound[r] /\ ClaimRun(r)
    \/ MarkFailed(r)
    \/ CompleteRun(r, run[r].attempt)
    \/ \E status \in {"queued", "failed"} :
          MarkError(r, run[r].attempt, status, "provider_unavailable")

\* Between add_listener and its removal or the loss of the connection.
HearsWhenWaiting(c) == stream[c].listening /\ stream[c].pc = "waiting"
Hears(c) == stream[c].listening

\* pg_notify is part of the transaction of a transition that changed its row.
\* Its commit hands the payload to every listener of that moment.
Transit(r) ==
    /\ Change(r)
    /\ inbox' = [c \in Streams |->
                   IF Hears(c) /\ run'[r] # run[r] THEN Append(inbox[c], r) ELSE inbox[c]]
    /\ UNCHANGED stream

\* What is committed without a notification.
Silent ==
    /\ \/ \E r \in Runs : CreateRun(r)
       \/ \E s \in Sessions : CreateSession(s) \/ CompleteSession(s) \/ DeleteSession(s)
       \/ \E a \in Agents : DeleteAgent(a)
    /\ UNCHANGED <<stream, inbox>>

-----------------------------------------------------------------------------
(* A stream *)

Enter(c, pc)  == stream' = [stream EXCEPT ![c].pc = pc]

\* The finally clause: the listener and the connection are gone.
Leave(c, pc) ==
    /\ stream' = [stream EXCEPT ![c] = [@ EXCEPT !.pc = pc, !.listening = FALSE]]
    /\ inbox' = [inbox EXCEPT ![c] = <<>>]

CanRead(c) == run[Watched[c]].status # "none" /\ Visible(SessionOf[Watched[c]])

\* The snapshot before the response, which answers 404 for a run that cannot
\* be read.
Open(c) ==
    /\ stream[c].pc = "new"
    /\ CanRead(c)
    /\ Enter(c, "connecting")
    /\ UNCHANGED <<storeVars, inbox>>

\* A connection of its own, and LISTEN on it.
Listen(c) ==
    /\ stream[c].pc = "connecting"
    /\ stream' = [stream EXCEPT ![c] = [@ EXCEPT !.pc = "reading", !.listening = TRUE]]
    /\ UNCHANGED <<storeVars, inbox>>

\* get_snapshot; a run that cannot be read any more raises NotFoundError.
Snapshot(c) ==
    /\ stream[c].pc = "reading"
    /\ \/ /\ CanRead(c)
          /\ stream' = [stream EXCEPT ![c] =
                          [@ EXCEPT !.pc = "showing", !.shown = run[Watched[c]]]]
          /\ UNCHANGED inbox
       \/ ~CanRead(c) /\ Leave(c, "closed")
    /\ UNCHANGED storeVars

EndsUnlessProcessing(row) == row.status # "processing"
Ends(row) == row.status \in TerminalStatus

\* The event of the snapshot, once the client takes it, and the loop condition.
Show(c) ==
    /\ stream[c].pc = "showing"
    /\ \/ Ends(stream[c].shown) /\ Leave(c, "ended")
       \/ ~Ends(stream[c].shown) /\ Enter(c, "waiting") /\ UNCHANGED inbox
    /\ UNCHANGED storeVars

\* _matches_run on a payload.
MatchesRun(c, r) == r = Watched[c]

\* notifications.get
Wake(c) ==
    /\ stream[c].pc = "waiting"
    /\ inbox[c] # <<>>
    /\ Enter(c, IF MatchesRun(c, Head(inbox[c])) THEN "reading" ELSE "waiting")
    /\ inbox' = [inbox EXCEPT ![c] = Tail(@)]
    /\ UNCHANGED storeVars

Started(c) == stream[c].pc \in {"connecting", "reading", "showing", "waiting"}

\* The client goes away or an exception ends the generator.
Close(c) ==
    /\ Started(c)
    /\ Leave(c, "closed")
    /\ UNCHANGED storeVars

\* The connection drops, with whatever it had not handed to the queue yet, and
\* nothing tells the generator.
ListenLost(c) ==
    /\ stream[c].listening
    /\ stream' = [stream EXCEPT ![c].listening = FALSE]
    /\ \E n \in 0 .. Len(inbox[c]) : inbox' = [inbox EXCEPT ![c] = SubSeq(@, 1, n)]
    /\ UNCHANGED storeVars

Advance(c) == Listen(c) \/ Snapshot(c) \/ Show(c) \/ Wake(c)

EventsNext ==
    \/ \E r \in Runs : Transit(r)
    \/ Silent
    \/ \E c \in Streams : Open(c) \/ Advance(c) \/ Close(c) \/ ListenLost(c)

EventsSpec == EventsInit /\ [][EventsNext]_eventVars

-----------------------------------------------------------------------------
(* What a client sees *)

Told(c) == \E i \in 1 .. Len(inbox[c]) : MatchesRun(c, inbox[c][i])

\* No wake-up is lost: a stream that waits shows the row as it is, or will
\* be woken by a notification of its run that is already in its queue
\* (event_stream.py, the listener registered before the snapshot).
NoLostWakeup ==
    \A c \in Streams :
        stream[c].pc \in {"showing", "waiting"} /\ stream[c].listening =>
            stream[c].shown = run[Watched[c]] \/ Told(c)

\* The last event of a stream that ended by itself is the end of the run, and
\* the run never changes after it (event_stream.py, TERMINAL_STATUSES).
LastEventIsTheEnd ==
    \A c \in Streams :
        stream[c].pc = "ended" =>
            Terminal(Watched[c]) /\ stream[c].shown = run[Watched[c]]

Deaf(c) == stream[c].pc \in {"reading", "showing", "waiting"} /\ ~stream[c].listening

\* A stream of a run that has ended ends too, and does not leave its client
\* waiting; only one that lost its LISTEN connection may.
StreamEnds ==
    \A c \in Streams :
        Terminal(Watched[c]) /\ Started(c) ~> ~Started(c) \/ Deaf(c)
=============================================================================
