--------------------------- MODULE RunEventsProofs ---------------------------
(***************************************************************************)
(* No wake-up of an event stream is lost, its last event is the end of the *)
(* run, and its client never sees the run go back: for any number of       *)
(* streams, runs and attempts, in every order of transactions, clients     *)
(* leaving and connections lost.                                           *)
(***************************************************************************)
EXTENDS RunEvents, RunStoreProofs, SequenceTheorems

\* The rows move by the transactions of RunStore and by nothing else.
LEMMA EventsRefineStore ==
    ASSUME EventsTypeOK, [EventsNext]_eventVars
    PROVE  [StoreNext]_storeVars
<1>1. ASSUME NEW r \in Runs, Transit(r) PROVE StoreNext
  <2>1. run[r].attempt \in Nat
      BY DEF EventsTypeOK, StoreTypeOK, RunRow
  <2>2. CASE ClaimRun(r) \/ MarkFailed(r)
      BY <2>2 DEF StoreNext
  <2>3. CASE CompleteRun(r, run[r].attempt)
      BY <2>1, <2>3 DEF StoreNext
  <2>4. ASSUME NEW status \in {"queued", "failed"},
               MarkError(r, run[r].attempt, status, "provider_unavailable")
        PROVE  StoreNext
      BY <2>1, <2>4 DEF StoreNext, ErrorCode
  <2>5. QED
      BY <1>1, <2>2, <2>3, <2>4 DEF Transit, Change
<1>2. CASE Silent
    BY <1>2 DEF Silent, StoreNext
<1>3. ASSUME NEW c \in Streams, Open(c) \/ Advance(c) \/ Close(c) \/ ListenLost(c)
      PROVE  UNCHANGED storeVars
    BY <1>3 DEF Open, Advance, Listen, Snapshot, Show, Wake, Close, ListenLost
<1>4. CASE UNCHANGED eventVars
    BY <1>4 DEF eventVars
<1>5. QED
    BY <1>1, <1>2, <1>3, <1>4 DEF EventsNext

\* Whatever a stream did before, its next step is one of these.
StreamMoves(c) == Open(c) \/ Advance(c) \/ Close(c) \/ ListenLost(c)

\* A step of a stream keeps its local state and its queue in their types.
LEMMA StreamTypeStep ==
    ASSUME EventsTypeOK, NEW c \in Streams, StreamMoves(c)
    PROVE  stream' \in [Streams -> StreamState] /\ inbox' \in [Streams -> Seq(Runs)]
<1> USE StreamAssumption DEF EventsTypeOK, Enter, Leave
<1>s. ASSUME NEW pc \in StreamStep, NEW row \in RunRow, NEW b \in BOOLEAN
      PROVE  /\ [stream[c] EXCEPT !.pc = pc] \in StreamState
             /\ [stream[c] EXCEPT !.listening = b] \in StreamState
             /\ [stream[c] EXCEPT !.pc = pc, !.listening = b] \in StreamState
             /\ [stream[c] EXCEPT !.pc = pc, !.shown = row] \in StreamState
  <2>1. stream[c] \in StreamState
      OBVIOUS
  <2>2. QED
      BY <2>1 DEF StreamState
<1>e. <<>> \in Seq(Runs)
    BY EmptySeq
<1>c. {"connecting", "reading", "showing", "waiting", "ended", "closed"} \subseteq StreamStep
    BY DEF StreamStep
<1>r. run[Watched[c]] \in RunRow
    BY DEF StoreTypeOK
<1>1. CASE Open(c)
    BY <1>1, <1>s, <1>e, <1>c, <1>r DEF Open
<1>2. CASE Listen(c)
    BY <1>2, <1>s, <1>e, <1>c, <1>r DEF Listen
<1>3. CASE Snapshot(c)
  <2>1. CASE Leave(c, "closed")
      BY <2>1, <1>s, <1>e, <1>c, <1>r
  <2>2. CASE /\ stream' = [stream EXCEPT ![c] =
                             [@ EXCEPT !.pc = "showing", !.shown = run[Watched[c]]]]
             /\ inbox' = inbox
      BY <2>2, <1>s, <1>c, <1>r
  <2>3. QED
      BY <1>3, <2>1, <2>2 DEF Snapshot
<1>4. CASE Show(c)
    BY <1>4, <1>s, <1>e, <1>c, <1>r DEF Show
<1>5. CASE Wake(c)
  <2>1. Tail(inbox[c]) \in Seq(Runs)
      BY <1>5, HeadTailProperties DEF Wake
  <2>2. QED
      BY <1>5, <1>s, <1>c, <1>r, <2>1 DEF Wake
<1>6. CASE Close(c)
    BY <1>6, <1>s, <1>e, <1>c, <1>r DEF Close
<1>7. CASE ListenLost(c)
  <2>1. ASSUME NEW n \in 0 .. Len(inbox[c])
        PROVE  SubSeq(inbox[c], 1, n) \in Seq(Runs)
      BY <2>1
  <2>2. QED
      BY <1>7, <1>s, <1>c, <1>r, <2>1 DEF ListenLost
<1>8. QED
    BY <1>1, <1>2, <1>3, <1>4, <1>5, <1>6, <1>7 DEF StreamMoves, Advance

\* Every step keeps rows, streams and queues in their types.
LEMMA EventsTypeStep == EventsTypeOK /\ [EventsNext]_eventVars => EventsTypeOK'
<1> SUFFICES ASSUME EventsTypeOK, [EventsNext]_eventVars
             PROVE  EventsTypeOK'
    OBVIOUS
<1>1. StoreTypeOK'
    BY EventsRefineStore, StoreTypeStep DEF EventsTypeOK
<1>2. stream' \in [Streams -> StreamState] /\ inbox' \in [Streams -> Seq(Runs)]
  <2>1. ASSUME NEW r \in Runs, Transit(r)
        PROVE  stream' \in [Streams -> StreamState] /\ inbox' \in [Streams -> Seq(Runs)]
    <3>1. \A c \in Streams : Append(inbox[c], r) \in Seq(Runs)
        BY DEF EventsTypeOK
    <3>2. QED
        BY <2>1, <3>1 DEF Transit, EventsTypeOK
  <2>2. CASE Silent \/ UNCHANGED eventVars
      BY <2>2 DEF Silent, eventVars, EventsTypeOK
  <2>3. ASSUME NEW c \in Streams, StreamMoves(c)
        PROVE  stream' \in [Streams -> StreamState] /\ inbox' \in [Streams -> Seq(Runs)]
      BY <2>3, StreamTypeStep
  <2>4. QED
      BY <2>1, <2>2, <2>3 DEF EventsNext, StreamMoves
<1>3. QED
    BY <1>1, <1>2 DEF EventsTypeOK

\* They have their types before anything happens.
LEMMA EventsInitTypes == EventsInit => EventsTypeOK
<1> SUFFICES ASSUME EventsInit PROVE EventsTypeOK
    OBVIOUS
<1>1. StoreTypeOK
    BY StoreInitInv DEF EventsInit, StoreInv
<1>2. Nothing \in RunRow
    BY DEF Nothing, RunRow, RunStatus, ErrorCode
<1>3. QED
    BY <1>1, <1>2, EmptySeq DEF EventsInit, EventsTypeOK, StreamState, StreamStep

-----------------------------------------------------------------------------
(* No lost wake-up *)

\* What a stream that listens rests on, one stream at a time.
Awake(c) ==
    stream[c].pc \in {"showing", "waiting"} /\ stream[c].listening =>
        stream[c].shown = run[Watched[c]] \/ Told(c)

\* A transaction that changes the run of a listening stream tells it.
LEMMA TransitWakes ==
    ASSUME EventsTypeOK, NEW r \in Runs, Transit(r), NEW c \in Streams, Awake(c)
    PROVE  Awake(c)'
<1> USE StreamAssumption DEF EventsTypeOK
<1>1. stream' = stream
    BY DEF Transit
<1>2. SUFFICES ASSUME stream[c].pc \in {"showing", "waiting"}, stream[c].listening,
                      stream[c].shown # run'[Watched[c]]
               PROVE  Told(c)'
    BY <1>1 DEF Awake
<1>3. inbox[c] \in Seq(Runs)
    OBVIOUS
<1>4. CASE run'[r] # run[r]
  <2>1. inbox'[c] = Append(inbox[c], r)
      BY <1>2, <1>4 DEF Transit, Hears
  <2>2. Len(inbox'[c]) = Len(inbox[c]) + 1 /\ Len(inbox[c]) \in Nat
      BY <1>3, <2>1, AppendProperties
  <2>3. inbox'[c][Len(inbox[c]) + 1] = r
      BY <1>3, <2>1, AppendProperties
  <2>4. \A i \in 1 .. Len(inbox[c]) : inbox'[c][i] = inbox[c][i]
      BY <1>3, <2>1, AppendProperties
  <2>5. CASE r = Watched[c]
    <3>1. Len(inbox[c]) + 1 \in 1 .. Len(inbox'[c])
        BY <2>2
    <3>2. QED
        BY <2>3, <2>5, <3>1 DEF Told, MatchesRun
  <2>6. CASE r # Watched[c]
    <3>1. run'[Watched[c]] = run[Watched[c]]
        BY <2>6 DEF Transit, Change, ClaimRun, MarkFailed, CompleteRun, MarkError,
                    StoreTypeOK
    <3>2. Told(c)
        BY <1>2, <3>1 DEF Awake
    <3>3. PICK i \in 1 .. Len(inbox[c]) : inbox[c][i] = Watched[c]
        BY <3>2 DEF Told, MatchesRun
    <3>4. inbox'[c][i] = Watched[c]
        BY <2>4, <3>3
    <3>5. i \in 1 .. Len(inbox'[c])
        BY <2>2
    <3>6. QED
        BY <3>4, <3>5 DEF Told, MatchesRun
  <2>7. QED
      BY <2>5, <2>6
<1>5. CASE run'[r] = run[r]
  <2>1. run'[Watched[c]] = run[Watched[c]]
      BY <1>5 DEF Transit, Change, ClaimRun, MarkFailed, CompleteRun, MarkError,
                  StoreTypeOK
  <2>2. inbox'[c] = inbox[c]
      BY <1>5 DEF Transit
  <2>3. QED
      BY <1>2, <2>1, <2>2 DEF Awake, Told, MatchesRun
<1>6. QED
    BY <1>4, <1>5

\* A stream is opened for a run that exists, and rows are never removed.
Found(c) == stream[c].pc # "new" => run[Watched[c]].status # "none"

\* An event of the end shows the row for good.
ShownEnd(c) ==
    (stream[c].pc = "showing" /\ Ends(stream[c].shown)) \/ stream[c].pc = "ended" =>
        Ends(stream[c].shown) /\ stream[c].shown = run[Watched[c]]

StreamInv(c) == Awake(c) /\ Found(c) /\ ShownEnd(c)

EventsInv == EventsTypeOK /\ \A c \in Streams : StreamInv(c)

\* A transaction without a notification changes no run that was there.
LEMMA SilentKeeps ==
    ASSUME EventsTypeOK, Silent, NEW c \in Streams, StreamInv(c)
    PROVE  StreamInv(c)'
<1> USE StreamAssumption DEF EventsTypeOK, StreamInv
<1>1. stream' = stream /\ inbox' = inbox
    BY DEF Silent
<1>2. run[Watched[c]].status # "none" => run'[Watched[c]] = run[Watched[c]]
    BY DEF Silent, CreateRun, CreateSession, CompleteSession, DeleteSession, DeleteAgent, StoreTypeOK
<1>3. CASE stream[c].pc = "new"
    BY <1>1, <1>3 DEF Awake, Found, ShownEnd
<1>4. CASE stream[c].pc # "new"
    BY <1>1, <1>2, <1>4 DEF Awake, Found, ShownEnd, Told, MatchesRun, Ends
<1>5. QED
    BY <1>3, <1>4

\* Nor does one that notifies change a row that was shown as the end.
LEMMA TransitKeeps ==
    ASSUME EventsTypeOK, NEW r \in Runs, Transit(r), NEW c \in Streams, StreamInv(c)
    PROVE  StreamInv(c)'
<1> USE StreamAssumption DEF StreamInv
<1>1. Awake(c)'
    BY TransitWakes
<1>2. stream' = stream
    BY DEF Transit
<1>3. Watched[c] \in Runs
    OBVIOUS
<1>4. Found(c)'
  <2>1. run[Watched[c]].status # "none" => run'[Watched[c]].status # "none"
    <3> SUFFICES ASSUME run[Watched[c]].status # "none"
                 PROVE  run'[Watched[c]].status # "none"
        OBVIOUS
    <3>1. run \in [Runs -> RunRow]
        BY DEF EventsTypeOK, StoreTypeOK
    <3>2. CASE ClaimRun(r)
        BY <1>3, <3>1, <3>2 DEF ClaimRun, ClaimedRow
    <3>3. CASE MarkFailed(r)
        BY <1>3, <3>1, <3>3 DEF MarkFailed, Transition
    <3>4. CASE CompleteRun(r, run[r].attempt)
        BY <1>3, <3>1, <3>4 DEF CompleteRun, Transition
    <3>5. ASSUME NEW status \in {"queued", "failed"},
                 MarkError(r, run[r].attempt, status, "provider_unavailable")
          PROVE  run'[Watched[c]].status # "none"
        BY <1>3, <3>1, <3>5 DEF MarkError, Transition
    <3>6. QED
        BY <3>2, <3>3, <3>4, <3>5 DEF Transit, Change
  <2>2. QED
      BY <1>2, <2>1 DEF Found
<1>5. ShownEnd(c)'
  <2>1. [StoreNext]_storeVars
      BY EventsRefineStore DEF EventsNext
  <2>2. Terminal(Watched[c]) => run'[Watched[c]] = run[Watched[c]]
      BY <1>3, <2>1, TerminalStep DEF EventsTypeOK
  <2>3. QED
      BY <1>2, <2>2 DEF ShownEnd, Ends, Terminal
<1>6. QED
    BY <1>1, <1>4, <1>5

\* A stream shows what it has just read, and forgets a notification of its run
\* only by reading again.
LEMMA StreamKeeps ==
    ASSUME EventsTypeOK, NEW d \in Streams, StreamMoves(d), NEW c \in Streams, StreamInv(c)
    PROVE  StreamInv(c)'
<1> USE StreamAssumption DEF StreamInv, EventsTypeOK, StreamState
<1>1. run' = run
    BY DEF StreamMoves, Open, Advance, Listen, Snapshot, Show, Wake, Close, ListenLost,
           storeVars
<1>2. CASE c # d
  <2>1. stream'[c] = stream[c] /\ inbox'[c] = inbox[c]
      BY <1>2 DEF StreamMoves, Open, Advance, Listen, Snapshot, Show, Wake, Close,
                  ListenLost, Enter, Leave
  <2>2. QED
      BY <1>1, <2>1 DEF Awake, Told, MatchesRun, Found, ShownEnd
<1>3. CASE c = d
  <2> USE <1>1, <1>3
  <2>1. CASE Open(c)
      BY <2>1 DEF Open, Enter, CanRead, Awake, Found, ShownEnd
  <2>2. CASE Listen(c)
      BY <2>2 DEF Listen, Awake, Found, ShownEnd
  <2>3. CASE Snapshot(c)
    <3>1. CASE Leave(c, "closed")
        BY <2>3, <3>1 DEF Snapshot, Leave, Awake, Found, ShownEnd
    <3>2. CASE stream' = [stream EXCEPT ![c] =
                            [@ EXCEPT !.pc = "showing", !.shown = run[Watched[c]]]]
      <4>1. stream'[c].shown = run[Watched[c]] /\ stream'[c].pc = "showing"
          BY <3>2
      <4>2. QED
          BY <2>3, <4>1 DEF Snapshot, Awake, Found, ShownEnd
    <3>3. QED
        BY <2>3, <3>1, <3>2 DEF Snapshot
  <2>4. CASE Show(c)
    <3>1. CASE Ends(stream[c].shown)
      <4>1. stream'[c] = [stream[c] EXCEPT !.pc = "ended", !.listening = FALSE]
          BY <2>4, <3>1 DEF Show, Leave
      <4>2. stream'[c].shown = stream[c].shown /\ ~stream'[c].listening
          BY <4>1
      <4>3. QED
          BY <2>4, <3>1, <4>2 DEF Show, Awake, Found, ShownEnd
    <3>2. CASE ~Ends(stream[c].shown)
      <4>1. stream'[c] = [stream[c] EXCEPT !.pc = "waiting"] /\ inbox' = inbox
          BY <2>4, <3>2 DEF Show, Enter
      <4>2. /\ stream'[c].shown = stream[c].shown /\ stream'[c].pc = "waiting"
            /\ stream'[c].listening = stream[c].listening
          BY <4>1
      <4>3. QED
          BY <2>4, <4>1, <4>2 DEF Show, Awake, Told, MatchesRun, Found, ShownEnd
    <3>3. QED
        BY <3>1, <3>2
  <2>5. CASE Wake(c)
    <3>1. CASE Head(inbox[c]) = Watched[c]
        BY <2>5, <3>1 DEF Wake, MatchesRun, Enter, Awake, Found, ShownEnd
    <3>2. CASE Head(inbox[c]) # Watched[c]
      <4>1. /\ inbox[c] \in Seq(Runs) /\ inbox[c] # <<>>
            /\ inbox'[c] = Tail(inbox[c])
          BY <2>5 DEF Wake
      <4>2. Told(c) => Told(c)'
        <5>1. SUFFICES ASSUME NEW i \in 1 .. Len(inbox[c]), inbox[c][i] = Watched[c]
                       PROVE  Told(c)'
            BY DEF Told, MatchesRun
        <5>2. i # 1
            BY <3>2, <4>1, <5>1
        <5>3. i - 1 \in 1 .. Len(inbox'[c])
            BY <4>1, <5>2, HeadTailProperties
        <5>4. inbox'[c][i - 1] = inbox[c][i]
            BY <4>1, <5>3, HeadTailProperties
        <5>5. QED
            BY <5>1, <5>3, <5>4 DEF Told, MatchesRun
      <4>3. stream'[c] = stream[c]
          BY <2>5, <3>2 DEF Wake, MatchesRun, Enter
      <4>4. QED
          BY <4>2, <4>3 DEF Awake, Found, ShownEnd
    <3>3. QED
        BY <3>1, <3>2
  <2>6. CASE Close(c)
      BY <2>6 DEF Close, Started, Leave, Awake, Found, ShownEnd
  <2>7. CASE ListenLost(c)
      BY <2>7 DEF ListenLost, Awake, Found, ShownEnd
  <2>8. QED
      BY <1>3, <2>1, <2>2, <2>3, <2>4, <2>5, <2>6, <2>7 DEF StreamMoves, Advance
<1>4. QED
    BY <1>2, <1>3

-----------------------------------------------------------------------------
\* Every reachable state satisfies the invariant of the streams.
THEOREM EventsInvariant == EventsSpec => []EventsInv
<1>1. EventsInit => EventsInv
  <2>1. EventsInit => EventsTypeOK
      BY EventsInitTypes
  <2>2. EventsInit => \A c \in Streams : StreamInv(c)
      BY DEF EventsInit, StreamInv, Awake, Found, ShownEnd
  <2>3. QED
      BY <2>1, <2>2 DEF EventsInv
<1>2. EventsInv /\ [EventsNext]_eventVars => EventsInv'
  <2> SUFFICES ASSUME EventsInv, [EventsNext]_eventVars
               PROVE  EventsInv'
      OBVIOUS
  <2>1. EventsTypeOK'
      BY EventsTypeStep DEF EventsInv
  <2>2. ASSUME NEW c \in Streams PROVE StreamInv(c)'
    <3>1. EventsTypeOK /\ StreamInv(c)
        BY DEF EventsInv
    <3>2. ASSUME NEW r \in Runs, Transit(r) PROVE StreamInv(c)'
        BY <3>1, <3>2, TransitKeeps
    <3>3. CASE Silent
        BY <3>1, <3>3, SilentKeeps
    <3>4. ASSUME NEW d \in Streams, StreamMoves(d) PROVE StreamInv(c)'
        BY <3>1, <3>4, StreamKeeps
    <3>5. CASE UNCHANGED eventVars
        BY <3>1, <3>5 DEF eventVars, storeVars, StreamInv, Awake, Told, MatchesRun, Found, ShownEnd
    <3>6. QED
        BY <3>2, <3>3, <3>4, <3>5 DEF EventsNext, StreamMoves
  <2>3. QED
      BY <2>1, <2>2 DEF EventsInv
<1>3. QED
    BY <1>1, <1>2, PTL DEF EventsSpec

\* No wake-up is lost (event_stream.py: the listener is there before the first
\* snapshot, and every change of the row notifies it).
THEOREM WakeupsAreKept == EventsSpec => []NoLostWakeup
<1>1. EventsInv => NoLostWakeup
    BY DEF EventsInv, StreamInv, Awake, NoLostWakeup
<1>2. QED
    BY <1>1, EventsInvariant, PTL

\* A stream that ends by itself has shown the final row, which no late
\* transaction changes any more.
THEOREM StreamsShowTheEnd == EventsSpec => []LastEventIsTheEnd
<1>1. EventsInv => LastEventIsTheEnd
    BY DEF EventsInv, StreamInv, ShownEnd, Ends, Terminal, LastEventIsTheEnd
<1>2. QED
    BY <1>1, EventsInvariant, PTL

-----------------------------------------------------------------------------
(* What the streams show, in order *)

\* The rows under the streams are the rows of RunStore, in any order of
\* transactions: what is proved of them there holds here.
THEOREM EventsImplementStore == EventsSpec => StoreSpec
<1>1. EventsInit => StoreInit
    BY DEF EventsInit
<1>2. EventsInv /\ [EventsNext]_eventVars => [StoreNext]_storeVars
    BY EventsRefineStore DEF EventsInv
<1>3. QED
    BY <1>1, <1>2, EventsInvariant, PTL DEF EventsSpec, StoreSpec

\* A client is behind the run, never ahead of it and never on a row the run
\* has not had.
BehindRun(c) ==
    stream[c].shown = run[Watched[c]] \/ Later(run[Watched[c]], stream[c].shown)

StreamsForward ==
    \A c \in Streams : \/ stream'[c].shown = stream[c].shown
                       \/ Later(stream'[c].shown, stream[c].shown)

StreamsGoForward == [][StreamsForward]_eventVars

\* The answer of a run that a client is told to be completed can be read, and
\* there is none of a run it is told to have failed.
AnswerBehindEvent ==
    \A c \in Streams :
        /\ stream[c].shown.status = "completed" =>
               replies[Watched[c]] = {stream[c].shown.attempt}
        /\ stream[c].shown.status = "failed" => replies[Watched[c]] = {}

\* A stream takes a row from nowhere but the table, at the moment it reads it.
LEMMA ShownMoves ==
    ASSUME EventsTypeOK, [EventsNext]_eventVars, NEW c \in Streams
    PROVE  \/ stream'[c].shown = stream[c].shown
           \/ run' = run /\ stream'[c].shown = run[Watched[c]]
<1> DEFINE Goal == \/ stream'[c].shown = stream[c].shown
                   \/ run' = run /\ stream'[c].shown = run[Watched[c]]
<1> USE DEF EventsTypeOK, StreamState
<1>1. ASSUME NEW r \in Runs, Transit(r) PROVE Goal
    BY <1>1 DEF Transit
<1>2. CASE Silent
    BY <1>2 DEF Silent
<1>3. ASSUME NEW d \in Streams, StreamMoves(d) PROVE Goal
  <2> USE <1>3 DEF Enter, Leave
  <2>1. CASE Open(d)
      BY <2>1 DEF Open
  <2>2. CASE Listen(d)
      BY <2>2 DEF Listen
  <2>3. CASE Snapshot(d)
    <3>1. CASE Leave(d, "closed")
        BY <3>1
    <3>2. CASE stream' = [stream EXCEPT ![d] =
                            [@ EXCEPT !.pc = "showing", !.shown = run[Watched[d]]]]
      <4>1. stream'[d].shown = run[Watched[d]] /\ run' = run
          BY <2>3, <3>2 DEF Snapshot, storeVars
      <4>2. c # d => stream'[c].shown = stream[c].shown
          BY <3>2
      <4>3. QED
          BY <4>1, <4>2
    <3>3. QED
        BY <2>3, <3>1, <3>2 DEF Snapshot
  <2>4. CASE Show(d)
    <3>1. CASE Leave(d, "ended")
        BY <3>1
    <3>2. CASE Enter(d, "waiting")
        BY <3>2
    <3>3. QED
        BY <2>4, <3>1, <3>2 DEF Show
  <2>5. CASE Wake(d)
      BY <2>5 DEF Wake
  <2>6. CASE Close(d)
      BY <2>6 DEF Close
  <2>7. CASE ListenLost(d)
      BY <2>7 DEF ListenLost
  <2>8. QED
      BY <1>3, <2>1, <2>2, <2>3, <2>4, <2>5, <2>6, <2>7 DEF StreamMoves, Advance
<1>4. CASE UNCHANGED eventVars
    BY <1>4 DEF eventVars
<1>5. QED
    BY <1>1, <1>2, <1>3, <1>4 DEF EventsNext, StreamMoves

\* The row moves ahead of its streams, and a stream catches up with it.
LEMMA BehindStep ==
    ASSUME EventsTypeOK, EventsTypeOK', [EventsNext]_eventVars, NEW c \in Streams,
           BehindRun(c)
    PROVE  /\ BehindRun(c)'
           /\ \/ stream'[c].shown = stream[c].shown
              \/ Later(stream'[c].shown, stream[c].shown)
<1>1. /\ Watched[c] \in Runs
      /\ run[Watched[c]] \in RunRow /\ run'[Watched[c]] \in RunRow
      /\ stream[c].shown \in RunRow
    BY StreamAssumption DEF EventsTypeOK, StoreTypeOK, StreamState
<1>2. run'[Watched[c]] = run[Watched[c]] \/ Later(run'[Watched[c]], run[Watched[c]])
    BY <1>1, EventsRefineStore, ForwardStep DEF EventsTypeOK, RowsForward
<1>3. CASE stream'[c].shown = stream[c].shown
  <2>1. \/ stream[c].shown = run'[Watched[c]]
        \/ Later(run'[Watched[c]], stream[c].shown)
      BY <1>1, <1>2, LaterIsStrict DEF BehindRun
  <2>2. QED
      BY <1>3, <2>1 DEF BehindRun
<1>4. CASE run' = run /\ stream'[c].shown = run[Watched[c]]
    BY <1>4 DEF BehindRun
<1>5. QED
    BY <1>3, <1>4, ShownMoves

\* Clients are never ahead of the rows.
LEMMA StreamsBehind == EventsSpec => [](\A c \in Streams : BehindRun(c))
<1> DEFINE Inv == \A c \in Streams : BehindRun(c)
<1>1. EventsInit => Inv
    BY StreamAssumption DEF EventsInit, StoreInit, BehindRun, Nothing
<1>2. EventsInv /\ EventsInv' /\ Inv /\ [EventsNext]_eventVars => Inv'
    BY BehindStep DEF EventsInv
<1> HIDE DEF Inv
<1>3. EventsSpec => []Inv
    BY <1>1, <1>2, EventsInvariant, PTL DEF EventsSpec
<1>4. QED
    BY <1>3 DEF Inv

\* No client sees a run go back: not to an earlier attempt, not from the end to
\* anything else, whatever notifications are late, doubled or lost
\* (event_stream.py, each event a fresh snapshot).
THEOREM ClientsSeeProgress == EventsSpec => StreamsGoForward
<1> DEFINE Inv == \A c \in Streams : BehindRun(c)
<1>1. EventsInv /\ EventsInv' /\ Inv /\ [EventsNext]_eventVars
          => [StreamsForward]_eventVars
    BY BehindStep DEF EventsInv, StreamsForward
<1>2. EventsSpec => []Inv
    BY StreamsBehind
<1> HIDE DEF Inv
<1>3. QED
    BY <1>1, <1>2, EventsInvariant, PTL DEF EventsSpec, StreamsGoForward

\* A client that is told of the end of its run finds the answer, or finds that
\* there is none (processor.py, the message and the completion in one commit).
THEOREM EventsTellTheOutcome == EventsSpec => []AnswerBehindEvent
<1> DEFINE Inv == \A c \in Streams : BehindRun(c)
<1>1. StoreInv /\ Inv => AnswerBehindEvent
  <2> SUFFICES ASSUME StoreInv, Inv, NEW c \in Streams,
                      stream[c].shown.status \in TerminalStatus
               PROVE  /\ stream[c].shown.status = "completed" =>
                             replies[Watched[c]] = {stream[c].shown.attempt}
                      /\ stream[c].shown.status = "failed" => replies[Watched[c]] = {}
      BY DEF AnswerBehindEvent, TerminalStatus
  <2>1. stream[c].shown = run[Watched[c]]
      BY DEF BehindRun, Later, TerminalStatus, ActiveStatus
  <2>2. Watched[c] \in Runs
      BY StreamAssumption
  <2>3. QED
      BY <2>1, <2>2 DEF StoreInv, SingleReply
<1>2. EventsSpec => []Inv
    BY StreamsBehind
<1>3. EventsSpec => []StoreInv
    BY EventsImplementStore, StoreInvariant, PTL
<1> HIDE DEF Inv
<1>4. QED
    BY <1>1, <1>2, <1>3, PTL
=============================================================================
