-------------------------- MODULE StreamPoolProofs --------------------------
(***************************************************************************)
(* The pool of connections, for any number of streams, other requests and  *)
(* connections: the streams keep what RunEvents promises, and as long as   *)
(* there are fewer streams than connections they cannot block the pool.    *)
(***************************************************************************)
EXTENDS StreamPool, RunEventsProofs, FiniteSetTheorems

\* Without its connections a step is a step of the streams, or none.
LEMMA PoolRefinesEvents ==
    ASSUME [PoolNext]_poolVars
    PROVE  [EventsNext]_eventVars
<1> USE DEF Arrive, Checkout, FirstSnapshot, LoadSnapshot, PoolTimeout, ShowEvent,
            CloseStream, Take, Give
<1>1. CASE Commit
    BY <1>1 DEF Commit, EventsNext
<1>2. ASSUME NEW c \in Streams, Arrive(c) \/ Proceed(c) \/ CloseStream(c) \/ ListenLost(c)
      PROVE  EventsNext \/ UNCHANGED eventVars
    BY <1>2 DEF Proceed, EventsNext, Advance
<1>3. ASSUME NEW o \in Others, Take(o) \/ Give(o)
      PROVE  UNCHANGED eventVars
    BY <1>3
<1>4. CASE UNCHANGED poolVars
    BY <1>4 DEF poolVars
<1>5. QED
    BY <1>1, <1>2, <1>3, <1>4 DEF PoolNext

\* The streams with a pool are streams.
THEOREM PoolKeepsEvents == PoolSpec => EventsSpec
<1>1. PoolInit => EventsInit
    BY DEF PoolInit
<1>2. [PoolNext]_poolVars => [EventsNext]_eventVars
    BY PoolRefinesEvents
<1>3. QED
    BY <1>1, <1>2, PTL DEF PoolSpec, EventsSpec

-----------------------------------------------------------------------------
(* Counting connections *)

Shrink ==
    /\ requestConns' \subseteq requestConns
    /\ snapshotConns' \subseteq snapshotConns

GrowRequest ==
    /\ FreeConn
    /\ \E x \in Streams \union Others : requestConns' = requestConns \union {x}
    /\ UNCHANGED snapshotConns

GrowSnapshot ==
    /\ FreeConn
    /\ \E c \in Streams : snapshotConns' = snapshotConns \union {c}
    /\ UNCHANGED requestConns

\* A step takes one connection that was free, or takes none.
LEMMA ConnsMove ==
    ASSUME [PoolNext]_poolVars
    PROVE  Shrink \/ GrowRequest \/ GrowSnapshot
<1> USE DEF Shrink, GrowRequest, GrowSnapshot, connVars
<1>1. CASE Commit
    BY <1>1 DEF Commit
<1>2. ASSUME NEW c \in Streams, Arrive(c) \/ Proceed(c) \/ CloseStream(c)
      PROVE  Shrink \/ GrowRequest \/ GrowSnapshot
  <2>1. CASE Arrive(c)
      BY <2>1 DEF Arrive
  <2>2. CASE Checkout(c)
      BY <2>2 DEF Checkout
  <2>3. CASE PoolTimeout(c)
      BY <2>3 DEF PoolTimeout
  <2>4. CASE FirstSnapshot(c)
      BY <2>4 DEF FirstSnapshot, ReturnSnapshotConn
  <2>5. CASE LoadSnapshot(c)
      BY <2>5 DEF LoadSnapshot, ReturnSnapshotConn, ReturnWhenDone
  <2>6. CASE ShowEvent(c)
      BY <2>6 DEF ShowEvent, ReturnWhenDone
  <2>7. CASE CloseStream(c)
      BY <2>7 DEF CloseStream, ReturnSnapshotConn, ReturnWhenDone
  <2>8. CASE (Listen(c) \/ Wake(c)) /\ UNCHANGED connVars
      BY <2>8
  <2>9. QED
      BY <1>2, <2>1, <2>2, <2>3, <2>4, <2>5, <2>6, <2>7, <2>8 DEF Proceed
<1>3. ASSUME NEW o \in Others, Take(o) \/ Give(o)
      PROVE  Shrink \/ GrowRequest \/ GrowSnapshot
    BY <1>3 DEF Take, Give
<1>4. CASE UNCHANGED poolVars
    BY <1>4 DEF poolVars
<1>5. QED
    BY <1>1, <1>2, <1>3, <1>4 DEF PoolNext

\* The sets of holders are finite.
LEMMA FiniteHolders ==
    ASSUME NEW R \in SUBSET (Streams \union Others), NEW S \in SUBSET Streams
    PROVE  /\ IsFiniteSet(R) /\ IsFiniteSet(S)
           /\ Cardinality(R) \in Nat /\ Cardinality(S) \in Nat
           /\ Cardinality(Streams) \in Nat
<1>1. IsFiniteSet(Streams) /\ IsFiniteSet(Others)
    BY PoolAssumption
<1>2. IsFiniteSet(Streams \union Others)
    BY <1>1, FS_Union
<1>3. IsFiniteSet(R) /\ IsFiniteSet(S)
    BY <1>1, <1>2, FS_Subset
<1>4. QED
    BY <1>1, <1>3, FS_CardinalityType

\* No step takes a connection the pool has not.
LEMMA PoolTypeStep ==
    ASSUME PoolTypeOK, [PoolNext]_poolVars
    PROVE  PoolTypeOK'
<1>1. EventsTypeOK'
    BY PoolRefinesEvents, EventsTypeStep DEF PoolTypeOK
<1>2. requestConns' \subseteq Streams \union Others /\ snapshotConns' \subseteq Streams
    BY ConnsMove DEF PoolTypeOK, Shrink, GrowRequest, GrowSnapshot
<1>f. /\ IsFiniteSet(requestConns) /\ IsFiniteSet(snapshotConns)
      /\ Cardinality(requestConns) \in Nat /\ Cardinality(snapshotConns) \in Nat
    BY FiniteHolders DEF PoolTypeOK
<1>g. Cardinality(requestConns') \in Nat /\ Cardinality(snapshotConns') \in Nat
    BY <1>2, FiniteHolders
<1>b. PoolSize \in Nat
    BY PoolAssumption
<1>3. Cardinality(requestConns') + Cardinality(snapshotConns') <= PoolSize
  <2>1. CASE Shrink
    <3>1. Cardinality(requestConns') <= Cardinality(requestConns)
        BY <1>f, <2>1, FS_Subset DEF Shrink
    <3>2. Cardinality(snapshotConns') <= Cardinality(snapshotConns)
        BY <1>f, <2>1, FS_Subset DEF Shrink
    <3>3. QED
        BY <3>1, <3>2, <1>f, <1>g, <1>b DEF PoolTypeOK
  <2>2. CASE GrowRequest
    <3>1. PICK x \in Streams \union Others : requestConns' = requestConns \union {x}
        BY <2>2 DEF GrowRequest
    <3>2. Cardinality(requestConns \union {x}) <= Cardinality(requestConns) + 1
        BY <1>f, FS_AddElement
    <3>3. QED
        BY <3>1, <3>2, <2>2, <1>f, <1>g, <1>b DEF GrowRequest, FreeConn
  <2>3. CASE GrowSnapshot
    <3>1. PICK c \in Streams : snapshotConns' = snapshotConns \union {c}
        BY <2>3 DEF GrowSnapshot
    <3>2. Cardinality(snapshotConns \union {c}) <= Cardinality(snapshotConns) + 1
        BY <1>f, FS_AddElement
    <3>3. QED
        BY <3>1, <3>2, <2>3, <1>f, <1>g, <1>b DEF GrowSnapshot, FreeConn
  <2>4. QED
      BY <2>1, <2>2, <2>3, ConnsMove
<1>4. QED
    BY <1>1, <1>2, <1>3 DEF PoolTypeOK

-----------------------------------------------------------------------------
(* What the second connection of a stream is for *)

LoadsSnapshot(c) == stream[c].pc \in {"new", "reading"}

PoolInv ==
    /\ PoolTypeOK
    /\ \A c \in snapshotConns : LoadsSnapshot(c)

LEMMA SnapshotStep ==
    ASSUME PoolInv, [PoolNext]_poolVars
    PROVE  (\A c \in snapshotConns : LoadsSnapshot(c))'
<1> SUFFICES ASSUME NEW c \in snapshotConns' PROVE LoadsSnapshot(c)'
    OBVIOUS
<1>t. /\ c \in Streams
      /\ DOMAIN stream = Streams
      /\ c \in snapshotConns => stream[c].pc \in {"new", "reading"}
    BY ConnsMove DEF PoolInv, PoolTypeOK, EventsTypeOK, LoadsSnapshot,
                     Shrink, GrowRequest, GrowSnapshot
<1>1. CASE Commit
    BY <1>1, <1>t DEF Commit, Transit, Silent, connVars, LoadsSnapshot
<1>2. ASSUME NEW d \in Streams, Arrive(d) \/ Proceed(d) \/ CloseStream(d)
      PROVE  LoadsSnapshot(c)'
  <2>1. CASE Arrive(d)
      BY <2>1, <1>t DEF Arrive, eventVars, LoadsSnapshot
  <2>2. CASE Checkout(d)
      BY <2>2, <1>t DEF Checkout, Loading, eventVars, LoadsSnapshot
  <2>3. CASE PoolTimeout(d)
      BY <2>3, <1>t DEF PoolTimeout, Loading, Close, Leave, eventVars, LoadsSnapshot
  <2>4. CASE FirstSnapshot(d)
      BY <2>4, <1>t DEF FirstSnapshot, Open, Enter, ReturnSnapshotConn, eventVars,
                        LoadsSnapshot
  <2>5. CASE LoadSnapshot(d)
      BY <2>5, <1>t DEF LoadSnapshot, Snapshot, Leave, ReturnSnapshotConn, LoadsSnapshot
  <2>6. CASE ShowEvent(d)
      BY <2>6, <1>t DEF ShowEvent, Show, Enter, Leave, LoadsSnapshot
  <2>7. CASE CloseStream(d)
      BY <2>7, <1>t DEF CloseStream, Close, Leave, ReturnSnapshotConn, LoadsSnapshot
  <2>8. CASE (Listen(d) \/ Wake(d)) /\ UNCHANGED connVars
      BY <2>8, <1>t DEF Listen, Wake, Enter, connVars, LoadsSnapshot
  <2>9. QED
      BY <1>2, <2>1, <2>2, <2>3, <2>4, <2>5, <2>6, <2>7, <2>8 DEF Proceed
<1>3. ASSUME NEW d \in Streams, ListenLost(d) /\ UNCHANGED connVars
      PROVE  LoadsSnapshot(c)'
  <2>1. stream' = [stream EXCEPT ![d].listening = FALSE] /\ c \in snapshotConns
      BY <1>3 DEF ListenLost, connVars
  <2>2. stream[c] \in StreamState
      BY <1>t DEF PoolInv, PoolTypeOK, EventsTypeOK
  <2>3. stream'[c].pc = stream[c].pc
      BY <2>1, <2>2, <1>t DEF StreamState
  <2>4. QED
      BY <2>1, <2>3, <1>t DEF LoadsSnapshot
<1>4. ASSUME NEW o \in Others, Take(o) \/ Give(o)
      PROVE  LoadsSnapshot(c)'
    BY <1>4, <1>t DEF Take, Give, eventVars, LoadsSnapshot
<1>5. CASE UNCHANGED poolVars
    BY <1>5, <1>t DEF poolVars, eventVars, connVars, LoadsSnapshot
<1>6. QED
    BY <1>1, <1>2, <1>3, <1>4, <1>5 DEF PoolNext

\* Every reachable state satisfies the invariant of the pool.
THEOREM PoolInvariant == PoolSpec => []PoolInv
<1>1. PoolInit => PoolInv
  <2> SUFFICES ASSUME PoolInit PROVE PoolInv
      OBVIOUS
  <2>1. Cardinality(requestConns) + Cardinality(snapshotConns) <= PoolSize
      BY FS_EmptySet, PoolAssumption DEF PoolInit
  <2>2. QED
      BY <2>1, EventsInitTypes DEF PoolInit, PoolInv, PoolTypeOK
<1>2. PoolInv /\ [PoolNext]_poolVars => PoolInv'
    BY PoolTypeStep, SnapshotStep DEF PoolInv
<1>3. QED
    BY <1>1, <1>2, PTL DEF PoolSpec

\* The pool never gives out more connections than it has.
THEOREM PoolIsBounded == PoolSpec => []PoolTypeOK
<1>1. PoolInv => PoolTypeOK
    BY DEF PoolInv
<1>2. QED
    BY <1>1, PoolInvariant, PTL

\* Fewer streams than connections never bring the pool to a standstill
\* (agent_run/router.py, load_run): when it is full, either a stream holds
\* two and is about to return one, or another request holds one.
THEOREM StreamsLeaveRoom == PoolSpec => []FullPoolMoves
<1>1. PoolInv => FullPoolMoves
  <2> SUFFICES ASSUME PoolInv, Cardinality(Streams) < PoolSize, ~FreeConn,
                      ~ \E o \in Others : o \in requestConns
               PROVE  \E c \in snapshotConns : stream[c].pc \in {"new", "reading"}
      BY DEF FullPoolMoves
  <2>1. requestConns \in SUBSET Streams /\ snapshotConns \in SUBSET Streams
      BY DEF PoolInv, PoolTypeOK
  <2>2. IsFiniteSet(Streams) /\ PoolSize \in Nat
      BY PoolAssumption
  <2>3. /\ Cardinality(requestConns) \in Nat /\ Cardinality(snapshotConns) \in Nat
        /\ Cardinality(Streams) \in Nat
      BY <2>1, FiniteHolders
  <2>4. Cardinality(requestConns) <= Cardinality(Streams)
      BY <2>1, <2>2, FS_Subset
  <2>5. Cardinality(snapshotConns) # 0
      BY <2>2, <2>3, <2>4 DEF FreeConn
  <2>6. snapshotConns # {}
      BY <2>5, FS_EmptySet
  <2>7. QED
      BY <2>6 DEF PoolInv, LoadsSnapshot
<1>2. QED
    BY <1>1, PoolInvariant, PTL

\* Also with a pool no wake-up of a stream is lost (event_stream.py).
THEOREM PooledWakeupsAreKept == PoolSpec => []NoLostWakeup
    BY PoolKeepsEvents, WakeupsAreKept, PTL

\* Also with a pool the last event of a stream is the end of its run.
THEOREM PooledStreamsShowTheEnd == PoolSpec => []LastEventIsTheEnd
    BY PoolKeepsEvents, StreamsShowTheEnd, PTL

\* The rows under the pool are the rows of RunStore: no transaction depends on
\* the connections the streams hold.
THEOREM PoolImplementsStore == PoolSpec => StoreSpec
    BY PoolKeepsEvents, EventsImplementStore, PTL

\* Also with a pool a stream never goes back, and an event of the end is never
\* ahead of the answer.
THEOREM PooledClientsSeeProgress == PoolSpec => StreamsGoForward /\ []AnswerBehindEvent
    BY PoolKeepsEvents, ClientsSeeProgress, EventsTellTheOutcome, PTL
=============================================================================
