----------------------------- MODULE StreamPool -----------------------------
(***************************************************************************)
(* The connection pool of the API under the streams of RunEvents.  The     *)
(* session of a request (get_async_session) takes a connection with its    *)
(* first query and returns it when the response is complete; for a stream  *)
(* that is when the generator is done, because dependencies with yield are *)
(* closed after the response.  Each snapshot opens a session of its own    *)
(* beside it (load_run in agent_run/router.py) and so needs a second       *)
(* connection.  The LISTEN connection of a stream is not of the pool.      *)
(*                                                                         *)
(* A request that finds no free connection waits, and fails when the pool  *)
(* timeout has passed.  Any other request holds one connection at a time.  *)
(***************************************************************************)
EXTENDS RunEvents, FiniteSets

CONSTANTS
    Others,     \* requests of the API other than event streams
    PoolSize    \* pool_size + max_overflow of the engine

ASSUME PoolAssumption ==
    /\ IsFiniteSet(Streams) /\ IsFiniteSet(Others)
    /\ Streams \intersect Others = {}
    /\ PoolSize \in Nat \ {0}

VARIABLES
    requestConns,   \* the requests whose session holds a connection
    snapshotConns   \* the streams that load a snapshot over a second one

connVars == <<requestConns, snapshotConns>>
poolVars == <<eventVars, connVars>>

PoolTypeOK ==
    /\ EventsTypeOK
    /\ requestConns \subseteq Streams \union Others
    /\ snapshotConns \subseteq Streams
    /\ Cardinality(requestConns) + Cardinality(snapshotConns) <= PoolSize

PoolInit ==
    /\ EventsInit
    /\ requestConns = {}
    /\ snapshotConns = {}

FreeConnOffByOne == Cardinality(requestConns) + Cardinality(snapshotConns) <= PoolSize
FreeConn         == Cardinality(requestConns) + Cardinality(snapshotConns) < PoolSize

-----------------------------------------------------------------------------
(* Connections *)

\* get_current_user reads the user with the session of the request.
Arrive(c) ==
    /\ stream[c].pc = "new"
    /\ c \notin requestConns
    /\ FreeConn
    /\ requestConns' = requestConns \union {c}
    /\ UNCHANGED <<eventVars, snapshotConns>>

\* In load_run, with nothing read yet.
Loading(c) ==
    /\ c \in requestConns \ snapshotConns
    /\ stream[c].pc \in {"new", "reading"}

Checkout(c) ==
    /\ Loading(c)
    /\ FreeConn
    /\ snapshotConns' = snapshotConns \union {c}
    /\ UNCHANGED <<eventVars, requestConns>>

\* The session of load_run is closed with the snapshot.
KeepSnapshotConn(c)   == UNCHANGED snapshotConns
ReturnSnapshotConn(c) == snapshotConns' = snapshotConns \ {c}

\* The session of the request is closed with its response.
ReturnWhenDone(c) ==
    requestConns' = IF stream'[c].pc \in {"ended", "closed"} THEN requestConns \ {c}
                                                             ELSE requestConns

\* get_snapshot before the response; 404 ends the request.
FirstSnapshot(c) ==
    /\ c \in snapshotConns
    /\ \/ Open(c) /\ UNCHANGED requestConns
       \/ /\ stream[c].pc = "new" /\ ~CanRead(c)
          /\ requestConns' = requestConns \ {c}
          /\ UNCHANGED eventVars
    /\ ReturnSnapshotConn(c)

LoadSnapshot(c) ==
    /\ c \in snapshotConns
    /\ Snapshot(c)
    /\ ReturnWhenDone(c)
    /\ ReturnSnapshotConn(c)

\* No connection in time: the request answers 500, or the exception ends the
\* generator and with it the stream.
PoolTimeout(c) ==
    /\ Loading(c)
    /\ ~FreeConn
    /\ \/ stream[c].pc = "new" /\ UNCHANGED eventVars
       \/ stream[c].pc = "reading" /\ Close(c)
    /\ requestConns' = requestConns \ {c}
    /\ UNCHANGED snapshotConns

ShowEvent(c) == Show(c) /\ ReturnWhenDone(c) /\ UNCHANGED snapshotConns

CloseStream(c) == Close(c) /\ ReturnWhenDone(c) /\ ReturnSnapshotConn(c)

\* Another request: its session from the first query to its end.
Take(o) ==
    /\ o \notin requestConns
    /\ FreeConn
    /\ requestConns' = requestConns \union {o}
    /\ UNCHANGED <<eventVars, snapshotConns>>

Give(o) ==
    /\ o \in requestConns
    /\ requestConns' = requestConns \ {o}
    /\ UNCHANGED <<eventVars, snapshotConns>>

\* Everything that commits runs in another process or in another request.
Commit ==
    /\ (\E r \in Runs : Transit(r)) \/ Silent
    /\ UNCHANGED connVars

Proceed(c) ==
    \/ Checkout(c) \/ PoolTimeout(c)
    \/ FirstSnapshot(c) \/ LoadSnapshot(c)
    \/ ShowEvent(c)
    \/ (Listen(c) \/ Wake(c)) /\ UNCHANGED connVars

PoolNext ==
    \/ Commit
    \/ \E c \in Streams : \/ Arrive(c) \/ Proceed(c) \/ CloseStream(c)
                          \/ ListenLost(c) /\ UNCHANGED connVars
    \/ \E o \in Others : Take(o) \/ Give(o)

PoolSpec == PoolInit /\ [][PoolNext]_poolVars

\* The event loop goes on, and every other request ends.
PoolFairSpec ==
    /\ PoolSpec
    /\ \A c \in Streams : WF_poolVars(Proceed(c))
    /\ \A o \in Others : WF_poolVars(Give(o))

-----------------------------------------------------------------------------
(* The pool goes on *)

\* While there are fewer streams than connections, a full pool is never a
\* standstill of streams that wait for each other's connections: somebody
\* holds one that comes back without another being needed, another request or
\* a snapshot being loaded (agent_run/router.py, load_run).
FullPoolMoves ==
    Cardinality(Streams) < PoolSize /\ ~FreeConn =>
        \/ \E o \in Others : o \in requestConns
        \/ \E c \in snapshotConns : stream[c].pc \in {"new", "reading"}

\* Then also a connection comes free again and again, however long the
\* streams stay open, for whoever asks next (database/session.py).
RoomReturns ==
    Cardinality(Streams) < PoolSize => []<>FreeConn
=============================================================================
