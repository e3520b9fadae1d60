--------------------------- MODULE AccountsProofs ---------------------------
(***************************************************************************)
(* Accounts and refresh tokens, for any number of requests, addresses and  *)
(* devices in any order, with handlers that die at any step.               *)
(***************************************************************************)
EXTENDS Accounts, TLAPS

\* The two tables only grow, and what they say of a row is never taken back.
TablesGrow ==
    /\ accounts \subseteq accounts' /\ inactive \subseteq inactive'
    /\ deleted \subseteq deleted' /\ stored \subseteq stored'
    /\ revoked \subseteq revoked' /\ expired \subseteq expired'

Unfinished(q) == request[q].pc \in {"idle"} \union Waits

\* A step of request q.
Moves(q) ==
    \/ Arrive(q) \/ CheckAddress(q) \/ AddUser(q) \/ FindUser(q) \/ VerifyPassword(q)
    \/ FindToken(q) \/ LoadUser(q) \/ Revoke(q) \/ IssueTokens(q) \/ CheckAccess(q)
    \/ Abort(q)

\* What a step of a request leaves alone.
Frame(q) ==
    /\ Unfinished(q)
    /\ \A p \in Requests \ {q} : request'[p] = request[p]
    /\ request'[q].pc # "idle"
    /\ \/ request[q].pc = "idle"
       \/ request'[q].token = request[q].token /\ request'[q].late = request[q].late

TableTypes ==
    /\ accounts \subseteq Requests /\ inactive \subseteq accounts /\ deleted \subseteq accounts
    /\ stored \subseteq Requests /\ revoked \subseteq stored /\ expired \subseteq stored

\* A request that looks a token up has one.
HasToken(q) == request[q].pc = "loading" => request[q].token \in Requests

\* A new record of one request, with what was presented kept.
LEMMA RecordStep ==
    ASSUME request \in [Requests -> RequestState], NEW q \in Requests, Unfinished(q),
           NEW row \in RequestState, row.pc # "idle",
           request[q].pc = "idle" \/ (/\ row.token = request[q].token
                                     /\ row.late = request[q].late),
           request' = [request EXCEPT ![q] = row]
    PROVE  request' \in [Requests -> RequestState] /\ Frame(q)
BY DEF Frame

LEMMA GoStep ==
    ASSUME request \in [Requests -> RequestState], NEW q \in Requests,
           request[q].pc \in Waits, NEW pc \in Waits \union Answered, Go(q, pc)
    PROVE  request' \in [Requests -> RequestState] /\ Frame(q)
<1> DEFINE row == [request[q] EXCEPT !.pc = pc]
<1>1. /\ row \in RequestState /\ row.pc = pc
      /\ row.token = request[q].token /\ row.late = request[q].late
    BY DEF RequestState
<1>2. request' = [request EXCEPT ![q] = row]
    BY DEF Go
<1>3. pc # "idle" /\ Unfinished(q)
    BY DEF Waits, Answered, Unfinished
<1> HIDE DEF row
<1>4. QED
    BY <1>1, <1>2, <1>3, RecordStep

LEMMA MoveRequest ==
    ASSUME AuthTypeOK, NEW q \in Requests, HasToken(q), Moves(q)
    PROVE  request' \in [Requests -> RequestState] /\ Frame(q)
<1>t. /\ request \in [Requests -> RequestState]
      /\ request[q] \in RequestState
      /\ accounts \subseteq Requests
    BY DEF AuthTypeOK
<1>w. /\ {"arrived", "adding", "verifying", "loading", "revoking", "issuing"} = Waits
      /\ {"done", "refused", "failed"} = Answered
    BY DEF Waits, Answered
<1>1. CASE Arrive(q)
  <2>1. PICK t \in Requests \union {Nobody} :
          request' = [request EXCEPT ![q] =
            [@ EXCEPT !.pc = "arrived", !.token = t, !.late = Impossible(q, t)]]
      BY <1>1 DEF Arrive
  <2> DEFINE row == [request[q] EXCEPT !.pc = "arrived", !.token = t,
                                       !.late = Impossible(q, t)]
  <2>2. Impossible(q, t) \in BOOLEAN
      BY DEF Impossible
  <2>3. row \in RequestState /\ row.pc = "arrived"
      BY <2>2, <1>t, <1>w DEF RequestState
  <2>4. request' = [request EXCEPT ![q] = row]
      BY <2>1
  <2>5. request[q].pc = "idle"
      BY <1>1 DEF Arrive
  <2> HIDE DEF row
  <2>6. QED
      BY <2>3, <2>4, <2>5, <1>t, RecordStep DEF Unfinished
<1>2. ASSUME NEW pc \in {"adding", "done", "refused", "failed", "issuing", "loading"},
             Go(q, pc), request[q].pc \in Waits
      PROVE  request' \in [Requests -> RequestState] /\ Frame(q)
    BY <1>2, <1>t, <1>w, GoStep
<1>3. CASE CheckAddress(q)
    BY <1>2, <1>3, <1>w DEF CheckAddress, At
<1>4. CASE AddUser(q)
    BY <1>2, <1>4, <1>w DEF AddUser, AfterCommit, At
<1>5. CASE FindUser(q)
  <2>1. CASE Go(q, "refused")
      BY <1>2, <1>5, <2>1, <1>w DEF FindUser, At
  <2>2. ASSUME NEW a \in With(AddressOf[q]),
               request' = [request EXCEPT ![q] =
                 [@ EXCEPT !.pc = "verifying", !.user = a, !.active = a \notin inactive]]
        PROVE  request' \in [Requests -> RequestState] /\ Frame(q)
    <3> DEFINE b   == a \notin inactive
               row == [request[q] EXCEPT !.pc = "verifying", !.user = a, !.active = b]
    <3>1. a \in Requests /\ b \in BOOLEAN
        BY <1>t DEF With
    <3>3. request' = [request EXCEPT ![q] = row]
        BY <2>2
    <3> HIDE DEF b
    <3>2. /\ row \in RequestState /\ row.pc = "verifying"
          /\ row.token = request[q].token /\ row.late = request[q].late
        BY <3>1, <1>t, <1>w DEF RequestState
    <3>4. Unfinished(q)
        BY <1>5, <1>w DEF FindUser, At, Unfinished
    <3> HIDE DEF row
    <3>5. QED
        BY <3>2, <3>3, <3>4, <1>t, RecordStep
  <2>3. QED
      BY <1>5, <2>1, <2>2 DEF FindUser
<1>6. CASE VerifyPassword(q)
    BY <1>2, <1>6, <1>w DEF VerifyPassword, At
<1>7. CASE FindToken(q)
    BY <1>2, <1>7, <1>w DEF FindToken, At
<1>8. CASE LoadUser(q)
  <2> DEFINE a   == OwnerOf(request[q].token)
             pc  == IF a \in accounts \ inactive THEN "revoking" ELSE "refused"
             row == [request[q] EXCEPT !.pc = pc, !.user = a]
  <2>1. request' = [request EXCEPT ![q] = row] /\ request[q].pc = "loading"
      BY <1>8 DEF LoadUser, At
  <2>2. a \in Requests \union {Nobody}
      BY <2>1, <1>t DEF HasToken, OwnerOf, RequestState
  <2>3. pc \in Waits \union Answered /\ pc # "idle"
      BY DEF Waits, Answered
  <2> HIDE DEF a, pc
  <2>4. /\ row \in RequestState /\ row.pc = pc
        /\ row.token = request[q].token /\ row.late = request[q].late
      BY <2>2, <2>3, <1>t DEF RequestState
  <2> HIDE DEF row
  <2>5. QED
      BY <2>1, <2>3, <2>4, <1>t, <1>w, RecordStep DEF Unfinished
<1>9. CASE Revoke(q)
    BY <1>2, <1>9, <1>w DEF Revoke, AfterCommit, At
<1>10. CASE IssueTokens(q)
    BY <1>2, <1>10, <1>w DEF IssueTokens, StoreToken, AfterCommit
<1>11. CASE CheckAccess(q)
    BY <1>2, <1>11, <1>w DEF CheckAccess, At
<1>12. CASE Abort(q)
    BY <1>2, <1>12 DEF Abort
<1>13. QED
    BY <1>1, <1>3, <1>4, <1>5, <1>6, <1>7, <1>8, <1>9, <1>10, <1>11, <1>12 DEF Moves

LEMMA MoveTables ==
    ASSUME TableTypes, NEW q \in Requests, Moves(q)
    PROVE  TableTypes' /\ TablesGrow
<1> USE DEF TableTypes, TablesGrow, accountVars, tokenVars
<1>1. CASE Arrive(q) \/ CheckAddress(q) \/ FindUser(q) \/ VerifyPassword(q) \/ FindToken(q)
           \/ LoadUser(q) \/ CheckAccess(q) \/ Abort(q)
    BY <1>1 DEF Arrive, CheckAddress, FindUser, VerifyPassword, FindToken, LoadUser,
                CheckAccess, Abort
<1>2. CASE AddUser(q)
    BY <1>2 DEF AddUser
<1>3. CASE Revoke(q)
    BY <1>3 DEF Revoke, Revokes
<1>4. CASE IssueTokens(q)
    BY <1>4 DEF IssueTokens, StoreToken
<1>5. QED
    BY <1>1, <1>2, <1>3, <1>4 DEF Moves

LEMMA TimeStep ==
    ASSUME TableTypes, NEW t \in Requests, Expire(t) \/ UpdateUser(t)
    PROVE  TableTypes' /\ TablesGrow /\ UNCHANGED request
BY DEF TableTypes, TablesGrow, Expire, UpdateUser, accountVars, tokenVars

-----------------------------------------------------------------------------
(* The invariant *)

\* A request that arrived too late: why, and how far it gets.
LateInv(q) ==
    /\ request[q].pc # "idle"
    /\ Impossible(q, request[q].token)
    /\ request[q].pc \notin {"revoking", "issuing", "done"}
    /\ request[q].pc = "verifying" => ~request[q].active
    /\ request[q].pc = "loading" => OwnerOf(request[q].token) \in inactive

RequestInv(q) ==
    /\ request[q].pc = "idle" => request[q].token = Nobody
    /\ Kind[q] \in {"refresh", "logout", "access"} /\ request[q].pc # "idle"
         => request[q].token \in Requests /\ Issued(request[q].token)
    /\ request[q].pc = "loading" => Kind[q] = "refresh"
    /\ request[q].pc = "issuing" => Kind[q] \in {"login", "refresh"}
    /\ Issued(q) => q \in stored
    /\ q \in accounts => Kind[q] = "register" /\ request[q].pc \in {"done", "failed"}
    /\ Kind[q] = "register" /\ request[q].pc = "done" => q \in accounts
    /\ request[q].late => LateInv(q)

OnePerAddress  == \A a, b \in accounts : AddressOf[a] = AddressOf[b] => a = b
RevokedWasUsed == \A t \in revoked : Presented(t)

AuthInv ==
    /\ AuthTypeOK
    /\ OnePerAddress
    /\ RevokedWasUsed
    /\ \A q \in Requests : RequestInv(q)

\* What was issued stays as it is.
LEMMA IssuedStays ==
    ASSUME NEW q \in Requests, Frame(q), NEW t \in Requests, Issued(t)
    PROVE  request'[t] = request[t] /\ Issued(t)' /\ t # q
BY DEF Frame, Unfinished, Issued, Waits

\* What stood against a request on arrival stands against it for ever.
LEMMA ImpossibleStays ==
    ASSUME TablesGrow, NEW p \in Requests, NEW t, Impossible(p, t),
           Kind[p] \in {"refresh", "access"} => request'[t] = request[t]
    PROVE  Impossible(p, t)'
BY DEF TablesGrow, Impossible, With, OwnerOf

LEMMA OthersKeep ==
    ASSUME AuthInv, NEW q \in Requests, TablesGrow, Frame(q),
           accounts' \ {q} = accounts \ {q}, NEW p \in Requests \ {q}
    PROVE  RequestInv(p)'
<1>1. RequestInv(p) /\ p \in Requests /\ request'[p] = request[p]
    BY DEF AuthInv, Frame
<1> DEFINE t == request[p].token
<1>2. ASSUME Kind[p] \in {"refresh", "logout", "access"}, request[p].pc # "idle"
      PROVE  t \in Requests /\ Issued(t)' /\ request'[t] = request[t]
    BY <1>1, <1>2, IssuedStays DEF RequestInv
<1>3. request[p].late => LateInv(p)'
  <2> SUFFICES ASSUME request[p].late PROVE LateInv(p)'
      OBVIOUS
  <2>1. LateInv(p)
      BY <1>1 DEF RequestInv
  <2>2. Impossible(p, t)'
      BY <1>1, <1>2, <2>1, ImpossibleStays DEF LateInv
  <2>3. request[p].pc = "loading" => OwnerOf(t)' \in inactive'
      BY <1>1, <1>2, <2>1 DEF LateInv, RequestInv, OwnerOf, TablesGrow
  <2>4. QED
      BY <1>1, <2>1, <2>2, <2>3 DEF LateInv, OwnerOf, Impossible, With
<1>4. Issued(p)' => p \in stored'
    BY <1>1 DEF RequestInv, Issued, TablesGrow
<1>5. QED
    BY <1>1, <1>2, <1>3, <1>4 DEF RequestInv, Issued

LEMMA MoverKeeps ==
    ASSUME AuthInv, NEW q \in Requests, Moves(q), TablesGrow, Frame(q),
           request' \in [Requests -> RequestState]
    PROVE  RequestInv(q)'
<1> DEFINE t == request[q].token
<1>i. /\ RequestInv(q)
      /\ request \in [Requests -> RequestState] /\ request[q] \in RequestState
      /\ Nobody \notin Requests
    BY AccountAssumption DEF AuthInv, AuthTypeOK
<1>f. q \notin accounts /\ ~Issued(q)
    BY <1>i DEF Frame, Unfinished, Waits, RequestInv, Issued
<1>1. CASE Arrive(q)
  <2>1. PICK u \in Requests \union {Nobody} :
          /\ IF Kind[q] \in {"register", "login"} THEN u = Nobody
                                                  ELSE u \in Requests /\ Issued(u)
          /\ request' = [request EXCEPT ![q] =
               [@ EXCEPT !.pc = "arrived", !.token = u, !.late = Impossible(q, u)]]
      BY <1>1 DEF Arrive
  <2>2. /\ request'[q].pc = "arrived" /\ request'[q].token = u
        /\ request'[q].late = Impossible(q, u)
      BY <2>1, <1>i DEF RequestState
  <2>3. Kind[q] \in {"refresh", "logout", "access"}
          => u \in Requests /\ Issued(u)' /\ request'[u] = request[u]
      BY <2>1, IssuedStays
  <2>4. Impossible(q, u) => Impossible(q, u)'
      BY <2>3, ImpossibleStays
  <2>5. q \notin accounts'
      BY <1>1, <1>f DEF Arrive, accountVars
  <2>6. QED
      BY <2>2, <2>3, <2>4, <2>5 DEF RequestInv, LateInv, Issued, Impossible, With, OwnerOf
<1>2. ASSUME ~Arrive(q) PROVE RequestInv(q)'
  <2>1. /\ request[q].pc \in Waits
        /\ request'[q].token = t /\ request'[q].late = request[q].late
        /\ request'[q].pc # "idle"
      BY <1>2 DEF Frame, Moves, CheckAddress, AddUser, FindUser, VerifyPassword, FindToken,
                  LoadUser, Revoke, IssueTokens, StoreToken, CheckAccess, Abort, At, Waits
  <2>2. Kind[q] \in {"refresh", "logout", "access"}
          => t \in Requests /\ Issued(t) /\ Issued(t)' /\ request'[t] = request[t]
      BY <2>1, <1>i, IssuedStays DEF RequestInv, Waits
  <2>3. request[q].late => LateInv(q) /\ Impossible(q, t)'
    <3> SUFFICES ASSUME request[q].late PROVE LateInv(q) /\ Impossible(q, t)'
        OBVIOUS
    <3>1. LateInv(q) /\ Impossible(q, t)
        BY <1>i DEF RequestInv, LateInv
    <3>2. Kind[q] \in {"refresh", "access"} => request'[t] = request[t]
        BY <2>2
    <3>3. \A u : u = t => Impossible(q, u)'
        BY <3>1, <3>2, ImpossibleStays
    <3>4. QED
        BY <2>1, <3>1, <3>3
  <2>4. request[q].late /\ request'[q].pc \in {"refused", "failed"} => LateInv(q)'
      BY <2>1, <2>3 DEF LateInv, Impossible, With, OwnerOf
  <2> DEFINE Rest ==
        /\ request'[q].pc \in {"refused", "failed"} \/ (request[q].late => LateInv(q)')
        /\ request'[q].pc = "loading" => Kind[q] = "refresh"
        /\ request'[q].pc = "issuing" => Kind[q] \in {"login", "refresh"}
        /\ request'[q].pc = "done" /\ Kind[q] \in {"login", "refresh"} => q \in stored'
        /\ q \in accounts' => Kind[q] = "register" /\ request'[q].pc \in {"done", "failed"}
        /\ Kind[q] = "register" /\ request'[q].pc = "done" => q \in accounts'
  <2>5. Rest => RequestInv(q)'
      BY <2>1, <2>2, <2>4 DEF RequestInv, Issued
  <2> USE DEF At, Go, accountVars, tokenVars
  <2>6. CASE CheckAddress(q) \/ Abort(q)
    <3>1. /\ q \notin accounts'
          /\ request'[q].pc \in {"adding", "refused", "failed"}
        BY <2>6, <1>f, <1>i DEF CheckAddress, Abort, RequestState
    <3>2. request'[q].pc = "adding" /\ request[q].late => FALSE
        BY <2>6, <2>3, <1>i DEF CheckAddress, Abort, LateInv, Impossible, RequestState
    <3>3. QED
        BY <3>1, <3>2, <2>5
  <2>7. CASE AddUser(q)
    <3>1. ~AddressFree(q) => q \notin accounts' /\ request'[q].pc = "failed"
        BY <2>7, <1>f, <1>i DEF AddUser, RequestState
    <3>2. AddressFree(q) => /\ q \in accounts' /\ Kind[q] = "register"
                            /\ request'[q].pc \in {"done", "failed"}
        BY <2>7, <1>f, <1>i DEF AddUser, AfterCommit, RequestState
    <3>3. AddressFree(q) => ~request[q].late
        BY <2>7, <2>3 DEF AddUser, AddressFree, LateInv, Impossible
    <3>4. QED
        BY <3>1, <3>2, <3>3, <2>5
  <2>8. CASE FindUser(q)
    <3>1. q \notin accounts' /\ Kind[q] = "login"
        BY <2>8, <1>f DEF FindUser
    <3>2. CASE Go(q, "refused")
        BY <3>1, <3>2, <2>5, <1>i DEF RequestState
    <3>3. ASSUME NEW a \in With(AddressOf[q]),
                 request' = [request EXCEPT ![q] =
                   [@ EXCEPT !.pc = "verifying", !.user = a, !.active = a \notin inactive]]
          PROVE  RequestInv(q)'
      <4>1. request'[q].pc = "verifying" /\ request'[q].active = (a \notin inactive)
          BY <3>3, <1>i DEF RequestState
      <4>2. request[q].late => a \in inactive
          BY <3>1, <2>3 DEF LateInv, Impossible, With, AuthInv, OnePerAddress
      <4>3. request[q].late => LateInv(q)'
          BY <4>1, <4>2, <2>1, <2>3 DEF LateInv, Impossible, With, OwnerOf
      <4>4. QED
          BY <3>1, <4>1, <4>3, <2>5
    <3>4. QED
        BY <2>8, <3>2, <3>3 DEF FindUser
  <2>9. CASE VerifyPassword(q)
    <3>1. /\ q \notin accounts' /\ Kind[q] = "login"
          /\ request'[q].pc \in {"issuing", "refused"}
        BY <2>9, <1>f, <1>i DEF VerifyPassword, RequestState
    <3>2. request'[q].pc = "issuing" => ~request[q].late
        BY <2>9, <2>3, <1>i DEF VerifyPassword, LateInv, RequestState
    <3>3. QED
        BY <3>1, <3>2, <2>5
  <2>10. CASE FindToken(q)
    <3>1. /\ q \notin accounts' /\ Kind[q] = "refresh"
          /\ request'[q].pc \in {"loading", "refused"}
        BY <2>10, <1>f, <1>i DEF FindToken, RequestState
    <3>2. request'[q].pc = "loading" /\ request[q].late => OwnerOf(t) \in inactive
        BY <2>10, <2>3, <1>i DEF FindToken, LateInv, RequestState, Impossible, ActiveTokens
    <3>3. OwnerOf(t)' = OwnerOf(t) /\ inactive' = inactive
        BY <2>10, <3>1, <2>2 DEF FindToken, OwnerOf
    <3>4. request'[q].pc = "loading" /\ request[q].late => LateInv(q)'
        BY <3>2, <3>3, <2>1, <2>3 DEF LateInv, OwnerOf, Impossible, With
    <3>5. QED
        BY <3>1, <3>4, <2>5
  <2>11. CASE LoadUser(q)
    <3>1. /\ q \notin accounts'
          /\ request'[q].pc \in {"revoking", "refused"}
          /\ request'[q].pc = "revoking" => OwnerOf(t) \notin inactive
        BY <2>11, <1>f, <1>i DEF LoadUser, RequestState
    <3>2. request'[q].pc = "revoking" => ~request[q].late
        BY <2>11, <3>1, <2>3 DEF LoadUser, LateInv
    <3>3. QED
        BY <3>1, <3>2, <2>5
  <2>12. CASE Revoke(q)
    <3>1. /\ q \notin accounts'
          /\ \/ /\ Kind[q] = "refresh" /\ request[q].pc = "revoking"
                /\ request'[q].pc \in {"issuing", "failed"}
             \/ Kind[q] = "logout" /\ request'[q].pc \in {"done", "failed"}
        BY <2>12, <1>f, <1>i DEF Revoke, AfterCommit, RequestState
    <3>2. ~request[q].late
        BY <3>1, <2>3 DEF LateInv, Impossible
    <3>3. QED
        BY <3>1, <3>2, <2>5
  <2>13. CASE IssueTokens(q)
    <3>1. /\ q \notin accounts' /\ q \in stored' /\ request'[q].pc \in {"done", "failed"}
          /\ Kind[q] \in {"login", "refresh"} /\ request[q].pc = "issuing"
        BY <2>13, <1>f, <1>i DEF IssueTokens, StoreToken, AfterCommit, RequestInv, RequestState
    <3>2. ~request[q].late
        BY <3>1, <2>3 DEF LateInv
    <3>3. QED
        BY <3>1, <3>2, <2>5
  <2>14. CASE CheckAccess(q)
    <3>1. /\ q \notin accounts' /\ Kind[q] = "access"
          /\ request'[q].pc \in {"done", "refused"}
        BY <2>14, <1>f, <1>i DEF CheckAccess, RequestState
    <3>2. request'[q].pc = "done" => ~request[q].late
        BY <2>14, <3>1, <2>3, <1>i DEF CheckAccess, LateInv, Impossible, RequestState
    <3>3. QED
        BY <3>1, <3>2, <2>5
  <2>15. QED
      BY <1>2, <2>6, <2>7, <2>8, <2>9, <2>10, <2>11, <2>12, <2>13, <2>14 DEF Moves
<1>3. QED
    BY <1>1, <1>2

\* The invariant is kept by every step of a request.
LEMMA MoveKeepsInv ==
    ASSUME AuthInv, NEW q \in Requests, Moves(q)
    PROVE  AuthInv'
<1>1. HasToken(q)
    BY DEF AuthInv, RequestInv, HasToken
<1>2. request' \in [Requests -> RequestState] /\ Frame(q)
    BY <1>1, MoveRequest DEF AuthInv
<1>3. TableTypes' /\ TablesGrow
    BY MoveTables DEF AuthInv, AuthTypeOK, TableTypes
<1>4. AuthTypeOK'
    BY <1>2, <1>3 DEF AuthTypeOK, TableTypes
<1>5. /\ accounts' = accounts \/ (accounts' = accounts \union {q} /\ AddressFree(q))
      /\ revoked' = revoked \/ (/\ revoked' \subseteq revoked \union {request[q].token}
                                /\ Kind[q] \in {"refresh", "logout"})
    BY DEF Moves, Arrive, CheckAddress, AddUser, FindUser, VerifyPassword, FindToken, LoadUser,
           Revoke, Revokes, IssueTokens, StoreToken, CheckAccess, Abort, accountVars, tokenVars, At
<1>6. OnePerAddress'
    BY <1>5 DEF AuthInv, OnePerAddress, AddressFree, With
<1>7. RevokedWasUsed'
  <2> SUFFICES ASSUME NEW t \in revoked' PROVE Presented(t)'
      BY DEF RevokedWasUsed
  <2>1. t \in revoked \/ (Kind[q] \in {"refresh", "logout"} /\ request[q].token = t)
      BY <1>5
  <2>2. PICK p \in Requests : Kind[p] \in {"refresh", "logout"} /\ request[p].token = t
      BY <2>1 DEF AuthInv, RevokedWasUsed, Presented
  <2>3. t # Nobody
      BY <1>3, AccountAssumption DEF TableTypes
  <2>4. request'[p].token = t
      BY <1>2, <2>2, <2>3 DEF Frame, AuthInv, RequestInv
  <2>5. QED
      BY <2>2, <2>4 DEF Presented
<1>8. \A p \in Requests : RequestInv(p)'
  <2>1. accounts' \ {q} = accounts \ {q}
      BY <1>5
  <2>2. RequestInv(q)'
      BY <1>2, <1>3, MoverKeeps
  <2>3. ASSUME NEW p \in Requests \ {q} PROVE RequestInv(p)'
      BY <1>2, <1>3, <2>1, OthersKeep
  <2>4. QED
      BY <2>2, <2>3
<1>9. QED
    BY <1>4, <1>6, <1>7, <1>8 DEF AuthInv

\* Nor does it depend on the time, or on who is deactivated.
LEMMA TimeKeepsInv ==
    ASSUME AuthInv, NEW t \in Requests, Expire(t) \/ UpdateUser(t)
    PROVE  AuthInv'
<1>1. TableTypes' /\ TablesGrow /\ UNCHANGED request
    BY TimeStep DEF AuthInv, AuthTypeOK, TableTypes
<1>2. UNCHANGED <<accounts, stored, revoked>>
    BY DEF Expire, UpdateUser, accountVars, tokenVars
<1>3. AuthTypeOK' /\ OnePerAddress' /\ RevokedWasUsed'
    BY <1>1, <1>2 DEF AuthInv, AuthTypeOK, TableTypes, OnePerAddress, RevokedWasUsed, Presented
<1>4. ASSUME NEW p \in Requests PROVE RequestInv(p)'
  <2>1. RequestInv(p)
      BY DEF AuthInv
  <2>2. LateInv(p) => LateInv(p)'
    <3>1. Impossible(p, request[p].token) => Impossible(p, request[p].token)'
        BY <1>1, ImpossibleStays
    <3>2. QED
        BY <1>1, <1>2, <3>1 DEF LateInv, OwnerOf, TablesGrow
  <2>3. QED
      BY <1>1, <1>2, <2>1, <2>2 DEF RequestInv, Issued
<1>5. QED
    BY <1>3, <1>4 DEF AuthInv

\* Every reachable state satisfies the invariant.
THEOREM AuthInvariant == AuthSpec => []AuthInv
<1>1. AuthInit => AuthInv
    BY DEF AuthInit, AuthInv, AuthTypeOK, OnePerAddress, RevokedWasUsed, RequestInv,
           Issued, RequestState
<1>2. AuthInv /\ [AuthNext]_authVars => AuthInv'
  <2> SUFFICES ASSUME AuthInv, [AuthNext]_authVars PROVE AuthInv'
      OBVIOUS
  <2>1. CASE AuthNext
      BY <2>1, MoveKeepsInv, TimeKeepsInv DEF AuthNext, Moves
  <2>2. CASE UNCHANGED authVars
      BY <2>2 DEF authVars, accountVars, tokenVars, AuthInv, AuthTypeOK, OnePerAddress,
                  RevokedWasUsed, Presented, RequestInv, LateInv, Issued, Impossible, With, OwnerOf
  <2>3. QED
      BY <2>1, <2>2
<1>3. QED
    BY <1>1, <1>2, PTL DEF AuthSpec

\* The columns and requests keep their types: no token is revoked or expired
\* that is not stored.
THEOREM AuthTypes == AuthSpec => []AuthTypeOK
<1>1. AuthInv => AuthTypeOK
    BY DEF AuthInv
<1>2. QED
    BY <1>1, AuthInvariant, PTL

\* One account per address, that of the registration that was answered if one
\* was (auth/service.py, register; the unique index decides the race).
THEOREM AddressesAreUnique == AuthSpec => []OneAccount
<1>1. AuthInv => OneAccount
    BY DEF AuthInv, AuthTypeOK, OnePerAddress, RequestInv, OneAccount
<1>2. QED
    BY <1>1, AuthInvariant, PTL

\* A token nobody has presented is valid, whatever becomes of the tokens
\* before and beside it (auth/service.py, refresh and logout).
THEOREM UnusedTokensStayValid == AuthSpec => []UnusedTokensWork
<1>1. AuthInv => UnusedTokensWork
    BY DEF AuthInv, RevokedWasUsed, RequestInv, UnusedTokensWork
<1>2. QED
    BY <1>1, AuthInvariant, PTL

\* A request that came too late is refused, whatever overlaps it
\* (auth/service.py: refresh, authenticate, register).
THEOREM LateRequestsAreRefused == AuthSpec => []LateRequestsFail
<1>1. AuthInv => LateRequestsFail
    BY DEF AuthInv, RequestInv, LateInv, LateRequestsFail
<1>2. QED
    BY <1>1, AuthInvariant, PTL

-----------------------------------------------------------------------------
(* What becomes of the tokens that were presented *)

\* A refresh or a logout that was answered has spent the token it presented.
AnsweredTokensAreSpent ==
    \A q \in Requests :
       Kind[q] \in {"refresh", "logout"} /\ request[q].pc = "done"
         => request[q].token \in revoked

\* A token that was answered is of the account that logged in: however often it
\* is rotated, it stays with the account of the token it replaces.
TokensKeepTheirAccount ==
    \A t \in Requests : Issued(t) =>
       /\ OwnerOf(t) \in accounts
       /\ Kind[t] = "login"   => AddressOf[OwnerOf(t)] = AddressOf[t]
       /\ Kind[t] = "refresh" => OwnerOf(t) = OwnerOf(request[t].token)

\* The same of a request under way: what it has done to its token, whose it is.
SpentInv(q) ==
    /\ \/ Kind[q] = "refresh" /\ request[q].pc \in {"issuing", "done"}
       \/ Kind[q] = "logout" /\ request[q].pc = "done"
       => request[q].token \in revoked
    /\ Kind[q] = "refresh" /\ request[q].pc \in {"revoking", "issuing", "done"}
         => request[q].user \in accounts /\ request[q].user = OwnerOf(request[q].token)
    /\ Kind[q] = "login" /\ request[q].pc \in {"verifying", "issuing", "done"}
         => request[q].user \in With(AddressOf[q])

TokenInv == AuthInv /\ \A q \in Requests : SpentInv(q)

\* A token that is presented stays what it was.
LEMMA PresentedStays ==
    ASSUME AuthInv, NEW q \in Requests, Frame(q), NEW p \in Requests,
           Kind[p] \in {"refresh", "logout", "access"}, request[p].pc # "idle"
    PROVE  /\ request[p].token \in Requests \intersect stored
           /\ request'[request[p].token] = request[request[p].token]
BY IssuedStays DEF AuthInv, RequestInv

LEMMA OthersSpend ==
    ASSUME TokenInv, NEW q \in Requests, TablesGrow, Frame(q), NEW p \in Requests \ {q}
    PROVE  SpentInv(p)'
<1>1. SpentInv(p) /\ p \in Requests /\ request'[p] = request[p] /\ AuthInv
    BY DEF TokenInv, Frame
<1>2. Kind[p] = "refresh" /\ request[p].pc # "idle"
        => request'[request[p].token] = request[request[p].token]
    BY <1>1, PresentedStays
<1>3. QED
    BY <1>1, <1>2 DEF SpentInv, OwnerOf, With, TablesGrow

LEMMA MoverSpends ==
    ASSUME TokenInv, NEW q \in Requests, Moves(q), TablesGrow, Frame(q)
    PROVE  SpentInv(q)'
<1>i. /\ SpentInv(q) /\ RequestInv(q) /\ AuthInv
      /\ request \in [Requests -> RequestState] /\ request[q] \in RequestState
    BY DEF TokenInv, AuthInv, AuthTypeOK
<1> DEFINE t == request[q].token
<1>p. Kind[q] = "refresh" \/ Kind[q] = "logout" \/ Kind[q] = "access"
        => request[q].pc = "idle"
           \/ (t \in Requests \intersect stored /\ request'[t] = request[t])
    BY <1>i, PresentedStays
<1> USE DEF At, Go, RequestState
<1>1. CASE Arrive(q)
  <2>1. request'[q].pc = "arrived"
      BY <1>1, <1>i DEF Arrive
  <2>2. QED
      BY <2>1 DEF SpentInv
<1>2. CASE CheckAddress(q) \/ AddUser(q) \/ CheckAccess(q)
  <2>1. Kind[q] \in {"register", "access"}
      BY <1>2 DEF CheckAddress, AddUser, CheckAccess
  <2>2. QED
      BY <2>1 DEF SpentInv
<1>3. CASE FindUser(q)
  <2>1. Kind[q] = "login" /\ UNCHANGED accounts
      BY <1>3 DEF FindUser, accountVars
  <2>2. request'[q].pc = "refused" \/ request'[q].user \in With(AddressOf[q])
      BY <1>3, <1>i DEF FindUser
  <2>3. QED
      BY <2>1, <2>2 DEF SpentInv, With
<1>4. CASE VerifyPassword(q)
  <2>1. /\ Kind[q] = "login" /\ request[q].pc = "verifying" /\ UNCHANGED accounts
        /\ request'[q].user = request[q].user
      BY <1>4, <1>i DEF VerifyPassword, accountVars
  <2>2. QED
      BY <2>1, <1>i DEF SpentInv, With
<1>5. CASE FindToken(q)
  <2>1. Kind[q] = "refresh" /\ request'[q].pc \in {"loading", "refused"}
      BY <1>5, <1>i DEF FindToken
  <2>2. QED
      BY <2>1 DEF SpentInv
<1>6. CASE LoadUser(q)
  <2>1. /\ Kind[q] = "refresh" /\ request[q].pc = "loading"
        /\ request'[q].pc \in {"revoking", "refused"}
        /\ request'[q].user = OwnerOf(t) /\ request'[q].token = t
        /\ request'[q].pc = "revoking" => OwnerOf(t) \in accounts'
      BY <1>6, <1>i DEF LoadUser, accountVars
  <2>2. OwnerOf(t) = request'[t].user
      BY <2>1, <1>p DEF OwnerOf
  <2>3. QED
      BY <2>1, <2>2 DEF SpentInv, OwnerOf
<1>7. CASE Revoke(q)
  <2>1. /\ \/ Kind[q] = "refresh" /\ request[q].pc = "revoking" /\ request'[q].pc = "issuing"
           \/ Kind[q] = "refresh" /\ request'[q].pc = "failed"
           \/ Kind[q] = "logout" /\ request[q].pc = "arrived"
        /\ request[q].pc # "idle"
        /\ request'[q].user = request[q].user /\ request'[q].token = t
        /\ UNCHANGED accounts
      BY <1>7, <1>i DEF Revoke, AfterCommit, accountVars
  <2>2. t \in stored /\ request'[t] = request[t]
      BY <2>1, <1>p
  <2>3. t \in revoked'
      BY <1>7, <2>2 DEF Revoke, Revokes
  <2>4. QED
      BY <1>i, <2>1, <2>2, <2>3 DEF SpentInv, OwnerOf
<1>8. CASE IssueTokens(q)
  <2>1. /\ request[q].pc = "issuing" /\ request'[q].pc \in {"done", "failed"}
        /\ request'[q].user = request[q].user /\ request'[q].token = t
        /\ UNCHANGED <<accounts, revoked>>
      BY <1>8, <1>i DEF IssueTokens, AfterCommit, accountVars
  <2>2. Kind[q] \in {"login", "refresh"}
      BY <2>1, <1>i DEF RequestInv
  <2>3. Kind[q] = "refresh" => request'[t] = request[t]
      BY <2>1, <1>p
  <2>4. QED
      BY <1>i, <2>1, <2>2, <2>3 DEF SpentInv, OwnerOf, With
<1>9. CASE Abort(q)
  <2>1. request'[q].pc = "failed"
      BY <1>9, <1>i DEF Abort
  <2>2. QED
      BY <2>1 DEF SpentInv
<1>10. QED
    BY <1>1, <1>2, <1>3, <1>4, <1>5, <1>6, <1>7, <1>8, <1>9 DEF Moves

\* The invariant over the tokens, in every reachable state.
THEOREM TokenInvariant == AuthSpec => []TokenInv
<1>1. AuthInit => TokenInv
  <2>1. AuthInit => AuthInv
      BY DEF AuthInit, AuthInv, AuthTypeOK, OnePerAddress, RevokedWasUsed, RequestInv,
             Issued, RequestState
  <2>2. QED
      BY <2>1 DEF AuthInit, TokenInv, SpentInv
<1>2. TokenInv /\ [AuthNext]_authVars => TokenInv'
  <2> SUFFICES ASSUME TokenInv, [AuthNext]_authVars PROVE TokenInv'
      OBVIOUS
  <2>1. ASSUME NEW q \in Requests, Moves(q) PROVE TokenInv'
    <3>1. AuthInv'
        BY <2>1, MoveKeepsInv DEF TokenInv
    <3>2. HasToken(q) /\ AuthTypeOK
        BY DEF TokenInv, AuthInv, RequestInv, HasToken
    <3>3. Frame(q)
        BY <2>1, <3>2, MoveRequest
    <3>4. TablesGrow
        BY <2>1, <3>2, MoveTables DEF AuthTypeOK, TableTypes
    <3>5. \A p \in Requests : SpentInv(p)'
        BY <2>1, <3>3, <3>4, OthersSpend, MoverSpends
    <3>6. QED
        BY <3>1, <3>5 DEF TokenInv
  <2>2. ASSUME NEW t \in Requests, Expire(t) \/ UpdateUser(t) PROVE TokenInv'
    <3>1. AuthInv'
        BY <2>2, TimeKeepsInv DEF TokenInv
    <3>2. UNCHANGED <<accounts, revoked, request>>
        BY <2>2 DEF Expire, UpdateUser, accountVars, tokenVars
    <3>3. QED
        BY <3>1, <3>2 DEF TokenInv, SpentInv, OwnerOf, With
  <2>3. CASE UNCHANGED authVars
    <3>1. UNCHANGED <<accounts, revoked, request>> /\ AuthInv'
        BY <2>3 DEF authVars, accountVars, tokenVars, TokenInv, AuthInv, AuthTypeOK,
                    OnePerAddress, RevokedWasUsed, Presented, RequestInv, LateInv, Issued,
                    Impossible, With, OwnerOf
    <3>2. QED
        BY <3>1 DEF TokenInv, SpentInv, OwnerOf, With
  <2>4. QED
      BY <2>1, <2>2, <2>3 DEF AuthNext, Moves
<1>3. QED
    BY <1>1, <1>2, PTL DEF AuthSpec

\* A refresh or a logout that was answered has revoked its token for good; with
\* LateRequestsFail: no refresh that arrives after the answer succeeds with it
\* (auth/service.py, refresh and logout).
THEOREM RotationSpendsTheToken == AuthSpec => []AnsweredTokensAreSpent
<1>1. TokenInv => AnsweredTokensAreSpent
    BY DEF TokenInv, SpentInv, AnsweredTokensAreSpent
<1>2. QED
    BY <1>1, TokenInvariant, PTL

\* Rotation never moves a token to another account (auth/service.py, login,
\* refresh and issue_tokens).
THEOREM TokensStayWithTheirAccount == AuthSpec => []TokensKeepTheirAccount
<1>1. TokenInv => TokensKeepTheirAccount
    BY DEF TokenInv, AuthInv, RequestInv, SpentInv, Issued, OwnerOf, With,
           TokensKeepTheirAccount
<1>2. QED
    BY <1>1, TokenInvariant, PTL
=============================================================================
