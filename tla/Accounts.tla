------------------------------ MODULE Accounts ------------------------------
(***************************************************************************)
(* Accounts and refresh tokens: AuthService over UserRepository, as        *)
(* requests that meet in the tables users and refresh_tokens.  A step is   *)
(* what happens between two awaits on the database; every write of the     *)
(* repository commits by itself.                                           *)
(*                                                                         *)
(* A row is named by the request that inserts it: an account by its        *)
(* registration, a refresh token (a fresh jti each) by the login or the    *)
(* refresh that issues it.  The access token issued with it has no row.    *)
(* Whether a client receives an answer shows in whether a later request    *)
(* presents the token; it may present it twice, at the same time or when   *)
(* an answer was lost.  The reply of a commit may be lost too: the row is  *)
(* written and the client gets an error.                                   *)
(***************************************************************************)
EXTENDS FiniteSets

CONSTANTS
    Requests,   \* the requests to /auth, and those that bring an access token
    Kind,       \* Kind[q]: the route of request q
    Addresses,  \* e-mail addresses
    AddressOf,  \* AddressOf[q]: the address of a registration or a login
    Nobody      \* no account, no token

ASSUME AccountAssumption ==
    /\ Kind \in [Requests -> {"register", "login", "refresh", "logout", "access"}]
    /\ AddressOf \in [Requests -> Addresses]
    /\ Nobody \notin Requests

VARIABLES
    accounts,   \* the rows of users
    inactive,   \* those with is_active false
    deleted,    \* those with deleted_at set
    stored,     \* the rows of refresh_tokens
    revoked,    \* those with revoked_at set
    expired,    \* the refresh tokens past their time
    request     \* request[q]: its next step and what it has read

accountVars == <<accounts, inactive, deleted>>
tokenVars   == <<stored, revoked, expired>>
authVars    == <<accountVars, tokenVars, request>>

Waits    == {"arrived", "adding", "verifying", "loading", "revoking", "issuing"}
Answered == {"done", "refused", "failed"}

\* token: the one presented; user: the account read; active: its is_active as
\* read; late: on arrival it was already impossible.
RequestState ==
    [pc : {"idle"} \union Waits \union Answered,
     token : Requests \union {Nobody}, user : Requests \union {Nobody},
     active : BOOLEAN, late : BOOLEAN]

AuthTypeOK ==
    /\ accounts \subseteq Requests
    /\ inactive \subseteq accounts
    /\ deleted \subseteq accounts
    /\ stored \subseteq Requests
    /\ revoked \subseteq stored
    /\ expired \subseteq stored
    /\ request \in [Requests -> RequestState]

AuthInit ==
    /\ accounts = {} /\ inactive = {} /\ deleted = {}
    /\ stored = {} /\ revoked = {} /\ expired = {}
    /\ request = [q \in Requests |-> [pc |-> "idle", token |-> Nobody, user |-> Nobody,
                                      active |-> FALSE, late |-> FALSE]]

-----------------------------------------------------------------------------
(* What the queries find *)

With(address) == {a \in accounts : AddressOf[a] = address}

OwnerOf(t) == request[t].user

Issued(t) == Kind[t] \in {"login", "refresh"} /\ request[t].pc = "done"

\* get_active_refresh_token
UnexpiredTokens == stored \ expired
ActiveTokens    == stored \ (revoked \union expired)

\* What stands against a request when it arrives with token t; nothing of it
\* is ever taken back.
Impossible(q, t) ==
    \/ Kind[q] = "register" /\ With(AddressOf[q]) # {}
    \/ Kind[q] = "login"    /\ With(AddressOf[q]) \intersect inactive # {}
    \/ Kind[q] = "refresh"  /\ (t \in revoked \union expired \/ OwnerOf(t) \in inactive)
    \/ Kind[q] = "access"   /\ OwnerOf(t) \in inactive \union deleted

-----------------------------------------------------------------------------
(* Requests *)

At(q, kind, pc) == Kind[q] = kind /\ request[q].pc = pc
Go(q, pc)       == request' = [request EXCEPT ![q].pc = pc]

\* What follows a commit, whose reply may be lost.
AfterCommit(q, pc) == \E next \in {pc, "failed"} : Go(q, next)

Arrive(q) ==
    /\ request[q].pc = "idle"
    /\ \E t \in Requests \union {Nobody} :
         /\ IF Kind[q] \in {"register", "login"} THEN t = Nobody
                                                 ELSE t \in Requests /\ Issued(t)
         /\ request' = [request EXCEPT ![q] =
              [@ EXCEPT !.pc = "arrived", !.token = t, !.late = Impossible(q, t)]]
    /\ UNCHANGED <<accountVars, tokenVars>>

\* register: the check of the address; the password is hashed in a thread.
CheckAddress(q) ==
    /\ At(q, "register", "arrived")
    /\ Go(q, IF With(AddressOf[q]) = {} THEN "adding" ELSE "refused")
    /\ UNCHANGED <<accountVars, tokenVars>>

\* ix_users_email is unique.
AddressUnindexed(q) == TRUE
AddressFree(q)      == With(AddressOf[q]) = {}

AddUser(q) ==
    /\ At(q, "register", "adding")
    /\ \/ AddressFree(q) /\ accounts' = accounts \union {q} /\ AfterCommit(q, "done")
       \/ ~AddressFree(q) /\ Go(q, "failed") /\ UNCHANGED accounts
    /\ UNCHANGED <<inactive, deleted, tokenVars>>

\* login: the account, as it is before the password is verified in a thread.
FindUser(q) ==
    /\ At(q, "login", "arrived")
    /\ \/ With(AddressOf[q]) = {} /\ Go(q, "refused")
       \/ \E a \in With(AddressOf[q]) :
            request' = [request EXCEPT ![q] =
              [@ EXCEPT !.pc = "verifying", !.user = a, !.active = a \notin inactive]]
    /\ UNCHANGED <<accountVars, tokenVars>>

VerifyPassword(q) ==
    /\ At(q, "login", "verifying")
    /\ \E valid \in BOOLEAN :
          Go(q, IF valid /\ request[q].active THEN "issuing" ELSE "refused")
    /\ UNCHANGED <<accountVars, tokenVars>>

\* refresh: decode_token and the row of the token.
FindToken(q) ==
    /\ At(q, "refresh", "arrived")
    /\ Go(q, IF request[q].token \in ActiveTokens THEN "loading" ELSE "refused")
    /\ UNCHANGED <<accountVars, tokenVars>>

LoadUser(q) ==
    /\ At(q, "refresh", "loading")
    /\ LET a == OwnerOf(request[q].token) IN
       request' = [request EXCEPT ![q] =
         [@ EXCEPT !.pc = IF a \in accounts \ inactive THEN "revoking" ELSE "refused",
                   !.user = a]]
    /\ UNCHANGED <<accountVars, tokenVars>>

\* The tokens whose row the UPDATE of revoke_refresh_token finds.
RevokesOfUser(q) == {t \in stored : OwnerOf(t) = OwnerOf(request[q].token)}
Revokes(q)       == {request[q].token} \intersect stored

\* refresh and logout.
Revoke(q) ==
    /\ At(q, "refresh", "revoking") \/ At(q, "logout", "arrived")
    /\ revoked' = revoked \union Revokes(q)
    /\ AfterCommit(q, IF Kind[q] = "refresh" THEN "issuing" ELSE "done")
    /\ UNCHANGED <<accountVars, stored, expired>>

\* store_refresh_token, under the hash of a token nobody else has.
StoreToken(q) == stored' = stored \union {q}

\* issue_tokens: the row of the new refresh token is committed, then both are answered.
IssueTokens(q) ==
    /\ request[q].pc = "issuing"
    /\ StoreToken(q)
    /\ AfterCommit(q, "done")
    /\ UNCHANGED <<accountVars, revoked, expired>>

\* get_user_from_access_token, before any other route does its work.
CheckAccess(q) ==
    /\ At(q, "access", "arrived")
    /\ LET a == OwnerOf(request[q].token) IN
       \/ a \in accounts \ (inactive \union deleted) /\ Go(q, "done")
       \/ Go(q, "refused")        \* or the access token has expired
    /\ UNCHANGED <<accountVars, tokenVars>>

\* The handler dies or the database refuses; what it committed before stays.
Abort(q) ==
    /\ request[q].pc \in Waits
    /\ Go(q, "failed")
    /\ UNCHANGED <<accountVars, tokenVars>>

-----------------------------------------------------------------------------
(* Time and operators *)

Expire(t) ==
    /\ t \in stored \ expired
    /\ expired' = expired \union {t}
    /\ UNCHANGED <<accountVars, stored, revoked, request>>

UpdateMissing(a) ==
    /\ inactive' = inactive \union {a}
    /\ UNCHANGED <<accounts, deleted, tokenVars, request>>

\* update_user: no route calls it.
UpdateUser(a) ==
    /\ a \in accounts
    /\ \/ inactive' = inactive \union {a} /\ UNCHANGED deleted
       \/ deleted' = deleted \union {a} /\ UNCHANGED inactive
    /\ UNCHANGED <<accounts, tokenVars, request>>

AuthNext ==
    \/ \E q \in Requests :
          \/ Arrive(q) \/ CheckAddress(q) \/ AddUser(q) \/ FindUser(q) \/ VerifyPassword(q)
          \/ FindToken(q) \/ LoadUser(q) \/ Revoke(q) \/ IssueTokens(q) \/ CheckAccess(q)
          \/ Abort(q)
    \/ \E t \in Requests : Expire(t) \/ UpdateUser(t)

AuthSpec == AuthInit /\ [][AuthNext]_authVars

-----------------------------------------------------------------------------
(* What clients rely on *)

\* Two registrations of an address that both found it free leave one account:
\* that of the one that was answered, if one was, and never that of one that was
\* refused (auth/service.py, register).
OneAccount ==
    /\ \A a, b \in accounts : AddressOf[a] = AddressOf[b] => a = b
    /\ \A q \in Requests : Kind[q] = "register" /\ request[q].pc = "done" => q \in accounts
    /\ \A q \in accounts : Kind[q] = "register" /\ request[q].pc \in {"done", "failed"}

Presented(t) ==
    \E q \in Requests : Kind[q] \in {"refresh", "logout"} /\ request[q].token = t

\* A token that was answered is stored, and stays valid until it expires or is
\* presented itself: nothing that happens to the tokens before it or to those
\* of other devices, no late retry and no logout, takes it away (refresh).
UnusedTokensWork ==
    \A t \in Requests : Issued(t) => t \in stored /\ (t \in revoked => Presented(t))

\* A request that arrives when its token is revoked or expired, its account
\* deactivated or its address taken is never answered with success, whatever
\* overlaps it (refresh, authenticate, register).
LateRequestsFail ==
    \A q \in Requests : request[q].late => request[q].pc # "done"
=============================================================================
