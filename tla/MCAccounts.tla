----------------------------- MODULE MCAccounts -----------------------------
(* A small instance of Accounts for TLC: one address and the requests about it. *)
EXTENDS Accounts, TLC

CONSTANTS Registers, Logins, Refreshes, Logouts, Accesses

MCRequests == Registers \union Logins \union Refreshes \union Logouts \union Accesses

MCKind == [q \in MCRequests |->
    CASE q \in Registers -> "register"
      [] q \in Logins    -> "login"
      [] q \in Refreshes -> "refresh"
      [] q \in Logouts   -> "logout"
      [] q \in Accesses  -> "access"]

MCAddressOf == [q \in MCRequests |-> "address"]

\* Requests of one kind are interchangeable.
MCSymmetry == Permutations(Registers) \union Permutations(Refreshes)
=============================================================================
