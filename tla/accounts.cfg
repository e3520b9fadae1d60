\* One address: two registrations, a login, two refreshes, a logout and a request.
SPECIFICATION AuthSpec
CONSTANTS
    Registers = {g1, g2}
    Logins = {l1}
    Refreshes = {f1, f2}
    Logouts = {o1}
    Accesses = {k1}
    Requests <- MCRequests
    Kind <- MCKind
    AddressOf <- MCAddressOf
    Addresses = {"address"}
    Nobody = Nobody
SYMMETRY MCSymmetry
CHECK_DEADLOCK FALSE
INVARIANTS
    AuthTypeOK
    OneAccount
    UnusedTokensWork
    LateRequestsFail
