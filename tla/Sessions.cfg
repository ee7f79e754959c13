\* One browser with two requests under way, one SFTP connection, two names.
CONSTANTS
    Names = {admin, a}
    Ids = {i0, i1}
    Browsers = {b1}
    Connections = {s1}
    Requests = {r1, r2}
    Admin = admin
    AdminId = i0
    None = None
    MaxSpent = 8
SPECIFICATION Spec
SYMMETRY Interchangeable
INVARIANTS TypeOK NamesAreCurrent AdminFlagIsEarned ImpersonationIsUndone PasswordIsTheOwners
\* MaxSpent ends a run.
CHECK_DEADLOCK FALSE
