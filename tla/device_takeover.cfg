SPECIFICATION Spec
CONSTANTS
    Signups = {s1, s2}
    Logins = {}
    Emails = {e1, e2}
    Passwords = {pw1}
    NoAccount = NoAccount
    Registrations = {r1, r2}
    Devices = {d1}
    Owners = {s1, s2}
    Unregistered = Unregistered
\* Once every request is answered or lost nothing is left to do.
CHECK_DEADLOCK FALSE
INVARIANTS
    RegisteredOnce
