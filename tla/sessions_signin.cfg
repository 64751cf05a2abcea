\* Two tabs of one browser; the provider ends SSO sessions.
CONSTANTS
    Browsers = {b1}
    Subjects = {u1}
    Attempts = {a1, a2}
    Ids = {i1, i2}
    None = None
    MaxTime = 2
    SsoEnds = TRUE
SPECIFICATION Spec
INVARIANTS TypeOK NextSignInIsFresh
PROPERTY SignInSucceeds
