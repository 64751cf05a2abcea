\* Two browsers of one subject, one sign-in at a time.
CONSTANTS
    Browsers = {b1, b2}
    Subjects = {u1}
    Attempts = {a1}
    Ids = {i1, i2}
    None = None
    MaxTime = 2
    SsoEnds = TRUE
SYMMETRY Interchangeable
SPECIFICATION Spec
INVARIANT SsoAloneDoesNotSignIn
