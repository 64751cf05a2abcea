\* One browser whose SSO session lasts.
CONSTANTS
    Browsers = {b1}
    Subjects = {u1}
    Attempts = {a1, a2}
    Ids = {i1, i2}
    None = None
    MaxTime = 2
    SsoEnds = FALSE
SPECIFICATION Spec
PROPERTY SignInSucceeds
