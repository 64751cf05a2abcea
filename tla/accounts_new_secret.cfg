\* A restart with the next version and key, then a new password for old settings.
CONSTANTS
    v1 = v1
    v2 = v2
    k1 = k1
    k2 = k2
    Users = {u1}
    Emails = {e1}
    Ids = {a1}
    Requests = {r1}
    Configs = {c1}
    Passwords = {pw1}
    Versions = {v1, v2}
    KEKs = {k1, k2}
    KEKOf <- KeyPerVersion
    DEKs = {d1, d2}
    HotSwap = FALSE
    NoAccount = NoAccount
    NoRow = NoRow
    Blank = Blank
    NoKey = NoKey
    Fresh = Fresh
    None = None
    Corrupt = Corrupt
SPECIFICATION Spec
INVARIANT NewSecretUnderConfiguredVersion
