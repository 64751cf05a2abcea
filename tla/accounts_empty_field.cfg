\* Two saves of the same settings at a time, one with the password field left empty.
CONSTANTS
    v1 = v1
    v2 = v2
    k1 = k1
    k2 = k2
    Users = {u1}
    Emails = {e1}
    Ids = {a1}
    Requests = {r1, r2}
    Configs = {c1}
    Passwords = {pw1, pw2}
    Versions = {v1}
    KEKs = {k1, k2}
    KEKOf <- OneVersion
    DEKs = {d1, d2}
    HotSwap = FALSE
    NoAccount = NoAccount
    NoRow = NoRow
    Blank = Blank
    NoKey = NoKey
    Fresh = Fresh
    None = None
    Corrupt = Corrupt
SPECIFICATION Spec
PROPERTY EmptyFieldKeepsPassword
