\* Two requests at a time on the accounts of two users; the key file may be replaced
\* by any other while the server runs.
CONSTANTS
    v1 = v1
    v2 = v2
    k1 = k1
    k2 = k2
    Users = {u1, u2}
    Emails = {e1}
    Ids = {a1, a2}
    Requests = {r1, r2}
    Configs = {c1}
    Passwords = {pw1}
    Versions = {v1}
    KEKs = {k1, k2}
    KEKOf <- OneVersion
    DEKs = {d1, d2, d3}
    HotSwap = TRUE
    NoAccount = NoAccount
    NoRow = NoRow
    Blank = Blank
    NoKey = NoKey
    Fresh = Fresh
    None = None
    Corrupt = Corrupt
SYMMETRY Interchangeable
SPECIFICATION Spec
INVARIANTS TypeOK EnvelopeIntact OwnDEK UniqueEmail NoOrphanSettings
