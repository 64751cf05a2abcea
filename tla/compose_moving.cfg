\* One tab, an account that moves between two IMAP servers, mailboxes of two UIDs.
CONSTANTS
    Servers = {s1, s2}
    MaxUid = 2
    Messages = {m1, m2}
    Undelivered = Undelivered
    Expunged = Expunged
    Tabs = {t1}
    NoServer = NoServer
    NoAccount = NoAccount
    NoMessage = NoMessage
    Identified = {m1}
    MaxSubmits = 2
SYMMETRY Interchangeable
SPECIFICATION Spec
INVARIANTS TypeOK FlagsTellWhatWasSent RepliesToWhatItQuotes SentPageHolds
