\* One tab, up to the first page that misreports a reply that was sent.
CONSTANTS
    Servers = {s1}
    MaxUid = 1
    Messages = {m1}
    Undelivered = Undelivered
    Expunged = Expunged
    Tabs = {t1}
    NoServer = NoServer
    NoAccount = NoAccount
    NoMessage = NoMessage
    Identified = {m1}
    MaxSubmits = 1
SPECIFICATION Spec
INVARIANT SentReplyIsAnswered
