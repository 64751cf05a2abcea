\* Two tabs answering and forwarding one message, up to three submits.
CONSTANTS
    Servers = {s1}
    MaxUid = 1
    Messages = {m1}
    Undelivered = Undelivered
    Expunged = Expunged
    Tabs = {t1, t2}
    NoServer = NoServer
    NoAccount = NoAccount
    NoMessage = NoMessage
    Identified = {m1}
    MaxSubmits = 3
SPECIFICATION Spec
INVARIANT SentPageHolds
PROPERTY SentReplySettles
