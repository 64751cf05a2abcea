\* One tab and one mailbox of two messages, with one look and one submit.
CONSTANTS
    Servers = {s1}
    MaxUid = 2
    m1 = m1
    m2 = m2
    Messages = {m1, m2}
    Undelivered = Undelivered
    Expunged = Expunged
    ChannelCap = 1
    NoRow = NoRow
    Garbled = Garbled
    Mailboxes <- MCMailboxes
    Spellings = {"lower", "upper"}
    NoMessage = NoMessage
    NoServer = NoServer
    NoAccount = NoAccount
    Scenarios <- MCScenarios
    Self <- MCSelf
    Typed <- MCTyped
    Identified = {m1}
    Limits = {1, 2}
    MaxLooks = 1
    MaxSubmits = 1
SPECIFICATION Spec
INVARIANTS TypeOK AllRecipientsOrNone AnswersReachEveryone ListIsNewest OnlyRefusedLoginsLinger NoPasswordInClear
PROPERTIES NothingExpunged ImplementsCompose HandlerReturns
