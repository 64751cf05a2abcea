------------------------------- MODULE Compose -------------------------------
(***************************************************************************)
(* Writing a message: the new, reply and forward forms and handleSendMessage*)
(* (internal/http/smtp_send.go, smtp_reply.go, smtp_forward.go), over one  *)
(* mail account, its IMAP server and an SMTP server.                       *)
(*                                                                         *)
(* A tab shows a form, submits it and shows the page that comes back; its  *)
(* Back button returns to the form.  The form carries a mode, a mailbox    *)
(* and a UID: the handler reads the account again, loads the original      *)
(* again by that UID, sends, and sets a flag over another connection, with *)
(* other tabs, edits of the account and mail clients between the steps.    *)
(***************************************************************************)
EXTENDS MailServer

CONSTANTS
    Tabs,
    NoServer,       \* the account has no IMAP settings
    NoAccount,      \* the account is deleted
    NoMessage,      \* a new message has no original
    Identified,     \* messages that have a Message-ID
    MaxSubmits      \* bound: forms submitted

VARIABLES
    account,        \* the Detail that store.Get returns, or NoAccount
    accepted,       \* <<m, flag>>: an accepted message answers (forwards) m (history)
    submits,        \* forms submitted so far (bounds the model)
    tab             \* tab -> what it shows, or the step its handler is about to take

vars == <<mailVars, account, accepted, submits, tab>>

ComposeAssumption ==
    /\ NoServer \notin Servers /\ NoMessage \notin Messages
    /\ Identified \subseteq Messages
    /\ MaxSubmits \in Nat
ASSUME ComposeAssumption

Details == [imap : Servers \cup {NoServer}, smtp : BOOLEAN]

\* "reply" is reply-all too: they differ in the recipients the form proposes.
requiresOriginal == {"reply", "forward"}

\* A mutant: a forward is marked with another keyword.
FlagOfForwardFlagged(mode) == IF mode = "forward" THEN "\\Flagged" ELSE "\\Answered"

\* The keyword a sent message leaves on its original.
FlagOf(mode) == IF mode = "forward" THEN "$Forwarded" ELSE "\\Answered"

\* What the browser posts; about and from are not posted (history): the message that
\* the form quotes and the server it was read from.
Forms ==
    [mode : {"new"}] \cup
    [mode : requiresOriginal, uid : Uids, about : Messages, from : Servers]

ClosedTab == [pc : {"closed"}]
OpeningTab == [pc : {"opening"}, mode : requiresOriginal, uid : Uids, server : Servers]
FormTab == [pc : {"form"}, form : Forms]
LoadTab == [pc : {"load"}, form : Forms, server : Servers \cup {NoServer}]
SendTab == [pc : {"send", "taken", "flag", "flagged"}, form : Forms, server : Servers \cup {NoServer},
            original : Messages \cup {NoMessage}]
SentTab == [pc : {"sent", "warned"}, form : Forms, server : Servers \cup {NoServer},
            original : Messages \cup {NoMessage}]
ErrorTab == [pc : {"failed", "lost"}, form : Forms, sent : BOOLEAN]

Closed == [pc |-> "closed"]

(* The mail servers, the account row, and what each tab shows or its       *)
(* handler holds.                                                          *)
TypeOK ==
    /\ MailServerTypeOK
    /\ account \in Details \cup {NoAccount}
    /\ accepted \subseteq Messages \X Flags
    /\ submits \in 0..MaxSubmits
    /\ tab \in [Tabs -> ClosedTab \cup OpeningTab \cup FormTab \cup LoadTab
                          \cup SendTab \cup SentTab \cup ErrorTab]

Init ==
    /\ MailServerInit
    /\ account \in Details
    /\ accepted = {}
    /\ submits = 0
    /\ tab = [t \in Tabs |-> Closed]

Show(t, q) == tab' = [tab EXCEPT ![t] = q]

\* renderSMTPError, renderIMAPError, 404 or 500 after a submit.
Fail(t, sent) == Show(t, [pc |-> "failed", form |-> tab[t].form, sent |-> sent])
-----------------------------------------------------------------------------
(* The forms.                                                              *)

handleNewMessage(t) ==
    /\ tab[t] = Closed
    /\ account # NoAccount /\ account.smtp
    /\ Show(t, [pc |-> "form", form |-> [mode |-> "new"]])
    /\ UNCHANGED <<mailVars, account, accepted, submits>>

\* loadReplyContext and loadForwardContext read the account ...
ReadForForm(t, mode, uid) ==
    /\ tab[t] = Closed
    /\ account # NoAccount /\ account.imap # NoServer /\ account.smtp
    /\ Show(t, [pc |-> "opening", mode |-> mode, uid |-> uid, server |-> account.imap])
    /\ UNCHANGED <<mailVars, account, accepted, submits>>

\* ... and then the original, from the server in what they read.
ShowForm(t) ==
    /\ tab[t].pc = "opening"
    /\ \E m \in GetMessage(tab[t].server, tab[t].uid) :
          Show(t, [pc |-> "form",
                   form |-> [mode |-> tab[t].mode, uid |-> tab[t].uid,
                             about |-> m, from |-> tab[t].server]])
    /\ UNCHANGED <<mailVars, account, accepted, submits>>

\* Any error of loadReplyContext or loadForwardContext: an error page, no form.
NoForm(t) ==
    /\ tab[t].pc = "opening"
    /\ Show(t, Closed)
    /\ UNCHANGED <<mailVars, account, accepted, submits>>
-----------------------------------------------------------------------------
(* handleSendMessage.                                                      *)

\* s.accounts.Get: everything after it uses this snapshot of the account.  It fails for
\* a form that does not parse, a failed query, no account (404) or no SMTP settings.
ReadAccount(t) ==
    /\ tab[t].pc = "form"
    /\ submits < MaxSubmits
    /\ submits' = submits + 1
    /\ \/ /\ account # NoAccount /\ account.smtp
          /\ Show(t, [pc |-> "load", form |-> tab[t].form, server |-> account.imap])
       \/ Fail(t, FALSE)
    /\ UNCHANGED <<mailVars, account, accepted>>

\* handleSendMessage refuses a reply to a message without a Message-ID.
Threadable(mode, m) == mode = "reply" => m \in Identified

loadComposeOriginal(t) ==
    LET q == tab[t]
        Send(m) == Show(t, [pc |-> "send", form |-> q.form, server |-> q.server,
                            original |-> m])
    IN  /\ q.pc = "load"
        /\ \/ q.form.mode = "new" /\ Send(NoMessage)
           \/ /\ q.form.mode # "new" /\ q.server # NoServer
              /\ \E m \in GetMessage(q.server, q.form.uid) :
                    IF Threadable(q.form.mode, m) THEN Send(m) ELSE Fail(t, FALSE)
        /\ UNCHANGED <<mailVars, account, accepted, submits>>

\* No IMAP settings, a key that does not open the envelope, a failed or an empty
\* FETCH, a message that does not parse: an error page before anything is sent.
LoadFails(t) ==
    /\ tab[t].pc = "load" /\ tab[t].form.mode # "new"
    /\ Fail(t, FALSE)
    /\ UNCHANGED <<mailVars, account, accepted, submits>>

\* The SMTP server takes responsibility for the message of a tab: 250 after the data.
Taken(q) == IF q.form.mode = "new" THEN {}
            ELSE {<<q.original, FlagOf(q.form.mode)>>}

\* The server answers 250 to the data; Send has yet to return.
Accept(t) ==
    /\ tab[t].pc = "send"
    /\ accepted' = accepted \cup Taken(tab[t])
    /\ Show(t, [tab[t] EXCEPT !.pc = "taken"])
    /\ UNCHANGED <<mailVars, account, submits>>

\* What follows a Send without error: a new message has no side effect to apply.
AfterSend(q) == [q EXCEPT !.pc = IF q.form.mode = "new" THEN "sent" ELSE "flag"]

\* mailsmtp.Send returns nil.
Sent(t) ==
    /\ tab[t].pc = "taken"
    /\ Show(t, AfterSend(tab[t]))
    /\ UNCHANGED <<mailVars, account, accepted, submits>>

\* The reply to the data is lost, or QUIT fails: Send returns that error.
SentWithError(t) ==
    /\ tab[t].pc = "taken"
    /\ Fail(t, TRUE)
    /\ UNCHANGED <<mailVars, account, accepted, submits>>

\* A mutant: the error of Send is logged and the handler goes on.
NotSentGoesOn(t) ==
    /\ tab[t].pc = "send"
    /\ Show(t, AfterSend(tab[t]))
    /\ UNCHANGED <<mailVars, account, accepted, submits>>

\* smtpSenderAccount fails, or mailsmtp.Send does before the data is accepted.
NotSent(t) ==
    /\ tab[t].pc = "send"
    /\ Fail(t, FALSE)
    /\ UNCHANGED <<mailVars, account, accepted, submits>>

\* A mutant: the switch of applyComposeSideEffect without case composeModeForward.
StoreFlagOfReply(t) ==
    /\ tab[t].pc = "flag"
    /\ IF tab[t].form.mode = "reply"
       THEN UidStore(tab[t].server, tab[t].form.uid, "\\Answered") ELSE UNCHANGED mailVars
    /\ Show(t, [tab[t] EXCEPT !.pc = "flagged"])
    /\ UNCHANGED <<account, accepted, submits>>

\* The server does the STORE of markMessageFlag.
StoreFlag(t) ==
    /\ tab[t].pc = "flag"
    /\ UidStore(tab[t].server, tab[t].form.uid, FlagOf(tab[t].form.mode))
    /\ Show(t, [tab[t] EXCEPT !.pc = "flagged"])
    /\ UNCHANGED <<account, accepted, submits>>

\* markMessageFlag returns nil.
Marked(t) ==
    /\ tab[t].pc = "flagged"
    /\ Show(t, [tab[t] EXCEPT !.pc = "sent"])
    /\ UNCHANGED <<mailVars, account, accepted, submits>>

\* A mutant: the error of MarkAnswered and MarkForwarded is only logged.
MarkFailsSilently(t) ==
    /\ tab[t].pc \in {"flag", "flagged"}
    /\ Show(t, [tab[t] EXCEPT !.pc = "sent"])
    /\ UNCHANGED <<mailVars, account, accepted, submits>>

\* No connection, or one that broke before or after the STORE was done: flagWarning.
MarkFails(t) ==
    /\ tab[t].pc \in {"flag", "flagged"}
    /\ Show(t, [tab[t] EXCEPT !.pc = "warned"])
    /\ UNCHANGED <<mailVars, account, accepted, submits>>

applyComposeSideEffect(t) == StoreFlag(t) \/ Marked(t) \/ MarkFails(t)

handleSendMessage(t) ==
    \/ loadComposeOriginal(t) \/ LoadFails(t)
    \/ Accept(t) \/ NotSent(t) \/ Sent(t) \/ SentWithError(t)
    \/ applyComposeSideEffect(t)
-----------------------------------------------------------------------------
(* What happens around the handler.                                        *)

Pages == {"sent", "warned", "failed", "lost"}

\* Back to the form of a page, to submit it again.
Back(t) ==
    /\ tab[t].pc \in Pages
    /\ Show(t, [pc |-> "form", form |-> tab[t].form])
    /\ UNCHANGED <<mailVars, account, accepted, submits>>

Leave(t) ==
    /\ tab[t].pc \in Pages \cup {"form"}
    /\ Show(t, Closed)
    /\ UNCHANGED <<mailVars, account, accepted, submits>>

\* The settings pages: SaveIMAP and DeleteIMAP, SaveSMTP and DeleteSMTP, Delete.
EditAccount ==
    /\ account # NoAccount
    /\ \/ \E s \in Servers \cup {NoServer} : account' = [account EXCEPT !.imap = s]
       \/ \E b \in BOOLEAN : account' = [account EXCEPT !.smtp = b]
       \/ account' = NoAccount
    /\ UNCHANGED <<mailVars, accepted, submits, tab>>

\* The process ends and starts again.  Data in flight is accepted before that or never.
Restart ==
    /\ tab' = [t \in Tabs |->
          CASE tab[t].pc = "opening" -> Closed
            [] tab[t].pc \in {"load", "send", "taken", "flag", "flagged"} ->
                 [pc |-> "lost", form |-> tab[t].form,
                  sent |-> tab[t].pc \in {"taken", "flag", "flagged"}]
            [] OTHER -> tab[t]]
    /\ UNCHANGED <<mailVars, account, accepted, submits>>

OtherClients ==
    /\ MailServerStep
    /\ UNCHANGED <<account, accepted, submits, tab>>

Next ==
    \/ \E t \in Tabs :
          \/ handleNewMessage(t)
          \/ \E mode \in requiresOriginal, uid \in Uids : ReadForForm(t, mode, uid)
          \/ ShowForm(t) \/ NoForm(t)
          \/ ReadAccount(t) \/ handleSendMessage(t)
          \/ Back(t) \/ Leave(t)
    \/ EditAccount \/ Restart \/ OtherClients

\* net/http runs a handler to its end, provided that the mail servers answer or drop
\* the connection: neither client sets a deadline once it is connected.
Fairness == \A t \in Tabs : WF_vars(handleSendMessage(t))

\* What can happen at all: the proofs, and the mail clients that implement it, need no
\* fairness.
SafetySpec == Init /\ [][Next]_vars

Spec == SafetySpec /\ Fairness
-----------------------------------------------------------------------------
InPlace(s, uid, m) == place[m] = <<s, uid>>

(* docs/imap.md: \Answered goes to the original of a reply that was        *)
(* accepted, $Forwarded to that of a forward.  The flag is set over a      *)
(* second connection by UID, so this needs the UIDs of the mailbox to be   *)
(* those of the load; it does not matter that the account was edited.      *)
FlagsTellWhatWasSent ==
    \A m \in Messages, s \in Servers \ renumbered, uid \in Uids :
        InPlace(s, uid, m) => {m} \X flags[m] \subseteq accepted

(* A page without a warning tells the truth about the original: it has the *)
(* flag, or somebody deleted it while the message was being sent.          *)
SentPageHolds ==
    \A t \in Tabs :
        LET q == tab[t]
        IN  q.pc = "sent" /\ q.form.mode # "new" /\ q.server \notin renumbered =>
                FlagOf(q.form.mode) \in flags[q.original]
                    \/ ~InPlace(q.server, q.form.uid, q.original)

(* In-Reply-To and References come from the message loaded at submit, the  *)
(* quoted text from the one loaded for the form: they are the same unless  *)
(* the account was moved to another server, or renumbered, in between.     *)
RepliesToWhatItQuotes ==
    \A t \in Tabs :
        LET q == tab[t]
        IN  /\ q.pc \in {"send", "taken", "flag", "flagged", "sent", "warned"}
            /\ q.form.mode # "new"
            /\ q.server = q.form.from /\ q.server \notin renumbered
            => q.original = q.form.about

(* docs/imap.md:15 and README.md:155-157: when a reply was sent, its       *)
(* original is answered, or at least the page says that it was sent.  A    *)
(* page that says "Could not send reply" leaves no sent reply behind that  *)
(* nobody flags.                                                           *)
SentReplyIsAnswered ==
    \A t \in Tabs :
        LET q == tab[t]
        IN  q.pc = "failed" /\ q.form.mode = "reply" /\ q.sent =>
                \/ "\\Answered" \in flags[q.form.about]
                \/ ~InPlace(q.form.from, q.form.uid, q.form.about)

(* A reply or forward that Send reported as sent ends with its original    *)
(* flagged, moved or gone, with a warning page, or with a restart, however *)
(* the account and the mailbox change meanwhile.                           *)
SentReplySettles ==
    \A t \in Tabs, m \in Messages, s \in Servers, uid \in Uids, mode \in requiresOriginal :
        LET q == tab[t]
        IN  /\ q.pc = "flag" /\ q.form.mode = mode
            /\ q.original = m /\ q.server = s /\ q.form.uid = uid
            ~> \/ tab[t].pc \in {"warned", "lost"}
               \/ FlagOf(mode) \in flags[m]
               \/ ~InPlace(s, uid, m)
=============================================================================
