----------------------------- MODULE MailClients -----------------------------
(***************************************************************************)
(* One tab of one account with the protocols underneath: the mailbox and   *)
(* message pages, the forms and handleSendMessage call ListMessages,       *)
(* GetMessage, Send and markMessageFlag, which talk to an IMAP and an SMTP *)
(* server command by command.  Compose is the abstract specification: it   *)
(* takes each call as one or two steps.                                    *)
(***************************************************************************)
EXTENDS ImapClient, SmtpClient

CONSTANTS
    Scenarios,      \* [imap, smtp, header]: settings of the account, headers of messages
    Self,           \* the account's own address
    Typed,          \* To and Cc a user types where the form proposes nothing
    Identified,     \* messages that have a Message-ID
    Limits,         \* limits of ListMessages, mailboxMessageLimit in the code
    NoMessage,
    MaxLooks,       \* bound: mailboxes, messages and forms opened, before the first submit
    MaxSubmits      \* bound: forms submitted

VARIABLES
    setting,        \* the account's IMAP and SMTP settings: security, allow, local
    header,         \* message -> its address headers
    page,           \* what the tab shows, or what its handler is about
    looks, submits  \* bound the model

MailClientsAssumption ==
    /\ \A s \in Scenarios : s.header \in [Messages -> Headers]
    /\ Self \in Addresses
    /\ \A t \in Typed : t.to \in Lists /\ t.cc \in Lists
    /\ Limits \subseteq Nat \ {0}
    /\ Servers # {}
ASSUME MailClientsAssumption

vars == <<mailVars, imapVars, smtpVars, setting, header, page, looks, submits>>

server == CHOOSE s \in Servers : TRUE

Modes == {"new", "reply", "reply-all", "forward"}

NoPage == [pc |-> "closed"]

\* Handlers at work, and pages.
Working == {"list", "read", "opening", "load", "send", "flag"}
Resting == {"closed", "listed", "message", "missing", "error", "form",
            "sent", "warned", "failed", "lost"}

(* The mailbox, the two clients' records, and what the tab is doing.       *)
TypeOK ==
    /\ MailServerTypeOK
    /\ deleted \subseteq Messages
    /\ imap.at \in {"idle", "fetching", "return", "returned"} \cup ImapCommands
    /\ imap # NotCalled =>
          /\ imap.conn \in {"none", "notauth", "auth", "selected ro", "selected rw", "closed"}
          /\ imap.result \in {"", "ok", "missing", "error"}
          /\ Len(imap.chan) <= ChannelCap + 1
          /\ ToSet(imap.todo \o imap.chan \o imap.out) \subseteq Messages \cup {NoRow}
          /\ imap.op.name = "get" /\ imap.result = "ok" => Len(imap.out) = 1
    /\ smtp.at \in {"idle"} \cup SmtpCommands \cup SmtpReturned
    /\ page.pc \in Working \cup Resting
    /\ page.pc \in {"list", "read", "opening", "flag"} => imap # NotCalled
    /\ page.pc = "send" <=> smtp # Idle

Init ==
    /\ MailServerInit /\ ImapInit /\ SmtpInit
    /\ \E s \in Scenarios : setting = [imap |-> s.imap, smtp |-> s.smtp] /\ header = s.header
    /\ page = NoPage
    /\ looks = 0 /\ submits = 0

Goes(p) == page' = p
Look == submits = 0 /\ looks < MaxLooks /\ looks' = looks + 1
-----------------------------------------------------------------------------
(* The pages that read.                                                    *)

\* handleMailbox and handleMessage; account and password are there, see Compose and
\* MailAccounts.
handleMailbox ==
    /\ page = NoPage /\ Look
    /\ \E limit \in Limits : ListMessages(server, setting.imap, limit)
    /\ Goes([pc |-> "list"])
    /\ UNCHANGED <<mailVars, smtpVars, setting, header, submits>>

handleMessage ==
    /\ page = NoPage /\ Look
    /\ \E uid \in Uids : GetMessageCall(server, setting.imap, uid)
    /\ Goes([pc |-> "read"])
    /\ UNCHANGED <<mailVars, smtpVars, setting, header, submits>>

ShowList ==
    /\ page.pc = "list" /\ imap.at = "returned"
    /\ Goes(IF imap.result = "ok"
            THEN [pc |-> "listed", rows |-> imap.out, of |-> imap.view, limit |-> imap.op.limit]
            ELSE [pc |-> "error"])
    /\ ImapReset
    /\ UNCHANGED <<mailVars, smtpVars, setting, header, looks, submits>>

ShowMessage ==
    /\ page.pc = "read" /\ imap.at = "returned"
    /\ Goes([pc |-> CASE imap.result = "ok" -> "message" [] imap.result = "missing" -> "missing"
                      [] OTHER -> "error"])
    /\ ImapReset
    /\ UNCHANGED <<mailVars, smtpVars, setting, header, looks, submits>>
-----------------------------------------------------------------------------
(* The forms and handleSendMessage.                                        *)

handleNewMessage ==
    /\ page = NoPage
    /\ Goes([pc |-> "form", form |-> [mode |-> "new", to |-> <<>>, cc |-> <<>>]])
    /\ UNCHANGED <<mailVars, imapVars, smtpVars, setting, header, looks, submits>>

OpenForm ==
    /\ page = NoPage /\ Look
    /\ \E mode \in Modes \ {"new"}, uid \in Uids :
          /\ GetMessageCall(server, setting.imap, uid)
          /\ Goes([pc |-> "opening", mode |-> mode, uid |-> uid])
    /\ UNCHANGED <<mailVars, smtpVars, setting, header, submits>>

ShowForm ==
    /\ page.pc = "opening" /\ imap.at = "returned"
    /\ IF imap.result = "ok"
       THEN LET p == Proposed(page.mode, header[imap.out[1]], Self)
            IN  Goes([pc |-> "form", form |-> [mode |-> page.mode, uid |-> page.uid,
                        about |-> imap.out[1], to |-> p.to, cc |-> p.cc]])
       ELSE Goes(NoPage)
    /\ ImapReset
    /\ UNCHANGED <<mailVars, smtpVars, setting, header, looks, submits>>

\* The user leaves what the form proposes, or fills an empty To.
Filled(form) ==
    IF form.to # <<>> THEN {form}
    ELSE {[form EXCEPT !.to = t.to, !.cc = t.cc] : t \in Typed}

Message(form) == [to |-> form.to, cc |-> form.cc]

\* What is sent for a form with a loaded original.
SendFor(form, original) ==
    /\ Send(setting.smtp, Message(form), [form |-> form, original |-> original])
    /\ Goes([pc |-> "send", form |-> form, original |-> original])

\* handleSendMessage up to the call that loads the original; a new message has none.
Submit ==
    /\ page.pc = "form"
    /\ submits < MaxSubmits /\ submits' = submits + 1
    /\ \E form \in Filled(page.form) :
          /\ Goes([pc |-> "load", form |-> form])
          /\ IF form.mode = "new" THEN UNCHANGED imapVars
             ELSE GetMessageCall(server, setting.imap, form.uid)
    /\ UNCHANGED <<mailVars, smtpVars, setting, header, looks>>

Failed(form, sent) == [pc |-> "failed", form |-> form, sent |-> sent]

Threadable(mode, m) == mode \in {"reply", "reply-all"} => m \in Identified

NewLoaded ==
    /\ page.pc = "load" /\ page.form.mode = "new"
    /\ SendFor(page.form, NoMessage)
    /\ UNCHANGED <<mailVars, imapVars, setting, header, looks, submits>>

Loaded ==
    /\ page.pc = "load" /\ imap.at = "returned"
    /\ IF imap.result = "ok" /\ Threadable(page.form.mode, imap.out[1])
       THEN SendFor(page.form, imap.out[1])
       ELSE Goes(Failed(page.form, FALSE)) /\ UNCHANGED smtpVars
    /\ ImapReset
    /\ UNCHANGED <<mailVars, setting, header, looks, submits>>

Flag(mode) == IF mode = "forward" THEN "$Forwarded" ELSE "\\Answered"

SendReturned ==
    /\ page.pc = "send" /\ smtp.at \in SmtpReturned
    /\ \/ /\ smtp.at = "error"
          /\ Goes(Failed(page.form, smtp.taken)) /\ UNCHANGED imapVars
       \/ /\ smtp.at = "ok" /\ page.form.mode = "new"
          /\ Goes([page EXCEPT !.pc = "sent"]) /\ UNCHANGED imapVars
       \/ /\ smtp.at = "ok" /\ page.form.mode # "new"
          /\ Goes([page EXCEPT !.pc = "flag"])
          /\ markMessageFlag(server, setting.imap, page.form.uid, Flag(page.form.mode))
    /\ SmtpReset
    /\ UNCHANGED <<mailVars, setting, header, looks, submits>>

FlagReturned ==
    /\ page.pc = "flag" /\ imap.at = "returned"
    /\ Goes([page EXCEPT !.pc = IF imap.result = "ok" THEN "sent" ELSE "warned"])
    /\ ImapReset
    /\ UNCHANGED <<mailVars, smtpVars, setting, header, looks, submits>>
-----------------------------------------------------------------------------
(* Around the handler.                                                     *)

Leave ==
    /\ page.pc \in Resting \ {"closed"}
    /\ Goes(NoPage)
    /\ UNCHANGED <<mailVars, imapVars, smtpVars, setting, header, looks, submits>>

\* The process ends and starts again; its connections end with it.
Restart ==
    /\ page.pc \in Working
    /\ Goes(CASE page.pc \in {"list", "read", "opening"} -> NoPage
              [] OTHER -> [pc |-> "lost", form |-> page.form,
                           sent |-> page.pc = "flag" \/ (page.pc = "send" /\ smtp.taken)])
    /\ ImapReset /\ SmtpReset
    /\ UNCHANGED <<mailVars, setting, header, looks, submits>>

Clients ==
    \/ ImapStep /\ UNCHANGED <<smtpVars, setting, header, page, looks, submits>>
    \/ SmtpStep /\ UNCHANGED <<mailVars, imapVars, setting, header, page, looks, submits>>

Handler ==
    \/ ShowList \/ ShowMessage \/ ShowForm \/ NewLoaded \/ Loaded \/ SendReturned \/ FlagReturned
    \/ Clients

OtherClients ==
    /\ \/ /\ MailServerStep
          /\ deleted' = {m \in deleted : place'[m] # Expunged}
          /\ UNCHANGED <<imap, leftOpen, imapClear>>
       \/ \E m \in Messages : MarkDeleted(m)
    /\ UNCHANGED <<smtpVars, setting, header, page, looks, submits>>

Next ==
    \/ handleMailbox \/ handleMessage \/ handleNewMessage \/ OpenForm \/ Submit
    \/ Handler \/ Leave \/ Restart \/ OtherClients

\* Every command is answered or its connection dropped, at some time: neither client
\* sets a deadline of its own.
Spec == Init /\ [][Next]_vars /\ WF_vars(Handler)
-----------------------------------------------------------------------------
(* RCPT is refused for one of several recipients: then nobody gets the     *)
(* message.  What a server took has all of To and Cc as recipients.        *)
AllRecipientsOrNone ==
    \A d \in delivered : d.named = messageRecipients(Message(d.id.form))

Readable(h) == \A f \in {"replyTo", "from", "to", "cc"} : formatAddresses(h[f]) # Garbled

(* A reply goes to the first Reply-To or From, a reply to all to everybody *)
(* on the original but this account, and to nobody twice, in whatever case *)
(* the addresses are written.  It needs headers whose display names need   *)
(* no quotes: an unreadable To or Cc is left out without a word.           *)
AnswersReachEveryone ==
    \A d \in delivered :
        LET form == d.id.form
            h == header[form.about]
            target == IF h.replyTo # <<>> THEN h.replyTo[1].key ELSE h.from[1].key
            all == {target} \cup ((Keys(h.to) \cup Keys(h.cc)) \ {Self.key})
            expected == IF form.mode = "reply" THEN {target} ELSE all
        IN  /\ form.mode \in {"reply", "reply-all"}
            /\ h.replyTo # <<>> \/ h.from # <<>>
            /\ Readable(h)
            => Keys(d.named) = expected /\ Len(d.named) = Cardinality(expected)

(* The list page shows the newest messages of the mailbox that was         *)
(* selected, as many as the limit allows, each once and newest first,      *)
(* except for what was deleted before the FETCH.                           *)
ListIsNewest ==
    page.pc = "listed" =>
        LET listed == {i \in DOMAIN page.rows : page.rows[i] # NoRow}
            Newer(i) == Cardinality({j \in DOMAIN page.of : j > i})
            newest == {page.of[i] : i \in {j \in DOMAIN page.of : Newer(j) < page.limit}}
            Position(m) == CHOOSE i \in DOMAIN page.of : page.of[i] = m
        IN  /\ {m \in newest : place[m] # Expunged} \subseteq ToSet(page.rows)
            /\ \A i \in listed : page.rows[i] \in newest
            /\ \A i, j \in listed : i < j => Position(page.rows[i]) > Position(page.rows[j])

(* Once a login has succeeded no return of a call leaves its connection    *)
(* open.  After a refused login it does stay open: client.Close() is CLOSE *)
(* there, which go-imap does not send.                                     *)
OnlyRefusedLoginsLinger == leftOpen \subseteq {"notauth"}

(* docs/smtp.md:38-42, docs/imap.md:13: a password goes over a connection  *)
(* without TLS to localhost only, unless the deployment allows it.         *)
NoPasswordInClear == ~smtpClear /\ ~imapClear

(* No call of this program removes a message, also not one that another    *)
(* client has marked \Deleted in the mailbox that is open read-write.      *)
NothingExpunged ==
    [][\A m \in Messages :
          place[m] # Expunged /\ place'[m] = Expunged => imap' = imap]_vars

(* A handler ends when the servers answer or drop the connection: neither  *)
(* the fetch goroutine nor its reader waits for the other for ever.        *)
HandlerReturns == page.pc \in Working ~> page.pc \in Resting
=============================================================================
