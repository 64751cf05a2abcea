-------------------------- MODULE MailClientsProofs --------------------------
(***************************************************************************)
(* Theorems about the mail clients and the pages over them, for any        *)
(* settings, mailboxes, headers, forms and failures.                       *)
(*                                                                         *)
(* IInv: what the deferred calls of internal/imap do depends on where a    *)
(* call stops; CallGood says at every step which of them are still to run  *)
(* and in which state the server holds the connection by then.             *)
(* PInv: types, which call a page waits for, and whom the SMTP server      *)
(* knows of a message at every command.                                    *)
(* LInv: what a FETCH has on its way, read in order, is the newest part of *)
(* the mailbox that was selected.                                          *)
(***************************************************************************)
EXTENDS MailClients, MailFacts

CallFields == {"at", "server", "account", "op", "conn", "view", "todo", "chan", "done", "out",
               "result", "defers", "stored"}

IsCall(c) == c = [f \in CallFields |-> c[f]]

\* A plain connection that a password may go over.
MayLogin(account) == account.security = "imap" => account.allow \/ account.local

CallGood(c) ==
    /\ c = NotCalled \/ IsCall(c)
    /\ c.at = "connect" => c.conn = "none" /\ c.defers = <<>>
    /\ c.at = "login" => c.conn = "notauth" /\ c.defers = <<>> /\ MayLogin(c.account)
    /\ c.at \in {"select", "fetch", "fetching", "store", "stored"} => c.defers = deferred
    /\ c.at = "return" => \/ c.defers = deferred
                          \/ c.defers = <<"close">> /\ c.conn = "closed"
                          \/ c.defers = <<>> /\ c.conn \in {"none", "notauth", "closed"}

IInv ==
    /\ CallGood(imap)
    /\ OnlyRefusedLoginsLinger
    /\ NoPasswordInClear
-----------------------------------------------------------------------------
(* A call that begins, and one that is over.                               *)
LEMMA CallBegins ==
    ASSUME NEW s, NEW account, NEW op, Call(s, account, op)
    PROVE  CallGood(imap') /\ UNCHANGED <<deleted, leftOpen, imapClear>>
  <1>1. PICK c : c = [at |-> "connect", server |-> s, account |-> account, op |-> op,
                conn |-> "none", view |-> <<>>, todo |-> <<>>, chan |-> <<>>,
                done |-> "", out |-> <<>>, result |-> "", defers |-> <<>>, stored |-> FALSE]
    OBVIOUS
  <1>2. IsCall(c)
    BY <1>1 DEF IsCall, CallFields
  <1>3. CallGood(c)
    BY <1>1, <1>2 DEF CallGood
  <1>4. imap' = c /\ UNCHANGED <<deleted, leftOpen, imapClear>>
    BY <1>1 DEF Call
  <1> QED
    BY <1>3, <1>4

(* No call.                                                                *)
LEMMA NotCalledGood == CallGood(NotCalled)
  BY DEF CallGood, NotCalled

(* The commands of a call, the reader and the goroutine of a FETCH, and    *)
(* the deferred calls.                                                     *)
LEMMA ImapSteps ==
    ASSUME IInv, ImapStep
    PROVE  CallGood(imap') /\ OnlyRefusedLoginsLinger' /\ ~imapClear'
  <1>1. CallGood(imap) /\ OnlyRefusedLoginsLinger /\ ~imapClear
    BY DEF IInv, NoPasswordInClear
  <1>2. IsCall(imap)
    <2>1. imap.at # "idle"
      BY DEF ImapStep, ImapConnect, Login, Select, Fetch, Deliver, DeliverUnasked, FetchReturns,
             Receive, Fetched, Store, StoreReplied, ImapFails, ImapCommands, Logout, Close, Return
    <2> QED
      BY <1>1, <2>1 DEF CallGood, NotCalled
  <1>3. CASE ImapConnect
    <2>1. PICK c : c = [imap EXCEPT !.at = "login", !.conn = "notauth"]
      OBVIOUS
    <2>2. IsCall(c) /\ c.at = "login" /\ c.conn = "notauth" /\ c.defers = imap.defers
          /\ c.account = imap.account
      BY <1>2, <2>1 DEF IsCall, CallFields
    <2>3. CallGood(c)
      BY <1>1, <1>3, <2>2 DEF ImapConnect, CallGood, MayLogin
    <2> QED
      BY <1>1, <1>3, <2>1, <2>3 DEF ImapConnect, OnlyRefusedLoginsLinger
  <1>4. CASE Login
    <2>1. PICK c : c = [imap EXCEPT !.at = "select", !.conn = "auth", !.defers = deferred]
      OBVIOUS
    <2>2. IsCall(c) /\ c.at = "select" /\ c.defers = deferred
      BY <1>2, <2>1 DEF IsCall, CallFields
    <2>3. CallGood(c)
      BY <2>2 DEF CallGood
    <2>4. ~imapClear'
      BY <1>1, <1>4 DEF Login, CallGood, MayLogin
    <2> QED
      BY <1>1, <1>4, <2>1, <2>3, <2>4 DEF Login, OnlyRefusedLoginsLinger
  <1>5. CASE Select \/ Fetch \/ Deliver \/ DeliverUnasked \/ FetchReturns \/ Receive
             \/ Fetched \/ Store \/ StoreReplied
    <2>1. /\ imap.at \in {"select", "fetch", "fetching", "store", "stored"}
          /\ UNCHANGED <<leftOpen, imapClear>>
      BY <1>5 DEF Select, Fetch, Deliver, DeliverUnasked, FetchReturns, Receive, Fetched, Store,
                  StoreReplied
    <2>2. /\ imap'.at \in {"fetch", "fetching", "store", "stored", "return"}
          /\ imap'.defers = imap.defers
          /\ IsCall(imap')
      <3>1. CASE Select
        BY <1>2, <3>1 DEF Select, IsCall, CallFields
      <3>2. CASE Fetch \/ Deliver \/ DeliverUnasked
        BY <1>2, <3>2 DEF Fetch, Deliver, DeliverUnasked, IsCall, CallFields
      <3>3. CASE FetchReturns \/ Receive \/ Fetched
        BY <1>2, <3>3 DEF FetchReturns, Receive, Fetched, IsCall, CallFields
      <3>4. CASE Store \/ StoreReplied
        BY <1>2, <3>4 DEF Store, StoreReplied, IsCall, CallFields
      <3> QED
        BY <1>5, <3>1, <3>2, <3>3, <3>4
    <2>3. CallGood(imap')
      BY <1>1, <2>1, <2>2 DEF CallGood
    <2> QED
      BY <1>1, <2>1, <2>3 DEF OnlyRefusedLoginsLinger
  <1>6. CASE ImapFails
    <2>1. PICK conn \in {imap.conn, "closed"} :
             imap' = [imap EXCEPT !.at = "return", !.result = "error", !.conn = conn]
      BY <1>6 DEF ImapFails
    <2>2. IsCall(imap') /\ imap'.at = "return" /\ imap'.conn = conn /\ imap'.defers = imap.defers
      BY <1>2, <2>1 DEF IsCall, CallFields
    <2>3. imap.at \in ImapCommands /\ UNCHANGED <<leftOpen, imapClear>>
      BY <1>6 DEF ImapFails
    <2>4. CallGood(imap')
      BY <1>1, <2>1, <2>2, <2>3 DEF CallGood, ImapCommands
    <2> QED
      BY <1>1, <2>3, <2>4 DEF OnlyRefusedLoginsLinger
  <1>7. CASE Logout
    <2>1. /\ imap.at = "return" /\ imap.defers # <<>> /\ Head(imap.defers) = "logout"
          /\ imap' = [imap EXCEPT !.defers = Tail(imap.defers), !.conn = "closed"]
          /\ UNCHANGED <<leftOpen, imapClear>>
      BY <1>7 DEF Logout
    <2>2. imap.defers = deferred
      <3>1. Head(<<"close">>) # "logout"
        OBVIOUS
      <3> QED
        BY <1>1, <2>1, <3>1 DEF CallGood
    <2>3. Tail(imap.defers) = <<"close">>
      BY <2>2 DEF deferred
    <2>4. IsCall(imap') /\ imap'.at = "return" /\ imap'.conn = "closed"
          /\ imap'.defers = <<"close">>
      BY <1>2, <2>1, <2>3 DEF IsCall, CallFields
    <2>5. CallGood(imap')
      BY <2>4 DEF CallGood
    <2> QED
      BY <1>1, <2>1, <2>5 DEF OnlyRefusedLoginsLinger
  <1>8. CASE Close
    <2>1. /\ imap.at = "return" /\ imap.defers # <<>> /\ Head(imap.defers) = "close"
          /\ imap' = [imap EXCEPT !.defers = Tail(imap.defers),
                         !.conn = IF imap.conn \in {"selected ro", "selected rw"} THEN "auth"
                                  ELSE imap.conn]
          /\ UNCHANGED <<leftOpen, imapClear>>
      BY <1>8 DEF Close
    <2>2. imap.defers = <<"close">> /\ imap.conn = "closed"
      <3>1. Head(deferred) # "close"
        BY DEF deferred
      <3> QED
        BY <1>1, <2>1, <3>1 DEF CallGood
    <2>3. Tail(imap.defers) = <<>>
      BY <2>2
    <2>4. IsCall(imap') /\ imap'.at = "return" /\ imap'.conn = "closed" /\ imap'.defers = <<>>
      BY <1>2, <2>1, <2>2, <2>3 DEF IsCall, CallFields
    <2>5. CallGood(imap')
      BY <2>4 DEF CallGood
    <2> QED
      BY <1>1, <2>1, <2>5 DEF OnlyRefusedLoginsLinger
  <1>9. CASE Return
    <2>1. /\ imap.at = "return" /\ imap.defers = <<>>
          /\ imap' = [imap EXCEPT !.at = "returned"]
          /\ leftOpen' = leftOpen \cup ({imap.conn} \ {"none", "closed"})
          /\ UNCHANGED imapClear
      BY <1>9 DEF Return
    <2>2. imap.conn \in {"none", "notauth", "closed"}
      BY <1>1, <2>1 DEF CallGood, deferred
    <2>3. IsCall(imap') /\ imap'.at = "returned"
      BY <1>2, <2>1 DEF IsCall, CallFields
    <2>4. CallGood(imap')
      BY <2>3 DEF CallGood
    <2> QED
      BY <1>1, <2>1, <2>2, <2>4 DEF OnlyRefusedLoginsLinger
  <1> QED
    BY <1>3, <1>4, <1>5, <1>6, <1>7, <1>8, <1>9 DEF ImapStep

(* Send authenticates over TLS, to localhost, or where it is allowed.      *)
LEMMA SmtpSteps ==
    ASSUME IInv, SmtpStep
    PROVE  ~smtpClear'
  <1>1. ~smtpClear
    BY DEF IInv, NoPasswordInClear
  <1>2. CASE Auth
    BY <1>1, <1>2 DEF Auth, smtpAuth
  <1>3. CASE ~Auth
    BY <1>1, <1>3 DEF SmtpStep, SmtpConnect, StartTLS, Mail, Rcpt, Data, Take, Taken250, Quit,
                      SmtpFails
  <1> QED
    BY <1>2, <1>3

(* No connection at the start.                                             *)
LEMMA InitIInv == Init => IInv
  BY NotCalledGood DEF Init, ImapInit, SmtpInit, IInv, OnlyRefusedLoginsLinger, NoPasswordInClear

(* Every step keeps the invariant.                                         *)
LEMMA StepIInv == IInv /\ [Next]_vars => IInv'
  <1> SUFFICES ASSUME IInv, [Next]_vars PROVE IInv'
    OBVIOUS
  <1>1. ASSUME CallGood(imap'), UNCHANGED <<leftOpen, imapClear, smtpClear>>
        PROVE  IInv'
    BY <1>1 DEF IInv, CallGood, IsCall, NotCalled, OnlyRefusedLoginsLinger, NoPasswordInClear
  <1>2. CallGood(imap)
    BY DEF IInv
  <1>3. CASE UNCHANGED vars
    BY <1>1, <1>2, <1>3 DEF vars, imapVars, smtpVars
  <1>4. CASE handleMailbox \/ handleMessage \/ OpenForm
    BY <1>1, <1>4, CallBegins
       DEF handleMailbox, handleMessage, OpenForm, ListMessages, GetMessageCall, smtpVars
  <1>5. CASE Submit
    BY <1>1, <1>2, <1>5, CallBegins DEF Submit, GetMessageCall, imapVars, smtpVars
  <1>6. CASE SendReturned
    BY <1>1, <1>2, <1>6, CallBegins DEF SendReturned, markMessageFlag, imapVars, SmtpReset
  <1>7. CASE ShowList \/ ShowMessage \/ ShowForm \/ Loaded \/ FlagReturned \/ Restart
    <2>1. imap' = NotCalled /\ UNCHANGED <<leftOpen, imapClear>>
      BY <1>7 DEF ShowList, ShowMessage, ShowForm, Loaded, FlagReturned, Restart, ImapReset
    <2>2. UNCHANGED smtpClear
      BY <1>7 DEF ShowList, ShowMessage, ShowForm, Loaded, FlagReturned, Restart, SmtpReset,
                  SendFor, Send, smtpVars
    <2> QED
      BY <1>1, <2>1, <2>2, NotCalledGood
  <1>8. CASE handleNewMessage \/ NewLoaded \/ Leave
    <2>1. UNCHANGED <<imap, leftOpen, imapClear, smtpClear>>
      BY <1>8 DEF handleNewMessage, NewLoaded, Leave, SendFor, Send, imapVars, smtpVars
    <2> QED
      BY <1>1, <1>2, <2>1
  <1>9. CASE OtherClients
    <2>1. UNCHANGED <<imap, leftOpen, imapClear, smtpClear>>
      BY <1>9 DEF OtherClients, MarkDeleted, smtpVars
    <2> QED
      BY <1>1, <1>2, <2>1
  <1>10. CASE ImapStep /\ UNCHANGED <<smtpVars, setting, header, page, looks, submits>>
    <2>1. ~smtpClear'
      BY <1>10 DEF smtpVars, IInv, NoPasswordInClear
    <2> QED
      BY <1>10, <2>1, ImapSteps DEF IInv, CallGood, IsCall, NotCalled, NoPasswordInClear
  <1>11. CASE SmtpStep /\ UNCHANGED <<mailVars, imapVars, setting, header, page, looks, submits>>
    <2>1. UNCHANGED <<imap, leftOpen, imapClear>>
      BY <1>11 DEF imapVars
    <2> QED
      BY <1>2, <1>11, <2>1, SmtpSteps
         DEF IInv, CallGood, IsCall, NotCalled, OnlyRefusedLoginsLinger, NoPasswordInClear
  <1> QED
    BY <1>3, <1>4, <1>5, <1>6, <1>7, <1>8, <1>9, <1>10, <1>11 DEF Next, Handler, Clients
-----------------------------------------------------------------------------
(* The strengthened invariant.                                             *)
THEOREM Invariance == Spec => []IInv
  BY InitIInv, StepIInv, PTL DEF Spec

(* A connection that stays open is one whose login was refused.            *)
THEOREM ConnectionsEnd == Spec => []OnlyRefusedLoginsLinger
  <1>1. IInv => OnlyRefusedLoginsLinger
    BY DEF IInv
  <1> QED
    BY <1>1, Invariance, PTL

(* No password goes to another host in clear unless that is allowed.       *)
THEOREM PasswordsProtected == Spec => []NoPasswordInClear
  <1>1. IInv => NoPasswordInClear
    BY DEF IInv
  <1> QED
    BY <1>1, Invariance, PTL

(* The CLOSE that would expunge is never sent: LOGOUT came before it.      *)
THEOREM MessagesStay == Spec => NothingExpunged
  <1>1. ASSUME IInv, [Next]_vars, NEW m \in Messages, place'[m] # place[m]
        PROVE  imap' = imap
    <2>1. ~(UNCHANGED mailVars)
      BY <1>1 DEF mailVars
    <2>2. ~ImapStep
      <3> SUFFICES ASSUME ImapStep PROVE FALSE
        OBVIOUS
      <3>1. Close
        BY <1>1, <2>1 DEF ImapStep, ImapConnect, Login, Select, Fetch, Deliver, DeliverUnasked,
             FetchReturns, Receive, Fetched, Store, UidStore, StoreReplied, ImapFails, Logout, Return
      <3>2. imap.conn = "selected rw" /\ imap.at = "return" /\ Head(imap.defers) = "close"
            /\ imap.defers # <<>>
        BY <2>1, <3>1 DEF Close
      <3>3. Head(deferred) # "close"
        BY DEF deferred
      <3> QED
        BY <1>1, <3>2, <3>3 DEF IInv, CallGood
    <2>3. CASE OtherClients
      BY <2>3 DEF OtherClients, MarkDeleted
    <2> QED
      BY <1>1, <2>1, <2>2, <2>3 DEF Next, Handler, Clients, handleMailbox, handleMessage,
         handleNewMessage, OpenForm, Submit, ShowList, ShowMessage, ShowForm, NewLoaded, Loaded,
         SendReturned, FlagReturned, Leave, Restart, vars
  <1>2. IInv /\ [Next]_vars =>
          [\A m \in Messages :
              place[m] # Expunged /\ place'[m] = Expunged => imap' = imap]_vars
    BY <1>1
  <1> QED
    BY <1>2, Invariance, PTL DEF Spec, NothingExpunged
-----------------------------------------------------------------------------
(* Types, and what a page, its calls and what was delivered have to do     *)
(* with each other.                                                        *)

\* No two messages of a mailbox share a UID, and every UID was handed out.
Numbered ==
    /\ \A m \in Messages, s \in Servers, u \in Uids : place[m] = <<s, u>> => u < uidNext[s]
    /\ \A m, n \in Messages : place[m] = place[n] /\ place[m] \in Servers \X Uids => m = n

Ops == [name : {"list"}, limit : Limits] \cup [name : {"get"}, uid : Uids]
          \cup [name : {"mark"}, uid : Uids, flag : Flags]

Rows == Messages \cup {NoRow}

\* Nothing is on its way from the server to the caller.
Nothing(c) == c.todo = <<>> /\ c.chan = <<>> /\ c.out = <<>>

\* A FETCH by UID finds nothing or one message, wherever that is by now.
AtMostOne(c) ==
    \/ Nothing(c)
    \/ \E m \in Messages : \/ c.todo = <<m>> /\ c.chan = <<>> /\ c.out = <<>>
                           \/ c.todo = <<>> /\ c.chan = <<m>> /\ c.out = <<>>
                           \/ c.todo = <<>> /\ c.chan = <<>> /\ c.out = <<m>>

RowsTyped(c) ==
    /\ c.todo \in Seq(Messages) /\ c.chan \in Seq(Rows) /\ c.out \in Seq(Rows)
    /\ Len(c.chan) <= ChannelCap + 1
    /\ c.op.name = "get" => AtMostOne(c)

\* What a call may be at, by its kind and by what it has.
PhaseTyped(c) ==
    /\ c.at \in {"fetching", "return", "returned"} \cup ImapCommands
    /\ c.at \in {"store", "stored"} => c.op.name = "mark"
    /\ c.at \in {"fetch", "fetching"} => c.op.name # "mark"
    /\ c.at \in ImapCommands => Nothing(c) /\ c.done = ""
    /\ c.at \in {"fetching"} \cup ImapCommands => c.result = ""
    /\ c.op.name = "get" /\ c.result = "ok" => c.out # <<>>

CallTyped(c) ==
    /\ c.server = server /\ c.op \in Ops
    /\ c.conn \in {"none", "notauth", "auth", "selected ro", "selected rw", "closed"}
    /\ c.done \in {"", "ok", "error"} /\ c.result \in {"", "ok", "missing", "error"}
    /\ c.view \in Seq(Messages)
    /\ RowsTyped(c)
    /\ PhaseTyped(c)

IsForm(form) ==
    /\ form = IF form.mode = "new" THEN [mode |-> "new", to |-> form.to, cc |-> form.cc]
              ELSE [mode |-> form.mode, uid |-> form.uid, about |-> form.about,
                    to |-> form.to, cc |-> form.cc]
    /\ form.mode \in Modes
    /\ form.to \in Lists /\ form.cc \in Lists
    /\ form.mode # "new" => form.uid \in Uids /\ form.about \in Messages

\* An answer has the recipients that were proposed for it, if any were.
IsAnswer(form) ==
    form.mode \in {"reply", "reply-all"} =>
        LET p == Proposed(form.mode, header[form.about], Self)
        IN  p.to # <<>> => form.to = p.to /\ form.cc = p.cc

FormGood(form) == IsForm(form) /\ IsAnswer(form)

WithForm == {"form", "load", "send", "flag", "sent", "warned", "failed", "lost"}

\* The kind of call that a page waits for.
CallOf(p) ==
    CASE p.pc = "list" -> "list"
      [] p.pc \in {"read", "opening"} -> "get"
      [] p.pc = "load" /\ p.form.mode # "new" -> "get"
      [] p.pc = "flag" -> "mark"
      [] OTHER -> "none"

PageGood(p) ==
    /\ p.pc \in Working \cup Resting
    /\ p.pc = "opening" => p.mode \in Modes \ {"new"} /\ p.uid \in Uids
    /\ p.pc \in WithForm => FormGood(p.form)
    /\ p.pc \in {"send", "flag"} => p = [pc |-> p.pc, form |-> p.form, original |-> p.original]
    /\ p.pc = "flag" => p.form.mode # "new"

SendFields == {"at", "account", "message", "id", "tls", "named", "taken"}

IsSend(s) == s = [f \in SendFields |-> s[f]]

\* Whom the server knows of a message: a beginning of the recipients, and all of them when
\* the data is sent.
SendGood(s) ==
    /\ IsSend(s)
    /\ s.at \in SmtpCommands \cup SmtpReturned
    /\ s.message = Message(s.id.form)
    /\ s.at # "error" => validateMessage(s.message)
    /\ s.at \in {"connect", "starttls", "auth", "mail"} => s.named = <<>>
    /\ s.at = "rcpt" => \E n \in 0..Len(messageRecipients(s.message)) :
                             s.named = SubSeq(messageRecipients(s.message), 1, n)
    /\ s.at = "body" => s.named = messageRecipients(s.message)

DeliveredGood ==
    \A d \in delivered : /\ FormGood(d.id.form)
                         /\ validateMessage(Message(d.id.form))
                         /\ d.named = messageRecipients(Message(d.id.form))

PInv ==
    /\ MailServerTypeOK /\ Numbered
    /\ deleted \subseteq Messages
    /\ header \in [Messages -> Headers]
    /\ imap # NotCalled => CallTyped(imap)
    /\ PageGood(page)
    /\ IF imap = NotCalled THEN CallOf(page) = "none" ELSE imap.op.name = CallOf(page)
    /\ smtp # Idle => SendGood(smtp) /\ smtp.id = [form |-> page.form, original |-> page.original]
    /\ page.pc = "send" <=> smtp # Idle
    /\ DeliveredGood
-----------------------------------------------------------------------------
(* The mailboxes, whatever other clients do.                               *)

(* The account's server is one of the servers.                             *)
LEMMA ServerIs == server \in Servers
  BY MailClientsAssumption DEF MailClientsAssumption, server

(* Other clients leave the types of the mailboxes as they are.             *)
LEMMA MailServerTypes ==
    ASSUME MailServerTypeOK, MailServerStep
    PROVE  MailServerTypeOK'
  <1>1. MaxUid \in Nat
    BY MailServerAssumption DEF MailServerAssumption
  <1>2. ASSUME NEW s \in Servers, NEW m \in Messages, Arrive(s, m) PROVE MailServerTypeOK'
    <2>1. uidNext[s] \in Uids /\ uidNext[s] + 1 \in 1..(MaxUid + 1)
      BY <1>1, <1>2 DEF Arrive, MailServerTypeOK, Uids
    <2> QED
      BY <1>2, <2>1 DEF Arrive, MailServerTypeOK
  <1>3. ASSUME NEW m \in Messages, Expunge(m) PROVE MailServerTypeOK'
    BY <1>3 DEF Expunge, MailServerTypeOK
  <1>4. ASSUME NEW s \in Servers, Renumber(s) PROVE MailServerTypeOK'
    <2>1. PICK uid \in [{m \in Messages : place[m] \in {s} \X Uids} -> 1..(uidNext[s] - 1)] :
             place' = [m \in Messages |->
                         IF m \in DOMAIN uid THEN <<s, uid[m]>> ELSE place[m]]
      BY <1>4 DEF Renumber
    <2>2. 1..(uidNext[s] - 1) \subseteq Uids
      BY <1>1 DEF MailServerTypeOK, Uids
    <2>3. \A m \in DOMAIN uid : <<s, uid[m]>> \in Servers \X Uids
      BY <2>2
    <2>4. place' \in [Messages -> (Servers \X Uids) \cup {Undelivered, Expunged}]
      BY <2>1, <2>3 DEF MailServerTypeOK
    <2> QED
      BY <1>4, <2>4 DEF Renumber, MailServerTypeOK
  <1> QED
    BY <1>2, <1>3, <1>4 DEF MailServerStep

(* UIDs stay below the next one and name one message each: one that        *)
(* arrives has a new UID, and a renumbering is injective.                  *)
LEMMA NumbersStay ==
    ASSUME MailServerTypeOK, Numbered, MailServerStep
    PROVE  Numbered'
  <1>1. /\ uidNext \in [Servers -> 1..(MaxUid + 1)] /\ MaxUid \in Nat
        /\ place \in [Messages -> (Servers \X Uids) \cup {Undelivered, Expunged}]
        /\ Undelivered \notin Servers \X Uids /\ Expunged \notin Servers \X Uids
    BY MailServerAssumption DEF MailServerAssumption, MailServerTypeOK
  <1>2. ASSUME NEW s \in Servers, NEW a \in Messages, Arrive(s, a) PROVE Numbered'
    <2>1. /\ place' = [place EXCEPT ![a] = <<s, uidNext[s]>>]
          /\ uidNext' = [uidNext EXCEPT ![s] = @ + 1]
          /\ uidNext[s] \in Uids /\ uidNext[s] < uidNext'[s]
          /\ \A z \in Servers : uidNext[z] <= uidNext'[z]
      BY <1>1, <1>2 DEF Arrive, Uids
    <2>2. \A m \in Messages : place'[m] = IF m = a THEN <<s, uidNext[s]>> ELSE place[m]
      BY <1>1, <2>1
    <2>3. \A m \in Messages : place[m] # <<s, uidNext[s]>>
      BY <1>1, <2>1 DEF Numbered
    <2>4. ASSUME NEW m \in Messages, NEW z \in Servers, NEW u \in Uids, place'[m] = <<z, u>>
          PROVE  u < uidNext'[z]
      <3>1. CASE m = a
        BY <2>1, <2>2, <2>4, <3>1
      <3>2. CASE m # a
        <4>1. u < uidNext[z]
          BY <2>2, <2>4, <3>2 DEF Numbered
        <4> QED
          BY <1>1, <2>1, <4>1 DEF Uids
      <3> QED
        BY <3>1, <3>2
    <2>5. ASSUME NEW m \in Messages, NEW n \in Messages, place'[m] = place'[n],
                 place'[m] \in Servers \X Uids
          PROVE  m = n
      BY <2>2, <2>3, <2>5 DEF Numbered
    <2> QED
      BY <2>4, <2>5 DEF Numbered
  <1>3. ASSUME NEW e \in Messages, Expunge(e) PROVE Numbered'
    <2>1. /\ \A m \in Messages : place'[m] = IF m = e THEN Expunged ELSE place[m]
          /\ uidNext' = uidNext
      BY <1>1, <1>3 DEF Expunge
    <2>2. \A s \in Servers, u \in Uids : <<s, u>> # Expunged
      BY <1>1
    <2> QED
      BY <1>1, <2>1, <2>2 DEF Numbered
  <1>4. ASSUME NEW s \in Servers, Renumber(s) PROVE Numbered'
    <2>1. PICK uid \in [{m \in Messages : place[m] \in {s} \X Uids} -> 1..(uidNext[s] - 1)] :
             /\ \A m, n \in DOMAIN uid : uid[m] = uid[n] => m = n
             /\ place' = [m \in Messages |->
                            IF m \in DOMAIN uid THEN <<s, uid[m]>> ELSE place[m]]
      BY <1>4 DEF Renumber
    <2>2. uidNext' = uidNext /\ uidNext[s] \in Int
      BY <1>1, <1>4 DEF Renumber
    <2>3. \A m \in Messages : /\ m \in DOMAIN uid <=> place[m] \in {s} \X Uids
                              /\ m \in DOMAIN uid => uid[m] \in Int /\ uid[m] < uidNext[s]
      BY <2>1, <2>2
    <2>4. \A m \in Messages : place'[m] = IF m \in DOMAIN uid THEN <<s, uid[m]>> ELSE place[m]
      BY <2>1
    <2>5. ASSUME NEW m \in Messages, NEW z \in Servers, NEW u \in Uids, place'[m] = <<z, u>>
          PROVE  u < uidNext'[z]
      <3>1. CASE m \in DOMAIN uid
        <4>1. <<s, uid[m]>> = <<z, u>>
          BY <2>4, <2>5, <3>1
        <4>2. s = z /\ uid[m] = u
          BY <4>1
        <4> QED
          BY <2>2, <2>3, <3>1, <4>2
      <3>2. CASE m \notin DOMAIN uid
        BY <2>2, <2>4, <2>5, <3>2 DEF Numbered
      <3> QED
        BY <3>1, <3>2
    <2>6. ASSUME NEW m \in Messages, NEW n \in Messages, place'[m] = place'[n],
                 place'[m] \in Servers \X Uids
          PROVE  m = n
      <3>1. CASE m \in DOMAIN uid /\ n \in DOMAIN uid
        BY <2>1, <2>4, <2>6, <3>1
      <3>2. CASE m \notin DOMAIN uid /\ n \notin DOMAIN uid
        BY <2>4, <2>6, <3>2 DEF Numbered
      <3>3. CASE m \in DOMAIN uid /\ n \notin DOMAIN uid
        <4>1. place[n] = <<s, uid[m]>> /\ place[n] \in Servers \X Uids
          BY <2>4, <2>6, <3>3
        <4>2. place[n] \in {s} \X Uids
          BY <4>1
        <4> QED
          BY <2>3, <3>3, <4>2
      <3>4. CASE m \notin DOMAIN uid /\ n \in DOMAIN uid
        <4>1. place[m] = <<s, uid[n]>> /\ place[m] \in Servers \X Uids
          BY <2>4, <2>6, <3>4
        <4>2. place[m] \in {s} \X Uids
          BY <4>1
        <4> QED
          BY <2>3, <3>4, <4>2
      <3> QED
        BY <3>1, <3>2, <3>3, <3>4
    <2> QED
      BY <2>5, <2>6 DEF Numbered
  <1> QED
    BY <1>2, <1>3, <1>4 DEF MailServerStep
-----------------------------------------------------------------------------
(* The calls.                                                              *)

(* A UID FETCH finds nothing or one message.                               *)
LEMMA FoundByUid ==
    ASSUME PInv, NEW uid \in Uids
    PROVE  \/ SetToSeq(GetMessage(server, uid)) = <<>>
           \/ \E m \in Messages : SetToSeq(GetMessage(server, uid)) = <<m>>
  <1> DEFINE S == GetMessage(server, uid)
  <1>1. \A m \in S : m \in Messages /\ place[m] = <<server, uid>>
    BY DEF GetMessage, At
  <1>2. <<server, uid>> \in Servers \X Uids
    BY ServerIs
  <1>3. \A m, n \in S : m = n
    BY <1>1, <1>2 DEF PInv, Numbered
  <1>4. S = {} \/ \E m \in Messages : S = {m}
    BY <1>1, <1>3
  <1> HIDE DEF S
  <1>5. /\ S = {} => SetToSeq(S) = <<>>
        /\ \A m : S = {m} => SetToSeq(S) = <<m>>
    BY FewToSeq
  <1> QED
    BY <1>4, <1>5 DEF S

(* A call that begins.                                                     *)
LEMMA CallTypedBegins ==
    ASSUME NEW account, NEW op \in Ops, Call(server, account, op)
    PROVE  imap' # NotCalled /\ CallTyped(imap') /\ imap'.op = op
  <1>1. PICK c : c = [at |-> "connect", server |-> server, account |-> account, op |-> op,
                conn |-> "none", view |-> <<>>, todo |-> <<>>, chan |-> <<>>,
                done |-> "", out |-> <<>>, result |-> "", defers |-> <<>>, stored |-> FALSE]
    OBVIOUS
  <1>2. ChannelCap \in Nat
    BY ImapAssumption DEF ImapAssumption
  <1>3. <<>> \in Seq(Messages) /\ <<>> \in Seq(Rows) /\ Len(<<>>) = 0
    OBVIOUS
  <1>4. c # NotCalled
    BY <1>1 DEF NotCalled
  <1>5. Nothing(c)
    BY <1>1 DEF Nothing
  <1>6. c.op = op
    BY <1>1
  <1>7. RowsTyped(c)
    BY <1>2, <1>3, <1>5, <1>6 DEF RowsTyped, AtMostOne, Nothing
  <1>8. PhaseTyped(c)
    BY <1>1, <1>5 DEF PhaseTyped, ImapCommands
  <1>9. CallTyped(c)
    BY <1>1, <1>3, <1>7, <1>8 DEF CallTyped
  <1>10. imap' = c
    BY <1>1 DEF Call
  <1> QED
    BY <1>4, <1>6, <1>9, <1>10

\* Fields that a command before the messages leaves as they are.
SameRows(c, d) ==
    /\ d.op = c.op /\ d.server = c.server /\ d.done = c.done
    /\ d.todo = c.todo /\ d.chan = c.chan /\ d.out = c.out

(* Fields that do not change keep their types.                             *)
LEMMA SameRowsTyped ==
    ASSUME NEW c, NEW d, RowsTyped(c), SameRows(c, d)
    PROVE  RowsTyped(d) /\ (Nothing(c) => Nothing(d))
  BY DEF RowsTyped, SameRows, AtMostOne, Nothing

(* The commands up to the FETCH, the STORE and a failure.                  *)
LEMMA CommandTypes ==
    ASSUME PInv, imap # NotCalled, IsCall(imap),
           ImapConnect \/ Login \/ Select \/ Store \/ StoreReplied \/ ImapFails
    PROVE  CallTyped(imap') /\ imap'.op = imap.op
  <1>1. CallTyped(imap) /\ RowsTyped(imap) /\ PhaseTyped(imap)
    BY DEF PInv, CallTyped
  <1>2. imap.at \in ImapCommands
    BY DEF ImapConnect, Login, Select, Store, StoreReplied, ImapFails, ImapCommands
  <1>3. Nothing(imap) /\ imap.done = "" /\ imap.result = ""
    BY <1>1, <1>2 DEF PhaseTyped
  <1>4. ASSUME SameRows(imap, imap'), imap'.at \in {"return"} \cup ImapCommands,
               imap'.at \in {"store", "stored"} => imap.op.name = "mark",
               imap'.at = "fetch" => imap.op.name # "mark",
               imap'.view \in Seq(Messages),
               imap'.conn \in {"none", "notauth", "auth", "selected ro", "selected rw", "closed"},
               imap'.result \in {"", "ok", "error"},
               imap'.at # "return" => imap'.result = "",
               imap.op.name = "get" => imap'.result # "ok"
        PROVE  CallTyped(imap') /\ imap'.op = imap.op
    <2>1. RowsTyped(imap') /\ Nothing(imap')
      BY <1>1, <1>3, <1>4, SameRowsTyped
    <2>2. PhaseTyped(imap')
      BY <1>3, <1>4, <2>1 DEF PhaseTyped, SameRows, ImapCommands
    <2> QED
      BY <1>1, <1>4, <2>1, <2>2 DEF CallTyped, SameRows
  <1>5. CASE ImapConnect
    <2>1. /\ SameRows(imap, imap') /\ imap'.view = imap.view /\ imap'.result = imap.result
          /\ imap'.at = "login" /\ imap'.conn = "notauth"
      BY <1>5 DEF ImapConnect, IsCall, CallFields, SameRows
    <2> QED
      BY <1>1, <1>3, <1>4, <2>1 DEF CallTyped, ImapCommands
  <1>6. CASE Login
    <2>1. /\ SameRows(imap, imap') /\ imap'.view = imap.view /\ imap'.result = imap.result
          /\ imap'.at = "select" /\ imap'.conn = "auth"
      BY <1>6 DEF Login, IsCall, CallFields, SameRows
    <2> QED
      BY <1>1, <1>3, <1>4, <2>1 DEF CallTyped, ImapCommands
  <1>7. CASE Select
    <2> DEFINE view == IF imap.op.name = "list" THEN View(imap.server) ELSE <<>>
               next == CASE imap.op.name = "mark" -> "store"
                         [] imap.op.name = "list" /\ view = <<>> -> "return"
                         [] OTHER -> "fetch"
    <2>1. /\ SameRows(imap, imap') /\ imap'.view = view /\ imap'.at = next
          /\ imap'.conn = IF imap.op.name = "mark" THEN "selected rw" ELSE "selected ro"
          /\ imap'.result = IF next = "return" THEN "ok" ELSE ""
      BY <1>7 DEF Select, IsCall, CallFields, SameRows
    <2>2. View(imap.server) \in Seq(Messages) /\ <<>> \in Seq(Messages)
      BY ViewIs
    <2>3. view \in Seq(Messages)
      BY <2>2
    <2>4. /\ next \in {"store", "fetch", "return"}
          /\ next = "store" => imap.op.name = "mark"
          /\ next = "fetch" => imap.op.name # "mark"
          /\ next = "return" => imap.op.name = "list"
      OBVIOUS
    <2> HIDE DEF view, next
    <2> QED
      BY <1>4, <2>1, <2>3, <2>4 DEF ImapCommands
  <1>8. CASE Store
    <2>1. /\ SameRows(imap, imap') /\ imap'.view = imap.view /\ imap'.result = imap.result
          /\ imap'.at = "stored" /\ imap'.conn = imap.conn /\ imap.at = "store"
      BY <1>8 DEF Store, IsCall, CallFields, SameRows
    <2> QED
      BY <1>1, <1>3, <1>4, <2>1 DEF CallTyped, PhaseTyped, ImapCommands
  <1>9. CASE StoreReplied
    <2>1. /\ SameRows(imap, imap') /\ imap'.view = imap.view /\ imap'.result = "ok"
          /\ imap'.at = "return" /\ imap'.conn = imap.conn /\ imap.at = "stored"
      BY <1>9 DEF StoreReplied, IsCall, CallFields, SameRows
    <2> QED
      BY <1>1, <1>4, <2>1 DEF CallTyped, PhaseTyped, ImapCommands
  <1>10. CASE ImapFails
    <2>1. PICK conn \in {imap.conn, "closed"} :
             imap' = [imap EXCEPT !.at = "return", !.result = "error", !.conn = conn]
      BY <1>10 DEF ImapFails
    <2>2. /\ SameRows(imap, imap') /\ imap'.view = imap.view /\ imap'.result = "error"
          /\ imap'.at = "return" /\ imap'.conn = conn
      BY <2>1 DEF IsCall, CallFields, SameRows
    <2> QED
      BY <1>1, <1>4, <2>2 DEF CallTyped
  <1> QED
    BY <1>5, <1>6, <1>7, <1>8, <1>9, <1>10

(* The reader and the goroutine of a FETCH.                                *)
LEMMA FetchTypes ==
    ASSUME PInv, imap # NotCalled, IsCall(imap),
           Fetch \/ Deliver \/ DeliverUnasked \/ FetchReturns \/ Receive \/ Fetched
    PROVE  CallTyped(imap') /\ imap'.op = imap.op
  <1>1. CallTyped(imap) /\ RowsTyped(imap) /\ PhaseTyped(imap)
    BY DEF PInv, CallTyped
  <1>2. /\ imap.at \in {"fetch", "fetching"} /\ imap.result = "" /\ imap.op.name # "mark"
        /\ imap.at = "fetch" => Nothing(imap)
    BY <1>1 DEF Fetch, Deliver, DeliverUnasked, FetchReturns, Receive, Fetched, PhaseTyped,
                ImapCommands
  <1>3. ChannelCap \in Nat /\ NoRow \in Rows /\ Messages \subseteq Rows
    BY ImapAssumption DEF ImapAssumption, Rows
  <1>4. imap.todo \in Seq(Messages) /\ imap.chan \in Seq(Rows) /\ imap.out \in Seq(Rows)
        /\ <<>> \in Seq(Rows) /\ Len(<<>>) = 0 /\ Len(imap.chan) \in Nat
    BY <1>1, LenProperties DEF RowsTyped
  <1>5. ASSUME imap'.server = imap.server, imap'.op = imap.op, imap'.view = imap.view,
               imap'.conn \in {imap.conn, "closed"}, imap'.done \in {"", "ok", "error"},
               imap'.result = "", imap'.at = "fetching", RowsTyped(imap')
        PROVE  CallTyped(imap') /\ imap'.op = imap.op
    <2>1. PhaseTyped(imap')
      BY <1>2, <1>5 DEF PhaseTyped, ImapCommands
    <2> QED
      BY <1>1, <1>5, <2>1 DEF CallTyped
  <1>6. CASE Fetch
    <2>1. /\ imap'.server = imap.server /\ imap'.op = imap.op /\ imap'.view = imap.view
          /\ imap'.conn = imap.conn /\ imap'.done = imap.done /\ imap'.result = imap.result
          /\ imap'.at = "fetching" /\ imap'.todo = Asked /\ imap'.chan = imap.chan
          /\ imap'.out = imap.out
      BY <1>6 DEF Fetch, IsCall, CallFields
    <2>2. imap'.chan = <<>> /\ imap'.out = <<>>
      BY <1>2, <1>6, <2>1 DEF Fetch, Nothing
    <2>3. /\ Asked \in Seq(Messages)
          /\ imap.op.name = "get" => Asked = <<>> \/ \E m \in Messages : Asked = <<m>>
      <3>1. CASE imap.op.name = "list"
        <4>1. imap.op.limit \in Nat /\ imap.view \in Seq(Messages)
          BY <1>1, <3>1, MailClientsAssumption DEF MailClientsAssumption, CallTyped, Ops
        <4> QED
          BY <3>1, <4>1, AskedForList
      <3>2. CASE imap.op.name # "list"
        <4>1. imap.op.uid \in Uids /\ imap.server = server
          BY <1>1, <3>2 DEF CallTyped, Ops
        <4>2. Asked = SetToSeq(GetMessage(server, imap.op.uid))
          BY <3>2, <4>1 DEF Asked
        <4>3. Asked = <<>> \/ \E m \in Messages : Asked = <<m>>
          BY <4>1, <4>2, FoundByUid
        <4>4. <<>> \in Seq(Messages) /\ \A m \in Messages : <<m>> \in Seq(Messages)
          OBVIOUS
        <4> QED
          BY <4>3, <4>4
      <3> QED
        BY <3>1, <3>2
    <2>4. imap.op.name = "get" => AtMostOne(imap')
      <3>1. imap'.todo = Asked
        BY <2>1
      <3> HIDE DEF Asked
      <3>2. ASSUME imap'.todo = <<>> PROVE AtMostOne(imap')
        BY <2>2, <3>2 DEF AtMostOne, Nothing
      <3>3. ASSUME NEW m \in Messages, imap'.todo = <<m>> PROVE AtMostOne(imap')
        BY <2>2, <3>3 DEF AtMostOne
      <3> QED
        BY <2>3, <3>1, <3>2, <3>3
    <2>5. imap'.chan \in Seq(Rows) /\ imap'.out \in Seq(Rows) /\ imap'.todo \in Seq(Messages)
          /\ Len(imap'.chan) <= ChannelCap + 1
      <3>1. 0 <= ChannelCap + 1
        BY <1>3
      <3>2. /\ imap'.chan \in Seq(Rows) /\ imap'.out \in Seq(Rows)
            /\ Len(imap'.chan) <= ChannelCap + 1
        BY <1>4, <2>2, <3>1
      <3>3. imap'.todo \in Seq(Messages)
        BY <2>1, <2>3
      <3> QED
        BY <3>2, <3>3
    <2>6. RowsTyped(imap')
      BY <2>1, <2>4, <2>5 DEF RowsTyped
    <2> QED
      BY <1>1, <1>2, <1>5, <2>1, <2>6 DEF CallTyped
  <1>7. CASE Deliver
    <2>1. /\ imap'.server = imap.server /\ imap'.op = imap.op /\ imap'.view = imap.view
          /\ imap'.conn = imap.conn /\ imap'.done = imap.done /\ imap'.result = imap.result
          /\ imap'.at = "fetching" /\ imap'.out = imap.out
          /\ imap'.todo = Tail(imap.todo) /\ imap'.chan = Append(imap.chan, Head(imap.todo))
      BY <1>7 DEF Deliver, IsCall, CallFields
    <2>2. imap.todo # <<>> /\ Len(imap.chan) <= ChannelCap
      <3>1. imap.todo # <<>> /\ ~(Len(imap.chan) > ChannelCap)
        BY <1>7 DEF Deliver, Blocked
      <3> QED
        BY <1>3, <1>4, <3>1
    <2>3. imap'.todo \in Seq(Messages) /\ imap'.chan \in Seq(Rows)
          /\ Len(imap'.chan) <= ChannelCap + 1
      BY <1>3, <1>4, <2>1, <2>2, HeadMoves
    <2>4. imap.op.name = "get" => AtMostOne(imap')
      <3> SUFFICES ASSUME imap.op.name = "get" PROVE AtMostOne(imap')
        OBVIOUS
      <3>1. PICK m \in Messages : imap.todo = <<m>> /\ imap.chan = <<>> /\ imap.out = <<>>
        BY <1>1, <2>2 DEF RowsTyped, AtMostOne, Nothing
      <3>2. imap'.todo = <<>> /\ imap'.chan = <<m>> /\ imap'.out = <<>>
        BY <2>1, <3>1
      <3> QED
        BY <3>2 DEF AtMostOne
    <2>5. RowsTyped(imap')
      BY <1>4, <2>1, <2>3, <2>4 DEF RowsTyped
    <2> QED
      BY <1>1, <1>2, <1>5, <2>1, <2>5 DEF CallTyped
  <1>8. CASE DeliverUnasked
    <2>1. /\ imap'.server = imap.server /\ imap'.op = imap.op /\ imap'.view = imap.view
          /\ imap'.conn = imap.conn /\ imap'.done = imap.done /\ imap'.result = imap.result
          /\ imap'.at = "fetching" /\ imap'.out = imap.out /\ imap'.todo = imap.todo
          /\ imap'.chan = Append(imap.chan, NoRow)
      BY <1>8 DEF DeliverUnasked, IsCall, CallFields
    <2>2. imap.op.name # "get" /\ Len(imap.chan) <= ChannelCap
      <3>1. imap.op.name = "list" /\ ~(Len(imap.chan) > ChannelCap)
        BY <1>8 DEF DeliverUnasked, Blocked
      <3> QED
        BY <1>3, <1>4, <3>1
    <2>3. RowsTyped(imap')
      BY <1>3, <1>4, <2>1, <2>2, AppendProperties DEF RowsTyped
    <2> QED
      BY <1>1, <1>2, <1>5, <2>1, <2>3 DEF CallTyped
  <1>9. CASE FetchReturns
    <2>1. /\ imap'.server = imap.server /\ imap'.op = imap.op /\ imap'.view = imap.view
          /\ imap'.conn \in {imap.conn, "closed"} /\ imap'.done \in {"ok", "error"}
          /\ imap'.result = imap.result /\ imap'.at = "fetching" /\ imap'.out = imap.out
          /\ imap'.todo = imap.todo /\ imap'.chan = imap.chan
      BY <1>9 DEF FetchReturns, IsCall, CallFields
    <2>2. RowsTyped(imap')
      BY <1>1, <2>1 DEF RowsTyped, AtMostOne, Nothing
    <2> QED
      BY <1>1, <1>2, <1>5, <2>1, <2>2 DEF CallTyped
  <1>10. CASE Receive
    <2>1. /\ imap'.server = imap.server /\ imap'.op = imap.op /\ imap'.view = imap.view
          /\ imap'.conn = imap.conn /\ imap'.done = imap.done /\ imap'.result = imap.result
          /\ imap'.at = "fetching" /\ imap'.todo = imap.todo
          /\ imap'.chan = Tail(imap.chan) /\ imap'.out = Append(imap.out, Head(imap.chan))
      BY <1>10 DEF Receive, IsCall, CallFields
    <2>2. imap.chan # <<>>
      BY <1>10 DEF Receive
    <2>3. imap'.chan \in Seq(Rows) /\ imap'.out \in Seq(Rows)
      BY <1>4, <2>1, <2>2, HeadMoves
    <2>4. Len(imap'.chan) <= ChannelCap + 1
      BY <1>1, <1>3, <1>4, <2>1, <2>2, HeadTailProperties DEF RowsTyped
    <2>5. imap.op.name = "get" => AtMostOne(imap')
      <3> SUFFICES ASSUME imap.op.name = "get" PROVE AtMostOne(imap')
        OBVIOUS
      <3>1. PICK m \in Messages : imap.todo = <<>> /\ imap.chan = <<m>> /\ imap.out = <<>>
        BY <1>1, <2>2 DEF RowsTyped, AtMostOne, Nothing
      <3>2. imap'.todo = <<>> /\ imap'.chan = <<>> /\ imap'.out = <<m>>
        BY <2>1, <3>1
      <3> QED
        BY <3>2 DEF AtMostOne
    <2>6. RowsTyped(imap')
      BY <1>4, <2>1, <2>3, <2>4, <2>5 DEF RowsTyped
    <2> QED
      BY <1>1, <1>2, <1>5, <2>1, <2>6 DEF CallTyped
  <1>11. CASE Fetched
    <2>1. PICK r \in {"error", "ok", "missing"} :
             /\ imap' = [imap EXCEPT !.at = "return", !.result = r, !.out = Reverse(imap.out)]
             /\ imap.op.name = "get" /\ r = "ok" => imap.out # <<>>
      BY <1>11 DEF Fetched
    <2>2. /\ imap'.server = imap.server /\ imap'.op = imap.op /\ imap'.view = imap.view
          /\ imap'.conn = imap.conn /\ imap'.done = imap.done /\ imap'.result = r
          /\ imap'.at = "return" /\ imap'.todo = imap.todo
          /\ imap'.chan = imap.chan /\ imap'.out = Reverse(imap.out)
      BY <2>1 DEF IsCall, CallFields
    <2>3. imap'.out \in Seq(Rows) /\ (imap'.out = <<>> <=> imap.out = <<>>)
      BY <1>4, <2>2, ReverseIs, EmptySeq
    <2>4. imap.op.name = "get" => AtMostOne(imap')
      <3>1. \A m : Reverse(<<m>>) = <<m>> /\ Reverse(<<>>) = <<>>
        BY DEF Reverse
      <3> QED
        BY <1>1, <2>2, <3>1 DEF RowsTyped, AtMostOne, Nothing
    <2>5. RowsTyped(imap')
      BY <1>1, <2>2, <2>3, <2>4 DEF RowsTyped
    <2>6. PhaseTyped(imap')
      BY <2>1, <2>2, <2>3 DEF PhaseTyped, ImapCommands
    <2> QED
      BY <1>1, <2>2, <2>5, <2>6 DEF CallTyped
  <1> QED
    BY <1>6, <1>7, <1>8, <1>9, <1>10, <1>11

(* The deferred calls and the return.                                      *)
LEMMA EndTypes ==
    ASSUME PInv, imap # NotCalled, IsCall(imap), Logout \/ Close \/ Return
    PROVE  CallTyped(imap') /\ imap'.op = imap.op
  <1>1. CallTyped(imap) /\ RowsTyped(imap) /\ PhaseTyped(imap)
    BY DEF PInv, CallTyped
  <1>2. /\ SameRows(imap, imap') /\ imap'.view = imap.view /\ imap'.result = imap.result
        /\ imap.at = "return" /\ imap'.at \in {"return", "returned"}
        /\ imap'.conn \in {imap.conn, "closed", "auth"}
    BY DEF Logout, Close, Return, SameRows, IsCall, CallFields
  <1>3. RowsTyped(imap')
    BY <1>1, <1>2, SameRowsTyped
  <1>4. PhaseTyped(imap')
    BY <1>1, <1>2 DEF PhaseTyped, SameRows, ImapCommands
  <1> QED
    BY <1>1, <1>2, <1>3, <1>4 DEF CallTyped, SameRows

(* What a step of a call changes: not the mailboxes but for the STORE.     *)
LEMMA ImapKeepsMailboxes ==
    ASSUME IInv, PInv, ImapStep
    PROVE  /\ imap # NotCalled /\ IsCall(imap)
           /\ UNCHANGED <<place, uidNext, deleted>> /\ MailServerTypeOK' /\ Numbered'
           /\ UNCHANGED mailVars \/ Store
  <1>1. imap.at # "idle"
    BY DEF ImapStep, ImapConnect, Login, Select, Fetch, Deliver, DeliverUnasked, FetchReturns,
           Receive, Fetched, Store, StoreReplied, ImapFails, ImapCommands, Logout, Close, Return
  <1>2. imap # NotCalled /\ IsCall(imap)
    BY <1>1 DEF IInv, CallGood, NotCalled
  <1>3. CallTyped(imap)
    BY <1>2 DEF PInv
  <1>4. UNCHANGED mailVars \/ Store
    <2>1. CASE Close
      <3>1. imap.conn # "selected rw"
        <4>1. imap.at = "return" /\ imap.defers # <<>> /\ Head(imap.defers) = "close"
          BY <2>1 DEF Close
        <4>2. Head(deferred) # "close"
          BY DEF deferred
        <4> QED
          BY <4>1, <4>2 DEF IInv, CallGood
      <3> QED
        BY <2>1, <3>1 DEF Close
    <2> QED
      BY <2>1 DEF ImapStep, ImapConnect, Login, Select, Fetch, Deliver, DeliverUnasked,
         FetchReturns, Receive, Fetched, StoreReplied, ImapFails, Logout, Return
  <1>5. UNCHANGED deleted
    BY DEF ImapStep, ImapConnect, Login, Select, Fetch, Deliver, DeliverUnasked, FetchReturns,
           Receive, Fetched, Store, StoreReplied, ImapFails, Logout, Close, Return
  <1>6. CASE UNCHANGED mailVars
    BY <1>2, <1>5, <1>6 DEF mailVars, PInv, MailServerTypeOK, Numbered
  <1>7. CASE Store
    <2>1. imap.op.name = "mark"
      BY <1>3, <1>7 DEF Store, CallTyped, PhaseTyped
    <2>2. imap.op.flag \in Flags
      BY <1>3, <2>1 DEF CallTyped, Ops
    <2>3. /\ flags' = [m \in Messages |-> IF m \in At(imap.server, imap.op.uid)
                                          THEN flags[m] \cup {imap.op.flag} ELSE flags[m]]
          /\ UNCHANGED <<place, uidNext, renumbered>>
      BY <1>7 DEF Store, UidStore
    <2>4. flags' \in [Messages -> SUBSET Flags]
      BY <2>2, <2>3 DEF PInv, MailServerTypeOK
    <2>5. MailServerTypeOK'
      BY <2>3, <2>4 DEF PInv, MailServerTypeOK
    <2>6. Numbered'
      BY <2>3 DEF PInv, Numbered
    <2> QED
      BY <1>2, <1>5, <1>7, <2>3, <2>5, <2>6
  <1> QED
    BY <1>4, <1>6, <1>7

(* A step of a call.                                                       *)
LEMMA ImapTypes ==
    ASSUME IInv, PInv, ImapStep
    PROVE  imap' # NotCalled /\ CallTyped(imap') /\ imap'.op = imap.op
  <1>1. imap # NotCalled /\ IsCall(imap)
    BY ImapKeepsMailboxes
  <1>2. CallTyped(imap') /\ imap'.op = imap.op
    BY <1>1, CommandTypes, FetchTypes, EndTypes DEF ImapStep
  <1>3. imap'.at # "idle"
    BY <1>2 DEF CallTyped, PhaseTyped, ImapCommands
  <1> QED
    BY <1>2, <1>3 DEF NotCalled
-----------------------------------------------------------------------------
(* Send.                                                                   *)

(* The recipients of a message that validateMessage accepts.               *)
LEMMA ValidMessage ==
    ASSUME NEW form, IsForm(form), validateMessage(Message(form))
    PROVE  /\ form.to \in Seq(Addresses) /\ form.cc \in Seq(Addresses) /\ form.to # <<>>
           /\ messageRecipients(Message(form)) = form.to \o form.cc
           /\ messageRecipients(Message(form)) \in Seq(Addresses)
  <1>1. form.to \in Lists /\ form.cc \in Lists
    BY DEF IsForm
  <1>2. Message(form).to = form.to /\ Message(form).cc = form.cc
    BY DEF Message
  <1>3. Parses(form.to) /\ (form.cc # <<>> => Parses(form.cc))
    BY <1>2 DEF validateMessage
  <1>4. form.to \in Seq(Addresses) /\ form.cc \in Seq(Addresses)
    <2>1. <<>> \in Seq(Addresses)
      OBVIOUS
    <2> QED
      BY <1>1, <1>3, <2>1, ParsedList
  <1>5. form.to # <<>>
    BY <1>3 DEF Parses
  <1>6. messageRecipients(Message(form)) = form.to \o form.cc
    BY <1>2 DEF messageRecipients
  <1>7. form.to \o form.cc \in Seq(Addresses)
    BY <1>4, ConcatProperties
  <1> QED
    BY <1>4, <1>5, <1>6, <1>7

(* A Send that begins.                                                     *)
LEMMA SendBegins ==
    ASSUME NEW account, NEW form, NEW original,
           Send(account, Message(form), [form |-> form, original |-> original])
    PROVE  smtp' # Idle /\ SendGood(smtp') /\ smtp'.id = [form |-> form, original |-> original]
  <1>1. PICK id : id = [form |-> form, original |-> original]
    OBVIOUS
  <1>2. PICK s : s = [at |-> IF validateMessage(Message(form)) THEN "connect" ELSE "error",
                      account |-> account, message |-> Message(form), id |-> id,
                      tls |-> FALSE, named |-> <<>>, taken |-> FALSE]
    OBVIOUS
  <1>3. /\ s.at = IF validateMessage(Message(form)) THEN "connect" ELSE "error"
        /\ s.message = Message(form) /\ s.id = id /\ s.named = <<>> /\ id.form = form
    BY <1>1, <1>2
  <1>4. IsSend(s)
    BY <1>2 DEF IsSend, SendFields
  <1>5. s # Idle
    BY <1>3 DEF Idle
  <1>6. SendGood(s)
    BY <1>3, <1>4 DEF SendGood, SmtpCommands, SmtpReturned
  <1>7. smtp' = s
    BY <1>1, <1>2 DEF Send
  <1> QED
    BY <1>1, <1>3, <1>5, <1>6, <1>7

(* A step of Send: recipients are named in their order, and what the       *)
(* server takes has all of them.                                           *)
LEMMA SendTypes ==
    ASSUME PInv, SmtpStep, UNCHANGED <<page, header>>
    PROVE  /\ smtp # Idle /\ smtp' # Idle
           /\ SendGood(smtp') /\ smtp'.id = smtp.id /\ DeliveredGood'
  <1>1. smtp # Idle
    BY DEF SmtpStep, SmtpConnect, StartTLS, Auth, Mail, Rcpt, Data, Take, Taken250, Quit,
           SmtpFails, SmtpCommands, Idle
  <1>2. /\ SendGood(smtp) /\ IsSend(smtp) /\ FormGood(smtp.id.form)
        /\ smtp.message = Message(smtp.id.form)
    <2>1. SendGood(smtp) /\ smtp.id = [form |-> page.form, original |-> page.original]
          /\ page.pc = "send" /\ PageGood(page)
      BY <1>1 DEF PInv
    <2> QED
      BY <2>1 DEF SendGood, PageGood, WithForm
  <1>3. smtp.at # "error"
    BY DEF SmtpStep, SmtpConnect, StartTLS, Auth, Mail, Rcpt, Data, Take, Taken250, Quit,
           SmtpFails, SmtpCommands
  <1>4. validateMessage(smtp.message)
    BY <1>2, <1>3 DEF SendGood
  <1> DEFINE all == messageRecipients(smtp.message)
  <1>5. all \in Seq(Addresses)
    BY <1>2, <1>4, ValidMessage DEF FormGood
  <1>6. ASSUME smtp'.at \in SmtpCommands \cup SmtpReturned, IsSend(smtp'),
               smtp'.message = smtp.message, smtp'.id = smtp.id,
               smtp'.at \in {"connect", "starttls", "auth", "mail"} => smtp'.named = <<>>,
               smtp'.at = "rcpt" => \E n \in 0..Len(all) : smtp'.named = SubSeq(all, 1, n),
               smtp'.at = "body" => smtp'.named = all
        PROVE  SendGood(smtp') /\ smtp' # Idle /\ smtp'.id = smtp.id
    <2>1. smtp'.at # "idle"
      BY <1>6 DEF SmtpCommands, SmtpReturned
    <2> QED
      BY <1>2, <1>4, <1>6, <2>1 DEF SendGood, Idle
  <1>7. DeliveredGood' \/ Take
    BY DEF SmtpStep, SmtpConnect, StartTLS, Auth, Mail, Rcpt, Data, Taken250, Quit, SmtpFails,
           PInv, DeliveredGood, FormGood, IsAnswer
  <1>8. CASE SmtpConnect \/ StartTLS \/ Auth
    <2>1. /\ smtp.at \in {"connect", "starttls", "auth"}
          /\ smtp'.at \in {"starttls", "auth", "mail", "error"} /\ IsSend(smtp')
          /\ smtp'.message = smtp.message /\ smtp'.id = smtp.id /\ smtp'.named = smtp.named
      BY <1>2, <1>8 DEF SmtpConnect, StartTLS, Auth, SmtpGoes, IsSend, SendFields
    <2>2. smtp.named = <<>>
      BY <1>2, <2>1 DEF SendGood
    <2> QED
      BY <1>1, <1>6, <1>7, <1>8, <2>1, <2>2
         DEF SmtpCommands, SmtpReturned, SmtpConnect, StartTLS, Auth, Take
  <1>9. CASE Mail
    <2>1. /\ smtp'.at = "rcpt" /\ IsSend(smtp') /\ smtp.at = "mail"
          /\ smtp'.message = smtp.message /\ smtp'.id = smtp.id /\ smtp'.named = smtp.named
      BY <1>2, <1>9 DEF Mail, SmtpGoes, IsSend, SendFields
    <2>2. smtp'.named = SubSeq(all, 1, 0) /\ 0 \in 0..Len(all)
      <3>1. smtp'.named = <<>>
        BY <1>2, <2>1 DEF SendGood
      <3>2. Len(all) \in Nat
        BY <1>5, LenProperties
      <3> HIDE DEF all
      <3>3. SubSeq(all, 1, 0) = <<>>
        BY SubSeqEmpty
      <3> QED
        BY <3>1, <3>2, <3>3
    <2>3. \E n \in 0..Len(all) : smtp'.named = SubSeq(all, 1, n)
      BY <2>2
    <2> QED
      BY <1>1, <1>6, <1>7, <2>1, <2>3 DEF SmtpCommands, SmtpReturned, Take
  <1>10. CASE Rcpt \/ Data
    <2>1. smtp.at = "rcpt"
      BY <1>10 DEF Rcpt, Data
    <2>2. PICK n \in 0..Len(all) : smtp.named = SubSeq(all, 1, n)
      BY <1>2, <2>1 DEF SendGood
    <2>3. ToName(smtp) = SubSeq(all, Len(smtp.named) + 1, Len(all))
      BY DEF ToName
    <2>4. /\ ToName(smtp) = <<>> => smtp.named = all
          /\ ToName(smtp) # <<>> =>
                n + 1 \in 0..Len(all) /\ Append(smtp.named, Head(ToName(smtp))) = SubSeq(all, 1, n + 1)
      <3> HIDE DEF all
      <3> QED
        BY <1>5, <2>2, <2>3, NextOfRest
    <2>5. CASE Rcpt
      <3>1. /\ smtp'.at = "rcpt" /\ IsSend(smtp') /\ ToName(smtp) # <<>>
            /\ smtp'.message = smtp.message /\ smtp'.id = smtp.id
            /\ smtp'.named = Append(smtp.named, Head(ToName(smtp)))
        BY <1>2, <2>1, <2>5 DEF Rcpt, IsSend, SendFields
      <3>2. \E k \in 0..Len(all) : smtp'.named = SubSeq(all, 1, k)
        BY <2>4, <3>1
      <3> QED
        BY <1>1, <1>6, <1>7, <2>1, <3>1, <3>2 DEF SmtpCommands, SmtpReturned, Take
    <2>6. CASE Data
      <3>1. /\ smtp'.at = "body" /\ IsSend(smtp') /\ ToName(smtp) = <<>>
            /\ smtp'.message = smtp.message /\ smtp'.id = smtp.id /\ smtp'.named = smtp.named
        BY <1>2, <2>6 DEF Data, SmtpGoes, IsSend, SendFields
      <3> QED
        BY <1>1, <1>6, <1>7, <2>1, <2>4, <3>1 DEF SmtpCommands, SmtpReturned, Take
    <2> QED
      BY <1>10, <2>5, <2>6
  <1>11. CASE Take
    <2>1. /\ smtp'.at = "taken" /\ IsSend(smtp') /\ smtp.at = "body"
          /\ smtp'.message = smtp.message /\ smtp'.id = smtp.id
          /\ delivered' = delivered \cup {[id |-> smtp.id, named |-> smtp.named]}
      BY <1>2, <1>11 DEF Take, IsSend, SendFields
    <2>2. smtp.named = all
      BY <1>2, <2>1 DEF SendGood
    <2>3. DeliveredGood'
      <3> SUFFICES ASSUME NEW d \in delivered'
                   PROVE  /\ FormGood(d.id.form)'
                          /\ validateMessage(Message(d.id.form))
                          /\ d.named = messageRecipients(Message(d.id.form))
        BY DEF DeliveredGood
      <3>1. CASE d \in delivered
        BY <3>1 DEF PInv, DeliveredGood, FormGood, IsAnswer
      <3>2. CASE d = [id |-> smtp.id, named |-> smtp.named]
        BY <1>2, <1>4, <2>2, <3>2 DEF FormGood, IsAnswer
      <3> QED
        BY <2>1, <3>1, <3>2
    <2> QED
      BY <1>1, <1>6, <2>1, <2>3 DEF SmtpCommands
  <1>12. CASE Taken250 \/ Quit \/ SmtpFails
    <2>1. /\ smtp'.at \in {"quit", "ok", "error"} /\ IsSend(smtp')
          /\ smtp'.message = smtp.message /\ smtp'.id = smtp.id
      BY <1>2, <1>12 DEF Taken250, Quit, SmtpFails, SmtpGoes, IsSend, SendFields
    <2>2. DeliveredGood'
      BY <1>12 DEF Taken250, Quit, SmtpFails, PInv, DeliveredGood, FormGood, IsAnswer
    <2> QED
      BY <1>1, <1>6, <2>1, <2>2 DEF SmtpCommands, SmtpReturned
  <1> QED
    BY <1>8, <1>9, <1>10, <1>11, <1>12 DEF SmtpStep
-----------------------------------------------------------------------------
(* The pages.                                                              *)

\* What the handlers leave alone.
Around == UNCHANGED <<mailVars, deleted, header, delivered>>

(* Steps of a handler, in terms of the page, the call and the Send.        *)
LEMMA PageStep ==
    ASSUME PInv, Around, PageGood(page'),
           imap' # NotCalled => CallTyped(imap'),
           IF imap' = NotCalled THEN CallOf(page') = "none" ELSE imap'.op.name = CallOf(page'),
           smtp' # Idle => SendGood(smtp')
                             /\ smtp'.id = [form |-> page'.form, original |-> page'.original],
           page'.pc = "send" <=> smtp' # Idle
    PROVE  PInv'
  <1>1. MailServerTypeOK' /\ Numbered' /\ deleted' \subseteq Messages
        /\ header' \in [Messages -> Headers]
    BY DEF Around, mailVars, PInv, MailServerTypeOK, Numbered
  <1>2. PageGood(page)'
    BY DEF PageGood, FormGood, IsAnswer, Around
  <1>3. DeliveredGood'
    BY DEF Around, PInv, DeliveredGood, FormGood, IsAnswer
  <1> QED
    BY <1>1, <1>2, <1>3 DEF PInv

(* A page that waits for a call begins it.                                 *)
LEMMA CallPages ==
    ASSUME PInv, handleMailbox \/ handleMessage \/ OpenForm
    PROVE  PInv'
  <1>1. Around /\ UNCHANGED smtp /\ smtp = Idle
    <2>1. /\ page.pc = "closed" /\ UNCHANGED <<mailVars, smtpVars, header>>
          /\ \E op : Call(server, setting.imap, op)
      <3>1. CASE handleMailbox
        BY <3>1 DEF handleMailbox, ListMessages, NoPage
      <3>2. CASE handleMessage
        BY <3>2 DEF handleMessage, GetMessageCall, NoPage
      <3>3. CASE OpenForm
        BY <3>3 DEF OpenForm, GetMessageCall, NoPage
      <3> QED
        BY <3>1, <3>2, <3>3
    <2>2. UNCHANGED deleted /\ UNCHANGED <<smtp, delivered>>
      BY <2>1 DEF Call, smtpVars
    <2>3. smtp = Idle
      BY <2>1 DEF PInv
    <2> QED
      BY <2>1, <2>2, <2>3 DEF Around
  <1>2. PICK op \in Ops : /\ Call(server, setting.imap, op) /\ op.name = CallOf(page')
                          /\ PageGood(page') /\ page'.pc # "send"
    <2>1. CASE handleMailbox
      <3>1. PICK limit \in Limits : Call(server, setting.imap, [name |-> "list", limit |-> limit])
        BY <2>1 DEF handleMailbox, ListMessages
      <3>2. page' = [pc |-> "list"]
        BY <2>1 DEF handleMailbox, Goes
      <3>3. [name |-> "list", limit |-> limit] \in Ops
        BY DEF Ops
      <3>4. PageGood(page') /\ page'.pc # "send" /\ CallOf(page') = "list"
        BY <3>2 DEF PageGood, Working, WithForm, CallOf
      <3> QED
        BY <3>1, <3>3, <3>4
    <2>2. CASE handleMessage
      <3>1. PICK uid \in Uids : Call(server, setting.imap, [name |-> "get", uid |-> uid])
        BY <2>2 DEF handleMessage, GetMessageCall
      <3>2. page' = [pc |-> "read"]
        BY <2>2 DEF handleMessage, Goes
      <3>3. [name |-> "get", uid |-> uid] \in Ops
        BY DEF Ops
      <3>4. PageGood(page') /\ page'.pc # "send" /\ CallOf(page') = "get"
        BY <3>2 DEF PageGood, Working, WithForm, CallOf
      <3> QED
        BY <3>1, <3>3, <3>4
    <2>3. CASE OpenForm
      <3>1. PICK mode \in Modes \ {"new"}, uid \in Uids :
               /\ Call(server, setting.imap, [name |-> "get", uid |-> uid])
               /\ page' = [pc |-> "opening", mode |-> mode, uid |-> uid]
        BY <2>3 DEF OpenForm, GetMessageCall, Goes
      <3>2. [name |-> "get", uid |-> uid] \in Ops
        BY DEF Ops
      <3>3. PageGood(page') /\ page'.pc # "send" /\ CallOf(page') = "get"
        BY <3>1 DEF PageGood, Working, WithForm, CallOf
      <3> QED
        BY <3>1, <3>2, <3>3
    <2> QED
      BY <2>1, <2>2, <2>3
  <1>3. imap' # NotCalled /\ CallTyped(imap') /\ imap'.op = op
    BY <1>2, CallTypedBegins
  <1> QED
    BY <1>1, <1>2, <1>3, PageStep

\* Pages that have neither a call nor a Send under way.
Still(p) == CallOf(p) = "none" /\ p.pc # "send"

(* A resting page waits for nothing.                                       *)
LEMMA RestingIsStill ==
    ASSUME NEW p, p.pc \in Resting
    PROVE  Still(p)
  BY DEF Still, Resting, CallOf

(* A page that a handler leaves behind, its call being over.               *)
LEMMA CallOver ==
    ASSUME PInv, Around, ImapReset, UNCHANGED smtp, smtp = Idle,
           PageGood(page'), page'.pc \in Resting
    PROVE  PInv'
  <1>1. imap' = NotCalled /\ Still(page')
    BY RestingIsStill DEF ImapReset
  <1> QED
    BY <1>1, PageStep DEF Still

(* A call is under way where a page waits for its return.                  *)
LEMMA Awaited ==
    ASSUME PInv, imap.at = "returned"
    PROVE  imap # NotCalled /\ CallTyped(imap) /\ imap.op.name = CallOf(page)
  <1>1. imap # NotCalled
    BY DEF NotCalled
  <1> QED
    BY <1>1 DEF PInv

(* The message that GetMessage has found.                                  *)
LEMMA FoundMessage ==
    ASSUME PInv, imap.at = "returned", imap.op.name = "get", imap.result = "ok"
    PROVE  imap.out[1] \in Messages /\ Len(imap.out) = 1
  <1>1. CallTyped(imap)
    BY Awaited
  <1>2. AtMostOne(imap) /\ imap.out # <<>>
    BY <1>1 DEF CallTyped, RowsTyped, PhaseTyped
  <1>3. PICK m \in Messages : imap.out = <<m>>
    BY <1>2 DEF AtMostOne, Nothing
  <1> QED
    BY <1>3

(* The list, the message and the form that are shown.                      *)
LEMMA ShownPages ==
    ASSUME PInv, ShowList \/ ShowMessage \/ ShowForm
    PROVE  PInv'
  <1>1. Around /\ ImapReset /\ UNCHANGED smtp /\ smtp = Idle
    BY DEF ShowList, ShowMessage, ShowForm, ImapReset, Around, smtpVars, PInv
  <1>2. CASE ShowList
    <2>1. page'.pc \in {"listed", "error"}
      BY <1>2 DEF ShowList, Goes
    <2>2. PageGood(page') /\ page'.pc \in Resting
      BY <2>1 DEF PageGood, Resting, WithForm
    <2> QED
      BY <1>1, <2>2, CallOver
  <1>3. CASE ShowMessage
    <2>1. page'.pc \in {"message", "missing", "error"}
      BY <1>3 DEF ShowMessage, Goes
    <2>2. PageGood(page') /\ page'.pc \in Resting
      BY <2>1 DEF PageGood, Resting, WithForm
    <2> QED
      BY <1>1, <2>2, CallOver
  <1>4. CASE ShowForm
    <2>1. /\ page.pc = "opening" /\ imap.at = "returned"
          /\ page.mode \in {"reply", "reply-all", "forward"} /\ page.uid \in Uids
      BY <1>4 DEF ShowForm, PInv, PageGood, Modes
    <2>2. CASE imap.result = "ok"
      <3>1. imap.out[1] \in Messages
        <4>1. imap.op.name = "get"
          BY <2>1, Awaited DEF CallOf
        <4> QED
          BY <2>1, <2>2, <4>1, FoundMessage
      <3> DEFINE p == Proposed(page.mode, header[imap.out[1]], Self)
      <3>2. p.to \in Lists /\ p.cc \in Lists
        <4>1. header[imap.out[1]] \in Headers /\ Self \in Addresses
          BY <3>1, MailClientsAssumption DEF MailClientsAssumption, PInv
        <4> QED
          BY <2>1, <4>1, ProposedLists
      <3>3. page' = [pc |-> "form", form |-> [mode |-> page.mode, uid |-> page.uid,
                       about |-> imap.out[1], to |-> p.to, cc |-> p.cc]]
        BY <1>4, <2>2 DEF ShowForm, Goes
      <3>4. page'.pc = "form" /\ page'.form = [mode |-> page.mode, uid |-> page.uid,
                       about |-> imap.out[1], to |-> p.to, cc |-> p.cc]
        BY <3>3
      <3>5. IsAnswer(page'.form)
        BY <3>4 DEF IsAnswer
      <3>6. IsForm(page'.form)
        <4> HIDE DEF p
        <4> QED
          BY <2>1, <3>1, <3>2, <3>4 DEF IsForm, Modes
      <3>7. PageGood(page') /\ page'.pc \in Resting
        BY <3>4, <3>5, <3>6 DEF PageGood, Resting, WithForm, FormGood
      <3> QED
        BY <1>1, <3>7, CallOver
    <2>3. CASE imap.result # "ok"
      <3>1. page'.pc = "closed"
        BY <1>4, <2>3 DEF ShowForm, Goes, NoPage
      <3>2. PageGood(page') /\ page'.pc \in Resting
        BY <3>1 DEF PageGood, Resting, WithForm
      <3> QED
        BY <1>1, <3>2, CallOver
    <2> QED
      BY <2>2, <2>3
  <1> QED
    BY <1>2, <1>3, <1>4

(* A form that is opened, a page that is left.                             *)
LEMMA StillPages ==
    ASSUME PInv, handleNewMessage \/ Leave
    PROVE  PInv'
  <1>1. Around /\ UNCHANGED <<imap, smtp>>
    BY DEF handleNewMessage, Leave, imapVars, smtpVars, Around
  <1>2. page.pc \in Resting
    BY DEF handleNewMessage, Leave, NoPage, Resting
  <1>3. imap = NotCalled /\ smtp = Idle
    <2>1. Still(page)
      BY <1>2, RestingIsStill
    <2>2. imap # NotCalled => imap.op.name \in {"list", "get", "mark"}
      BY DEF PInv, CallTyped, Ops
    <2> QED
      BY <2>1, <2>2 DEF PInv, Still
  <1>4. PageGood(page') /\ page'.pc \in Resting
    <2>1. CASE handleNewMessage
      <3>1. page'.pc = "form" /\ page'.form = [mode |-> "new", to |-> <<>>, cc |-> <<>>]
        BY <2>1 DEF handleNewMessage, Goes
      <3>2. <<>> \in Lists
        BY DEF Lists
      <3>3. FormGood(page'.form)
        BY <3>1, <3>2 DEF FormGood, IsForm, IsAnswer, Modes
      <3> QED
        BY <3>1, <3>3 DEF PageGood, Resting, WithForm
    <2>2. CASE Leave
      BY <2>2 DEF Leave, Goes, NoPage, PageGood, Resting, WithForm
    <2> QED
      BY <2>1, <2>2
  <1>5. Still(page')
    BY <1>4, RestingIsStill
  <1> QED
    BY <1>1, <1>3, <1>4, <1>5, PageStep DEF Still

(* handleSendMessage up to the Send.                                       *)
LEMMA SubmittedPages ==
    ASSUME PInv, Submit \/ NewLoaded \/ Loaded
    PROVE  PInv'
  <1>1. CASE Submit
    <2>1. /\ page.pc = "form" /\ FormGood(page.form) /\ UNCHANGED smtp /\ smtp = Idle
          /\ imap = NotCalled
      <3>1. page.pc = "form" /\ UNCHANGED smtp
        BY <1>1 DEF Submit, smtpVars
      <3>2. Still(page)
        BY <3>1, RestingIsStill DEF Resting
      <3>3. imap # NotCalled => imap.op.name \in {"list", "get", "mark"}
        BY DEF PInv, CallTyped, Ops
      <3> QED
        BY <3>1, <3>2, <3>3 DEF PInv, PageGood, WithForm, Still
    <2>2. PICK form \in Filled(page.form) :
             /\ page' = [pc |-> "load", form |-> form]
             /\ IF form.mode = "new" THEN UNCHANGED imapVars
                ELSE Call(server, setting.imap, [name |-> "get", uid |-> form.uid])
      BY <1>1 DEF Submit, Goes, GetMessageCall
    <2>3. FormGood(form)
      <3>1. CASE form = page.form
        BY <2>1, <3>1
      <3>2. CASE form # page.form
        <4>1. /\ page.form.to = <<>>
              /\ \E t \in Typed : form = [page.form EXCEPT !.to = t.to, !.cc = t.cc]
          BY <2>2, <3>2 DEF Filled
        <4>2. PICK t \in Typed : form = [page.form EXCEPT !.to = t.to, !.cc = t.cc]
          BY <4>1
        <4>3. t.to \in Lists /\ t.cc \in Lists
          BY MailClientsAssumption DEF MailClientsAssumption
        <4>4. CASE page.form.mode = "new"
          <5>1. PICK a, b : page.form = [mode |-> "new", to |-> a, cc |-> b]
            BY <2>1, <4>4 DEF FormGood, IsForm
          <5>2. /\ form = [f \in {"mode", "to", "cc"} |-> form[f]]
                /\ form.mode = "new" /\ form.to = t.to /\ form.cc = t.cc
            <6>1. form = [f \in {"mode", "to", "cc"} |-> form[f]]
              BY <4>2, <5>1
            <6>2. form.mode = "new" /\ form.to = t.to /\ form.cc = t.cc
              BY <4>2, <5>1
            <6> QED
              BY <6>1, <6>2
          <5>3. form = [mode |-> "new", to |-> form.to, cc |-> form.cc]
            BY <5>2
          <5> QED
            BY <4>3, <5>2, <5>3 DEF FormGood, IsForm, IsAnswer, Modes
        <4>5. CASE page.form.mode # "new"
          <5>1. /\ page.form = [mode |-> page.form.mode, uid |-> page.form.uid,
                               about |-> page.form.about, to |-> page.form.to,
                               cc |-> page.form.cc]
                /\ page.form.mode \in Modes /\ page.form.uid \in Uids
                /\ page.form.about \in Messages
            BY <2>1, <4>5 DEF FormGood, IsForm
          <5>2. form = [mode |-> page.form.mode, uid |-> page.form.uid,
                        about |-> page.form.about, to |-> t.to, cc |-> t.cc]
            BY <4>2, <5>1
          <5>3. /\ form.mode = page.form.mode /\ form.uid = page.form.uid
                /\ form.about = page.form.about /\ form.to = t.to /\ form.cc = t.cc
            BY <5>2
          <5>4. IsForm(form)
            BY <4>3, <4>5, <5>1, <5>2, <5>3 DEF IsForm
          <5>5. IsAnswer(form)
            BY <2>1, <4>1, <5>3 DEF FormGood, IsAnswer
          <5> QED
            BY <5>4, <5>5 DEF FormGood
        <4> QED
          BY <4>4, <4>5
      <3> QED
        BY <3>1, <3>2
    <2>4. page'.pc = "load" /\ page'.form = form
      BY <2>2
    <2>5. PageGood(page')
      BY <2>3, <2>4 DEF PageGood, Working, WithForm
    <2>6. Around
      BY <1>1, <2>2 DEF Submit, Around, smtpVars, imapVars, Call
    <2>7. CASE form.mode = "new"
      <3>1. imap' = NotCalled
        BY <2>1, <2>2, <2>7 DEF imapVars
      <3>2. CallOf(page') = "none" /\ page'.pc # "send"
        BY <2>4, <2>7 DEF CallOf
      <3> QED
        BY <2>1, <2>5, <2>6, <3>1, <3>2, PageStep
    <2>8. CASE form.mode # "new"
      <3> DEFINE op == [name |-> "get", uid |-> form.uid]
      <3>1. op \in Ops /\ op.name = "get"
        BY <2>3, <2>8 DEF Ops, FormGood, IsForm
      <3>2. Call(server, setting.imap, op)
        BY <2>2, <2>8
      <3> HIDE DEF op
      <3>3. imap' # NotCalled /\ CallTyped(imap') /\ imap'.op = op
        BY <3>1, <3>2, CallTypedBegins
      <3>4. CallOf(page') = "get" /\ page'.pc # "send"
        BY <2>4, <2>8 DEF CallOf
      <3> QED
        BY <2>1, <2>5, <2>6, <3>1, <3>3, <3>4, PageStep
    <2> QED
      BY <2>7, <2>8
  <1>2. ASSUME NEW original, page.pc = "load", SendFor(page.form, original),
               imap' = NotCalled, UNCHANGED <<mailVars, deleted, header>>
        PROVE  PInv'
    <2>1. /\ Send(setting.smtp, Message(page.form), [form |-> page.form, original |-> original])
          /\ page' = [pc |-> "send", form |-> page.form, original |-> original]
      BY <1>2 DEF SendFor, Goes
    <2>2. /\ smtp' # Idle /\ SendGood(smtp')
          /\ smtp'.id = [form |-> page.form, original |-> original]
      BY <2>1, SendBegins
    <2>3. page'.pc = "send" /\ page'.form = page.form /\ page'.original = original
      BY <2>1
    <2>4. FormGood(page.form)
      BY <1>2 DEF PInv, PageGood, WithForm
    <2>5. PageGood(page') /\ CallOf(page') = "none"
      BY <2>1, <2>3, <2>4 DEF PageGood, Working, CallOf
    <2>6. Around
      BY <1>2, <2>1 DEF Send, Around
    <2> QED
      BY <1>2, <2>2, <2>3, <2>5, <2>6, PageStep
  <1>3. CASE NewLoaded
    <2>1. /\ page.pc = "load" /\ page.form.mode = "new" /\ SendFor(page.form, NoMessage)
          /\ UNCHANGED <<mailVars, imap, deleted, header>>
      BY <1>3 DEF NewLoaded, imapVars
    <2>2. imap' = NotCalled
      <3>1. CallOf(page) = "none"
        BY <2>1 DEF CallOf
      <3>2. imap # NotCalled => imap.op.name \in {"list", "get", "mark"}
        BY DEF PInv, CallTyped, Ops
      <3> QED
        BY <2>1, <3>1, <3>2 DEF PInv
    <2> QED
      BY <1>2, <2>1, <2>2
  <1>4. CASE Loaded
    <2>1. /\ page.pc = "load" /\ ImapReset /\ UNCHANGED <<mailVars, header>>
          /\ imap' = NotCalled /\ UNCHANGED deleted
      BY <1>4 DEF Loaded, ImapReset
    <2>2. CASE SendFor(page.form, imap.out[1])
      BY <1>2, <2>1, <2>2
    <2>3. CASE Goes(Failed(page.form, FALSE)) /\ UNCHANGED smtpVars
      <3>1. page'.pc = "failed" /\ page'.form = page.form
        BY <2>3 DEF Goes, Failed
      <3>2. FormGood(page.form)
        BY <2>1 DEF PInv, PageGood, WithForm
      <3>3. PageGood(page') /\ page'.pc \in Resting
        BY <3>1, <3>2 DEF PageGood, Resting
      <3>4. UNCHANGED smtp /\ smtp = Idle /\ Around
        BY <2>1, <2>3 DEF smtpVars, Around, PInv
      <3> QED
        BY <2>1, <3>3, <3>4, CallOver
    <2> QED
      BY <1>4, <2>2, <2>3 DEF Loaded
  <1> QED
    BY <1>1, <1>3, <1>4

(* handleSendMessage after the Send.                                       *)
LEMMA SentPages ==
    ASSUME PInv, SendReturned \/ FlagReturned
    PROVE  PInv'
  <1>1. CASE SendReturned
    <2>1. /\ page.pc = "send" /\ smtp' = Idle /\ Around /\ imap = NotCalled
          /\ FormGood(page.form)
          /\ page = [pc |-> page.pc, form |-> page.form, original |-> page.original]
      <3>1. page.pc = "send" /\ smtp' = Idle /\ UNCHANGED <<mailVars, delivered, header>>
        BY <1>1 DEF SendReturned, SmtpReset
      <3>2. UNCHANGED deleted
        BY <1>1 DEF SendReturned, imapVars, markMessageFlag, Call
      <3>3. imap = NotCalled
        <4>1. CallOf(page) = "none"
          BY <3>1 DEF CallOf
        <4>2. imap # NotCalled => imap.op.name \in {"list", "get", "mark"}
          BY DEF PInv, CallTyped, Ops
        <4> QED
          BY <4>1, <4>2 DEF PInv
      <3> QED
        BY <3>1, <3>2, <3>3 DEF Around, PInv, PageGood, WithForm
    <2>2. ASSUME page'.pc \in {"failed", "sent"}, page'.form = page.form, UNCHANGED imapVars
          PROVE  PInv'
      <3>1. PageGood(page') /\ Still(page')
        BY <2>1, <2>2, RestingIsStill DEF PageGood, Resting
      <3> QED
        BY <2>1, <2>2, <3>1, PageStep DEF Still, imapVars
    <2>3. CASE Goes(Failed(page.form, smtp.taken)) /\ UNCHANGED imapVars
      BY <2>2, <2>3 DEF Goes, Failed
    <2>4. CASE Goes([page EXCEPT !.pc = "sent"]) /\ UNCHANGED imapVars
      <3>1. page'.pc = "sent" /\ page'.form = page.form
        BY <2>1, <2>4 DEF Goes
      <3> QED
        BY <2>2, <2>4, <3>1
    <2>5. CASE /\ Goes([page EXCEPT !.pc = "flag"]) /\ page.form.mode # "new"
               /\ markMessageFlag(server, setting.imap, page.form.uid, Flag(page.form.mode))
      <3>1. /\ page' = [pc |-> "flag", form |-> page.form, original |-> page.original]
        BY <2>1, <2>5 DEF Goes
      <3>2. page'.pc = "flag" /\ page'.form = page.form /\ page'.original = page.original
        BY <3>1
      <3>3. PageGood(page') /\ CallOf(page') = "mark"
        BY <2>1, <2>5, <3>1, <3>2 DEF PageGood, Working, CallOf
      <3> DEFINE op == [name |-> "mark", uid |-> page.form.uid, flag |-> Flag(page.form.mode)]
      <3>4. op \in Ops /\ op.name = "mark"
        <4>1. page.form.uid \in Uids
          BY <2>1, <2>5 DEF FormGood, IsForm
        <4>2. Flag(page.form.mode) \in Flags
          BY DEF Flag, Flags
        <4> QED
          BY <4>1, <4>2 DEF Ops
      <3>5. Call(server, setting.imap, op)
        BY <2>5 DEF markMessageFlag
      <3> HIDE DEF op
      <3>6. imap' # NotCalled /\ CallTyped(imap') /\ imap'.op = op
        BY <3>4, <3>5, CallTypedBegins
      <3> QED
        BY <2>1, <3>2, <3>3, <3>4, <3>6, PageStep
    <2> QED
      BY <1>1, <2>3, <2>4, <2>5 DEF SendReturned
  <1>2. CASE FlagReturned
    <2>1. /\ page.pc = "flag" /\ ImapReset /\ UNCHANGED <<mailVars, smtpVars, header>>
          /\ page' = [page EXCEPT !.pc = IF imap.result = "ok" THEN "sent" ELSE "warned"]
      BY <1>2 DEF FlagReturned, Goes
    <2>2. /\ page = [pc |-> page.pc, form |-> page.form, original |-> page.original]
          /\ FormGood(page.form) /\ smtp = Idle
      BY <2>1 DEF PInv, PageGood, WithForm
    <2>3. page'.pc \in {"sent", "warned"} /\ page'.form = page.form
      BY <2>1, <2>2
    <2>4. PageGood(page') /\ page'.pc \in Resting
      BY <2>2, <2>3 DEF PageGood, Resting
    <2>5. UNCHANGED smtp /\ Around
      BY <2>1 DEF smtpVars, Around, ImapReset
    <2> QED
      BY <2>1, <2>2, <2>4, <2>5, CallOver
  <1> QED
    BY <1>1, <1>2

(* The process ends: what was typed is kept in the page.                   *)
LEMMA RestartedPage ==
    ASSUME PInv, Restart
    PROVE  PInv'
  <1>1. imap' = NotCalled /\ smtp' = Idle /\ Around
    BY DEF Restart, ImapReset, SmtpReset, Around
  <1>2. PageGood(page') /\ page'.pc \in Resting
    <2>1. CASE page.pc \in {"list", "read", "opening"}
      <3>1. page'.pc = "closed"
        BY <2>1 DEF Restart, Goes, NoPage
      <3> QED
        BY <3>1 DEF PageGood, Resting, WithForm
    <2>2. CASE page.pc \in {"load", "send", "flag"}
      <3>1. page'.pc = "lost" /\ page'.form = page.form
        BY <2>2 DEF Restart, Goes
      <3>2. FormGood(page.form)
        BY <2>2 DEF PInv, PageGood, WithForm
      <3> QED
        BY <3>1, <3>2 DEF PageGood, Resting
    <2> QED
      BY <2>1, <2>2 DEF Restart, Working
  <1>3. Still(page')
    BY <1>2, RestingIsStill
  <1> QED
    BY <1>1, <1>2, <1>3, PageStep DEF Still
-----------------------------------------------------------------------------
(* No page, call or message at the start.                                  *)
LEMMA InitPInv == Init => PInv
  <1> SUFFICES ASSUME Init PROVE PInv
    OBVIOUS
  <1>1. MailServerTypeOK /\ Numbered
    <2>1. MaxUid \in Nat /\ Undelivered \notin Servers \X Uids
      BY MailServerAssumption DEF MailServerAssumption
    <2>2. \A m \in Messages : place[m] = Undelivered
      BY DEF Init, MailServerInit
    <2>3. MailServerTypeOK
      BY <2>1 DEF Init, MailServerInit, MailServerTypeOK
    <2>4. \A s \in Servers, u \in Uids : <<s, u>> # Undelivered
      BY <2>1
    <2> QED
      BY <2>1, <2>2, <2>3, <2>4 DEF Numbered
  <1>2. header \in [Messages -> Headers]
    BY MailClientsAssumption DEF Init, MailClientsAssumption
  <1>3. page.pc = "closed"
    BY DEF Init, NoPage
  <1>4. PageGood(page) /\ Still(page)
    BY <1>3, RestingIsStill DEF PageGood, Resting, WithForm
  <1> QED
    BY <1>1, <1>2, <1>3, <1>4 DEF Init, ImapInit, SmtpInit, PInv, DeliveredGood, Still

(* Every step keeps it.                                                    *)
LEMMA StepPInv == IInv /\ PInv /\ [Next]_vars => PInv'
  <1> SUFFICES ASSUME IInv, PInv, [Next]_vars PROVE PInv'
    OBVIOUS
  <1>1. CASE UNCHANGED vars
    <2>1. UNCHANGED <<mailVars, imap, deleted, smtp, delivered, header, page>>
      BY <1>1 DEF vars, imapVars, smtpVars
    <2>2. MailServerTypeOK' /\ Numbered'
      BY <2>1 DEF mailVars, PInv, MailServerTypeOK, Numbered
    <2>3. DeliveredGood' /\ PageGood(page)'
      BY <2>1 DEF PInv, DeliveredGood, PageGood, FormGood, IsAnswer
    <2> QED
      BY <2>1, <2>2, <2>3 DEF PInv
  <1>2. CASE ImapStep /\ UNCHANGED <<smtpVars, setting, header, page, looks, submits>>
    <2>1. /\ imap # NotCalled /\ UNCHANGED deleted /\ MailServerTypeOK' /\ Numbered'
      BY <1>2, ImapKeepsMailboxes
    <2>2. imap' # NotCalled /\ CallTyped(imap') /\ imap'.op = imap.op
      BY <1>2, ImapTypes
    <2>3. /\ UNCHANGED <<smtp, delivered, header, page>> /\ DeliveredGood' /\ PageGood(page)'
      BY <1>2 DEF smtpVars, PInv, DeliveredGood, PageGood, FormGood, IsAnswer
    <2> QED
      BY <2>1, <2>2, <2>3 DEF PInv
  <1>3. CASE SmtpStep /\ UNCHANGED <<mailVars, imapVars, setting, header, page, looks, submits>>
    <2>1. /\ smtp # Idle /\ smtp' # Idle
          /\ SendGood(smtp') /\ smtp'.id = smtp.id /\ DeliveredGood'
      BY <1>3, SendTypes
    <2>2. /\ UNCHANGED <<mailVars, imap, deleted, header, page>> /\ PageGood(page)'
      BY <1>3 DEF imapVars, PInv, PageGood, FormGood, IsAnswer
    <2>3. MailServerTypeOK' /\ Numbered'
      BY <2>2 DEF mailVars, PInv, MailServerTypeOK, Numbered
    <2> QED
      BY <2>1, <2>2, <2>3 DEF PInv
  <1>4. CASE OtherClients
    <2>1. /\ MailServerTypeOK' /\ Numbered' /\ deleted' \subseteq Messages
          /\ UNCHANGED <<imap, smtp, delivered, header, page>>
      <3>1. UNCHANGED <<imap, smtp, delivered, header, page>>
        BY <1>4 DEF OtherClients, MarkDeleted, smtpVars
      <3>2. CASE MailServerStep /\ deleted' = {m \in deleted : place'[m] # Expunged}
        BY <3>1, <3>2, MailServerTypes, NumbersStay DEF PInv
      <3>3. CASE \E m \in Messages : MarkDeleted(m)
        BY <3>1, <3>3 DEF MarkDeleted, mailVars, PInv, MailServerTypeOK, Numbered
      <3> QED
        BY <1>4, <3>1, <3>2, <3>3 DEF OtherClients
    <2>2. DeliveredGood' /\ PageGood(page)'
      BY <2>1 DEF PInv, DeliveredGood, PageGood, FormGood, IsAnswer
    <2> QED
      BY <2>1, <2>2 DEF PInv
  <1> QED
    BY <1>1, <1>2, <1>3, <1>4, CallPages, ShownPages, StillPages, SubmittedPages, SentPages,
       RestartedPage DEF Next, Handler, Clients
-----------------------------------------------------------------------------
(* The invariant of pages, calls and messages.                             *)
THEOREM PagesInvariance == Spec => []PInv
  BY Invariance, InitPInv, StepPInv, PTL DEF Spec

(* Type correctness: among others, the reader holds one message more than  *)
(* the channel has room for, and GetMessage returns one.                   *)
THEOREM TypeCorrect == Spec => []TypeOK
  <1>1. ASSUME IInv, PInv PROVE TypeOK
    <2>1. CASE imap = NotCalled
      <3>1. imap.at = "idle" /\ CallOf(page) = "none"
        BY <1>1, <2>1 DEF NotCalled, PInv
      <3>2. page.pc \notin {"list", "read", "opening", "flag"}
        BY <3>1 DEF CallOf
      <3>3. smtp.at \in {"idle"} \cup SmtpCommands \cup SmtpReturned
        BY <1>1 DEF PInv, SendGood, Idle
      <3> QED
        BY <1>1, <2>1, <3>1, <3>2, <3>3 DEF TypeOK, PInv, PageGood
    <2>2. CASE imap # NotCalled
      <3>1. CallTyped(imap)
        BY <1>1, <2>2 DEF PInv
      <3>2. imap.todo \in Seq(Rows) /\ imap.chan \in Seq(Rows) /\ imap.out \in Seq(Rows)
        <4>1. \A q \in Seq(Messages) : q \in Seq(Rows)
          BY DEF Rows
        <4> QED
          BY <3>1, <4>1 DEF CallTyped, RowsTyped
      <3> DEFINE q == imap.todo \o imap.chan \o imap.out
      <3>3. q \in Seq(Rows)
        BY <3>2, ConcatProperties
      <3>4. ToSet(q) \subseteq Messages \cup {NoRow}
        <4> HIDE DEF q
        <4>1. \A i \in DOMAIN q : q[i] \in Rows
          BY <3>3, ElementOfSeq, LenProperties
        <4> QED
          BY <4>1 DEF ToSet, Rows
      <3>5. imap.op.name = "get" /\ imap.result = "ok" => Len(imap.out) = 1
        <4> SUFFICES ASSUME imap.op.name = "get", imap.result = "ok" PROVE Len(imap.out) = 1
          OBVIOUS
        <4>1. AtMostOne(imap) /\ imap.out # <<>>
          BY <3>1 DEF CallTyped, RowsTyped, PhaseTyped
        <4>2. \E m \in Messages : imap.out = <<m>>
          BY <4>1 DEF AtMostOne, Nothing
        <4> QED
          BY <4>2
      <3>6. smtp.at \in {"idle"} \cup SmtpCommands \cup SmtpReturned
        BY <1>1 DEF PInv, SendGood, Idle
      <3> HIDE DEF q
      <3>7. /\ imap.at \in {"idle", "fetching", "return", "returned"} \cup ImapCommands
            /\ imap.conn \in {"none", "notauth", "auth", "selected ro", "selected rw", "closed"}
            /\ imap.result \in {"", "ok", "missing", "error"}
            /\ Len(imap.chan) <= ChannelCap + 1
        BY <3>1 DEF CallTyped, RowsTyped, PhaseTyped
      <3>8. /\ MailServerTypeOK /\ deleted \subseteq Messages
            /\ page.pc \in Working \cup Resting /\ (page.pc = "send" <=> smtp # Idle)
        BY <1>1 DEF PInv, PageGood
      <3> QED
        BY <2>2, <3>4, <3>5, <3>6, <3>7, <3>8 DEF TypeOK, q
    <2> QED
      BY <2>1, <2>2
  <1> QED
    BY <1>1, Invariance, PagesInvariance, PTL

(* What a server takes has every recipient of To and Cc.                   *)
THEOREM EveryRecipient == Spec => []AllRecipientsOrNone
  <1>1. PInv => AllRecipientsOrNone
    BY DEF PInv, DeliveredGood, AllRecipientsOrNone
  <1> QED
    BY <1>1, PagesInvariance, PTL

(* What a header that is readable is called in the lemmas.                 *)
LEMMA ReadableIsClear ==
    ASSUME NEW h, Readable(h)
    PROVE  Clear(h, {"replyTo", "from", "to", "cc"}) /\ Clear(h, {"replyTo", "from"})
  <1>1. \A f \in {"replyTo", "from", "to", "cc"} : formatAddresses(h[f]) # Garbled
    BY DEF Readable
  <1> QED
    BY <1>1 DEF Clear

(* Answers go to everybody they should, and to nobody twice.               *)
THEOREM AnswersReach == Spec => []AnswersReachEveryone
  <1> SUFFICES ASSUME PInv, NEW d \in delivered PROVE
          LET form == d.id.form
              h == header[form.about]
              target == IF h.replyTo # <<>> THEN h.replyTo[1].key ELSE h.from[1].key
              all == {target} \cup ((Keys(h.to) \cup Keys(h.cc)) \ {Self.key})
              expected == IF form.mode = "reply" THEN {target} ELSE all
          IN  /\ form.mode \in {"reply", "reply-all"}
              /\ h.replyTo # <<>> \/ h.from # <<>>
              /\ Readable(h)
              => Keys(d.named) = expected /\ Len(d.named) = Cardinality(expected)
    <2>1. PInv => AnswersReachEveryone
      BY DEF AnswersReachEveryone
    <2> QED
      BY <2>1, PagesInvariance, PTL
  <1> DEFINE form == d.id.form
             h == header[form.about]
             target == IF h.replyTo # <<>> THEN h.replyTo[1].key ELSE h.from[1].key
             all == {target} \cup ((Keys(h.to) \cup Keys(h.cc)) \ {Self.key})
             expected == IF form.mode = "reply" THEN {target} ELSE all
  <1> SUFFICES ASSUME form.mode \in {"reply", "reply-all"}, h.replyTo # <<>> \/ h.from # <<>>,
                      Readable(h)
               PROVE  Keys(d.named) = expected /\ Len(d.named) = Cardinality(expected)
    OBVIOUS
  <1>1. FormGood(form) /\ validateMessage(Message(form))
        /\ d.named = messageRecipients(Message(form))
    BY DEF PInv, DeliveredGood
  <1>2. h \in Headers /\ Self \in Addresses
    BY <1>1, MailClientsAssumption DEF FormGood, IsForm, PInv, MailClientsAssumption
  <1>3. d.named = form.to \o form.cc
    BY <1>1, ValidMessage DEF FormGood
  <1>4. LET p == Proposed(form.mode, h, Self)
        IN  p.to # <<>> => form.to = p.to /\ form.cc = p.cc
    BY <1>1 DEF FormGood, IsAnswer
  <1> HIDE DEF form, h
  <1>5. /\ First(h) \in Addresses /\ Clear(h, {"replyTo", "from", "to", "cc"})
        /\ replyRecipient(h) = <<Bare(First(h))>>
    BY <1>2, ReadableIsClear, ReplyReaches
  <1>6. First(h).key = target
    BY DEF First
  <1>7. Bare(First(h)) \in Addresses /\ Bare(First(h)).key = target
    BY <1>5, <1>6, BareAddress
  <1> HIDE DEF target
  <1>8. CASE form.mode = "reply"
    <2>1. form.to = <<Bare(First(h))>> /\ form.cc = <<>>
      BY <1>4, <1>5, <1>8 DEF Proposed
    <2>2. d.named = <<Bare(First(h))>>
      BY <1>3, <2>1
    <2>3. expected = {target}
      BY <1>8
    <2>4. Keys(d.named) = expected
      BY <1>7, <2>2, <2>3 DEF Keys
    <2>5. Len(d.named) = 1
      BY <2>2
    <2>6. Cardinality(expected) = 1
      BY <2>3, FS_Singleton
    <2> QED
      BY <2>4, <2>5, <2>6
  <1>9. CASE form.mode = "reply-all"
    <2> DEFINE r == replyAllRecipients(h, Self)
    <2>1. /\ r.to = <<Bare(First(h))>> /\ r.cc \in Seq(Addresses)
          /\ Keys(r.cc) = (Keys(h.to) \cup Keys(h.cc)) \ {Self.key, First(h).key}
          /\ \A i, j \in DOMAIN r.cc : r.cc[i].key = r.cc[j].key => i = j
      BY <1>2, <1>5, ReplyAllReaches
    <2>2. form.to = r.to /\ form.cc = r.cc
      <3>1. Proposed(form.mode, h, Self) = r
        BY <1>9 DEF Proposed
      <3>2. r.to # <<>>
        BY <2>1
      <3> HIDE DEF r
      <3> QED
        BY <1>4, <3>1, <3>2
    <2> HIDE DEF r
    <2>3. d.named = <<Bare(First(h))>> \o r.cc
      BY <1>3, <2>1, <2>2
    <2> DEFINE q == <<Bare(First(h))>> \o r.cc
    <2>4. /\ q \in Seq(Addresses) /\ DOMAIN q = 1..(1 + Len(r.cc)) /\ Len(r.cc) \in Nat
          /\ DOMAIN r.cc = 1..Len(r.cc)
          /\ q[1] = Bare(First(h))
          /\ \A i \in 1..Len(r.cc) : q[i + 1] = r.cc[i]
      <3>1. <<Bare(First(h))>> \in Seq(Addresses) /\ Len(<<Bare(First(h))>>) = 1
            /\ <<Bare(First(h))>>[1] = Bare(First(h))
        BY <1>7
      <3>2. Len(r.cc) \in Nat /\ DOMAIN r.cc = 1..Len(r.cc)
        BY <2>1, LenProperties
      <3> QED
        BY <2>1, <3>1, <3>2, ConcatProperties
    <2>5. \A i \in 2..(1 + Len(r.cc)) : i - 1 \in 1..Len(r.cc) /\ q[i] = r.cc[i - 1]
      <3>1. \A i \in 2..(1 + Len(r.cc)) : i - 1 \in 1..Len(r.cc) /\ (i - 1) + 1 = i
        BY <2>4
      <3> HIDE DEF q
      <3> QED
        BY <2>4, <3>1
    <2> HIDE DEF q
    <2>6. Keys(q) = {target} \cup Keys(r.cc)
      <3>1. \A i \in DOMAIN q : q[i].key \in {target} \cup Keys(r.cc)
        <4> SUFFICES ASSUME NEW i \in DOMAIN q PROVE q[i].key \in {target} \cup Keys(r.cc)
          OBVIOUS
        <4>1. CASE i = 1
          BY <1>7, <2>4, <4>1
        <4>2. CASE i # 1
          <5>1. i \in 2..(1 + Len(r.cc))
            BY <2>4, <4>2
          <5> QED
            BY <2>4, <2>5, <5>1 DEF Keys
        <4> QED
          BY <4>1, <4>2
      <3>2. 1 \in DOMAIN q /\ \A i \in DOMAIN r.cc : i + 1 \in DOMAIN q
        BY <2>4
      <3>3. target \in Keys(q)
        BY <1>7, <2>4, <3>2 DEF Keys
      <3>4. \A i \in DOMAIN r.cc : r.cc[i].key \in Keys(q)
        BY <2>4, <3>2 DEF Keys
      <3> QED
        BY <3>1, <3>3, <3>4 DEF Keys
    <2>7. \A i, j \in DOMAIN q : q[i].key = q[j].key => i = j
      <3>1. \A i \in DOMAIN r.cc : r.cc[i].key # target
        BY <1>6, <2>1 DEF Keys
      <3>2. \A i \in DOMAIN q : i = 1 \/ i \in 2..(1 + Len(r.cc))
        BY <2>4
      <3>3. \A i \in 2..(1 + Len(r.cc)) : q[i].key # target
        BY <2>4, <2>5, <3>1
      <3>4. q[1].key = target
        BY <1>7, <2>4
      <3>5. \A i, j \in 2..(1 + Len(r.cc)) : q[i].key = q[j].key => i - 1 = j - 1
        <4> SUFFICES ASSUME NEW i \in 2..(1 + Len(r.cc)), NEW j \in 2..(1 + Len(r.cc)),
                            q[i].key = q[j].key
                     PROVE  i - 1 = j - 1
          OBVIOUS
        <4>1. i - 1 \in DOMAIN r.cc /\ j - 1 \in DOMAIN r.cc
          BY <2>4, <2>5
        <4>2. r.cc[i - 1].key = r.cc[j - 1].key
          BY <2>5
        <4> QED
          BY <2>1, <4>1, <4>2
      <3>6. \A i, j \in 2..(1 + Len(r.cc)) : i - 1 = j - 1 => i = j
        BY <2>4
      <3> QED
        BY <3>2, <3>3, <3>4, <3>5, <3>6
    <2>8. expected = {target} \cup Keys(r.cc)
      BY <1>6, <1>9, <2>1
    <2>9. Len(q) = Cardinality(Keys(q))
      BY <2>4, <2>7, DistinctKeys
    <2> QED
      BY <2>3, <2>6, <2>8, <2>9 DEF q
  <1> QED
    BY <1>8, <1>9
-----------------------------------------------------------------------------
(* The list page.                                                          *)

\* The messages of a mailbox that was selected: each once, there or deleted by now.
Counted(view) ==
    /\ view \in Seq(Messages)
    /\ \A i, j \in DOMAIN view : view[i] = view[j] => i = j
    /\ \A i \in DOMAIN view : place[view[i]] \in ({server} \X Uids) \cup {Expunged}

\* Rows for the newest messages of a view, oldest first, none missing that is there.
InOrder(rows, view, limit) ==
    /\ \A k \in DOMAIN rows : rows[k] # NoRow =>
          \E i \in DOMAIN view : Len(view) - i < limit /\ rows[k] = view[i]
    /\ \A k, l \in DOMAIN rows : \A i, j \in DOMAIN view :
          k < l /\ rows[k] = view[i] /\ rows[l] = view[j] => i < j
    /\ \A i \in DOMAIN view : Len(view) - i < limit /\ place[view[i]] # Expunged =>
          \E k \in DOMAIN rows : rows[k] = view[i]

\* What ListMessages has received, or will receive, and what it returns.
ListCall(c) ==
    c.op.name = "list" =>
        /\ Counted(c.view)
        /\ c.at = "fetching" => /\ InOrder(c.out \o (c.chan \o c.todo), c.view, c.op.limit)
                                /\ c.done = "ok" => c.todo = <<>>
        /\ c.result = "ok" => InOrder(Reverse(c.out), c.view, c.op.limit)

ListPage(p) ==
    p.pc = "listed" => /\ Counted(p.of) /\ p.rows \in Seq(Rows) /\ p.limit \in Limits
                       /\ InOrder(Reverse(p.rows), p.of, p.limit)

LInv ==
    /\ imap # NotCalled => ListCall(imap)
    /\ ListPage(page)

(* Messages of a view stay where they are, or are expunged.                *)
LEMMA CountedStays ==
    ASSUME MailServerTypeOK, MailServerStep \/ UNCHANGED place, NEW view, Counted(view)
    PROVE  /\ Counted(view)'
           /\ \A i \in DOMAIN view : place'[view[i]] # Expunged => place[view[i]] # Expunged
  <1>1. \A i \in DOMAIN view : view[i] \in Messages
    BY ElementOfSeq, LenProperties DEF Counted
  <1>2. /\ place \in [Messages -> (Servers \X Uids) \cup {Undelivered, Expunged}]
        /\ Undelivered \notin Servers \X Uids /\ Expunged \notin Servers \X Uids
        /\ Undelivered # Expunged /\ server \in Servers
    BY MailServerAssumption, ServerIs DEF MailServerAssumption, MailServerTypeOK
  <1>3. \A m \in Messages : place[m] \in ({server} \X Uids) \cup {Expunged} =>
           /\ place'[m] \in ({server} \X Uids) \cup {Expunged}
           /\ place[m] = Expunged => place'[m] = Expunged
    <2>1. CASE UNCHANGED place
      BY <2>1
    <2>2. ASSUME NEW s \in Servers, NEW a \in Messages, Arrive(s, a)
          PROVE  \A m \in Messages : place[m] # Undelivered => place'[m] = place[m]
      BY <1>2, <2>2 DEF Arrive
    <2>3. Undelivered \notin ({server} \X Uids) \cup {Expunged}
      BY <1>2
    <2>4. ASSUME NEW a \in Messages, Expunge(a)
          PROVE  \A m \in Messages : place'[m] = place[m] \/ place'[m] = Expunged
      BY <1>2, <2>4 DEF Expunge
    <2>5. ASSUME NEW s \in Servers, Renumber(s), NEW m \in Messages
          PROVE  \/ place'[m] = place[m]
                 \/ place[m] \in {s} \X Uids /\ place'[m] \in {s} \X Uids
      <3>1. PICK uid \in [{n \in Messages : place[n] \in {s} \X Uids} -> 1..(uidNext[s] - 1)] :
               place' = [n \in Messages |->
                           IF n \in DOMAIN uid THEN <<s, uid[n]>> ELSE place[n]]
        BY <2>5 DEF Renumber
      <3>2. 1..(uidNext[s] - 1) \subseteq Uids
        BY MailServerAssumption DEF MailServerAssumption, MailServerTypeOK, Uids
      <3>3. \A n \in DOMAIN uid : uid[n] \in Uids /\ place[n] \in {s} \X Uids
        BY <3>1, <3>2
      <3> QED
        BY <3>1, <3>3
    <2>6. ASSUME NEW s \in Servers, Renumber(s), NEW m \in Messages,
                 place[m] \in ({server} \X Uids) \cup {Expunged}
          PROVE  /\ place'[m] \in ({server} \X Uids) \cup {Expunged}
                 /\ place[m] = Expunged => place'[m] = Expunged
      <3>1. CASE place'[m] = place[m]
        BY <2>6, <3>1
      <3>2. CASE place[m] \in {s} \X Uids /\ place'[m] \in {s} \X Uids
        <4>1. place[m] # Expunged
          BY <1>2, <3>2
        <4>2. s = server
          BY <2>6, <3>2, <4>1
        <4> QED
          BY <3>2, <4>1, <4>2
      <3> QED
        BY <2>5, <2>6, <3>1, <3>2
    <2> QED
      BY <2>1, <2>2, <2>3, <2>4, <2>6 DEF MailServerStep
  <1> QED
    BY <1>1, <1>3 DEF Counted

(* Rows for the newest messages stay that when messages are expunged.      *)
LEMMA OrderStays ==
    ASSUME MailServerTypeOK, MailServerStep \/ UNCHANGED place, NEW rows, NEW view, NEW limit,
           Counted(view), InOrder(rows, view, limit)
    PROVE  InOrder(rows, view, limit)'
  <1>1. \A i \in DOMAIN view : place'[view[i]] # Expunged => place[view[i]] # Expunged
    BY CountedStays
  <1> QED
    BY <1>1 DEF InOrder

(* The call under way and the page, when only the mailbox changes.         *)
LEMMA ListsStay ==
    ASSUME PInv, LInv, MailServerStep \/ UNCHANGED place, UNCHANGED <<imap, page>>
    PROVE  LInv'
  <1>1. imap # NotCalled => ListCall(imap)'
    <2> SUFFICES ASSUME imap # NotCalled, imap.op.name = "list" PROVE ListCall(imap)'
      BY DEF ListCall
    <2>1. ListCall(imap) /\ Counted(imap.view)
      BY DEF LInv, ListCall
    <2>2. Counted(imap.view)'
      BY <2>1, CountedStays DEF PInv
    <2>3. \A rows : InOrder(rows, imap.view, imap.op.limit)
                       => InOrder(rows, imap.view, imap.op.limit)'
      BY <2>1, OrderStays DEF PInv
    <2> QED
      BY <2>1, <2>2, <2>3 DEF ListCall
  <1>2. ListPage(page)'
    <2> SUFFICES ASSUME page.pc = "listed" PROVE ListPage(page)'
      BY DEF ListPage
    <2>1. Counted(page.of) /\ InOrder(Reverse(page.rows), page.of, page.limit)
          /\ page.rows \in Seq(Rows) /\ page.limit \in Limits
      BY DEF LInv, ListPage
    <2>2. Counted(page.of)'
      BY <2>1, CountedStays DEF PInv
    <2>3. InOrder(Reverse(page.rows), page.of, page.limit)'
      BY <2>1, OrderStays DEF PInv
    <2> QED
      BY <2>1, <2>2, <2>3 DEF ListPage
  <1> QED
    BY <1>1, <1>2 DEF LInv

(* A FETCH asks for the newest messages in the order of the view.          *)
LEMMA AskedInOrder ==
    ASSUME PInv, imap # NotCalled, imap.op.name = "list", Counted(imap.view)
    PROVE  InOrder(Asked, imap.view, imap.op.limit)
  <1> DEFINE view == imap.view
             limit == imap.op.limit
             n == Window(Len(view), limit)
  <1>1. view \in Seq(Messages) /\ limit \in Nat /\ imap.server = server
    BY MailClientsAssumption DEF MailClientsAssumption, PInv, CallTyped, Ops
  <1>2. Len(view) \in Nat /\ DOMAIN view = 1..Len(view)
        /\ \A i, j \in DOMAIN view : view[i] = view[j] => i = j
    BY <1>1, LenProperties DEF Counted
  <1>3. \A i \in Int : i \in n <=> i \in DOMAIN view /\ Len(view) - i < limit
    BY <1>1, <1>2, WindowIs
  <1>4. PICK at \in [DOMAIN Asked -> n] :
           /\ \A k \in DOMAIN Asked : Asked[k] = view[at[k]]
           /\ \A k, l \in DOMAIN Asked : k < l => at[k] < at[l]
           /\ \A i \in n : Present(view[i]) => \E k \in DOMAIN Asked : at[k] = i
    BY <1>1, AskedForList
  <1>5. \A i \in DOMAIN view : place[view[i]] # Expunged => Present(view[i])
    BY <1>1 DEF Counted, Present
  <1>6. n \subseteq Int
    BY <1>2 DEF Window
  <1> HIDE DEF view, limit, n
  <1>7. \A k \in DOMAIN Asked : at[k] \in DOMAIN view /\ Len(view) - at[k] < limit
    BY <1>3, <1>4, <1>6
  <1>8. ASSUME NEW k \in DOMAIN Asked, NEW l \in DOMAIN Asked,
               NEW i \in DOMAIN view, NEW j \in DOMAIN view,
               k < l, Asked[k] = view[i], Asked[l] = view[j]
        PROVE  i < j
    <2>1. at[k] = i /\ at[l] = j
      BY <1>2, <1>4, <1>7, <1>8
    <2> QED
      BY <1>4, <1>8, <2>1
  <1>9. ASSUME NEW i \in DOMAIN view, Len(view) - i < limit, place[view[i]] # Expunged
        PROVE  \E k \in DOMAIN Asked : Asked[k] = view[i]
    <2>1. i \in n
      BY <1>2, <1>3, <1>9
    <2> QED
      BY <1>4, <1>5, <1>9, <2>1
  <1>10. InOrder(Asked, view, limit)
    BY <1>4, <1>7, <1>8, <1>9 DEF InOrder
  <1> QED
    BY <1>10 DEF view, limit

(* A row for no message of the mailbox changes nothing.                    *)
LEMMA UnaskedInOrder ==
    ASSUME NEW q \in Seq(Rows), NEW view \in Seq(Messages), NEW limit, InOrder(q, view, limit)
    PROVE  InOrder(Append(q, NoRow), view, limit)
  <1> DEFINE r == Append(q, NoRow)
  <1>1. NoRow \in Rows /\ \A i \in DOMAIN view : view[i] # NoRow
    BY ImapAssumption, ElementOfSeq, LenProperties DEF ImapAssumption, Rows
  <1>2. /\ DOMAIN q = 1..Len(q) /\ DOMAIN r = 1..(Len(q) + 1) /\ Len(q) \in Nat
        /\ r[Len(q) + 1] = NoRow /\ \A k \in DOMAIN q : r[k] = q[k]
    BY <1>1, LenProperties, AppendProperties
  <1> HIDE DEF r
  <1>3. \A k \in DOMAIN r : r[k] # NoRow => k \in DOMAIN q
    BY <1>2
  <1>4. \A k \in DOMAIN r : r[k] # NoRow =>
          \E i \in DOMAIN view : Len(view) - i < limit /\ r[k] = view[i]
    BY <1>2, <1>3 DEF InOrder
  <1>5. \A k, l \in DOMAIN r : \A i, j \in DOMAIN view :
          k < l /\ r[k] = view[i] /\ r[l] = view[j] => i < j
    BY <1>1, <1>2, <1>3 DEF InOrder
  <1>6. \A i \in DOMAIN view : Len(view) - i < limit /\ place[view[i]] # Expunged =>
          \E k \in DOMAIN r : r[k] = view[i]
    <2>1. \A k \in DOMAIN q : k \in DOMAIN r
      BY <1>2
    <2> QED
      BY <1>2, <2>1 DEF InOrder
  <1>7. InOrder(r, view, limit)
    BY <1>4, <1>5, <1>6 DEF InOrder
  <1> QED
    BY <1>7 DEF r

(* A message that goes from one sequence to the next keeps its place.      *)
LEMMA RowsMove ==
    ASSUME NEW out \in Seq(Rows), NEW chan \in Seq(Rows), NEW todo \in Seq(Messages)
    PROVE  /\ todo # <<>> => out \o (Append(chan, Head(todo)) \o Tail(todo)) = out \o (chan \o todo)
           /\ chan # <<>> => Append(out, Head(chan)) \o (Tail(chan) \o todo) = out \o (chan \o todo)
           /\ todo = <<>> => /\ out \o (chan \o todo) = out \o chan
                             /\ out \o (Append(chan, NoRow) \o todo) = Append(out \o chan, NoRow)
  <1>1. Messages \subseteq Rows /\ NoRow \in Rows
    BY DEF Rows
  <1>2. todo \in Seq(Rows)
    BY <1>1, SeqMonotonic
  <1> DEFINE Associative == \A s, t, u \in Seq(Rows) : (s \o t) \o u = s \o (t \o u)
  <1>0. Associative
    <2> SUFFICES ASSUME NEW s \in Seq(Rows), NEW t \in Seq(Rows), NEW u \in Seq(Rows)
                 PROVE  (s \o t) \o u = s \o (t \o u)
      OBVIOUS
    <2> QED
      BY ConcatAssociative, SMTT(30)
  <1>3. ASSUME todo # <<>> PROVE Append(chan, Head(todo)) \o Tail(todo) = chan \o todo
    BY <1>2, <1>3, HeadMoves
  <1>4. ASSUME chan # <<>>
        PROVE  Append(out, Head(chan)) \o (Tail(chan) \o todo) = out \o (chan \o todo)
    <2>1. /\ Append(out, Head(chan)) \in Seq(Rows) /\ Tail(chan) \in Seq(Rows)
          /\ Append(out, Head(chan)) \o Tail(chan) = out \o chan
      BY <1>4, HeadMoves
    <2> DEFINE a == Append(out, Head(chan))
               b == Tail(chan)
    <2>2. a \in Seq(Rows) /\ b \in Seq(Rows) /\ a \o b = out \o chan
      BY <2>1
    <2> HIDE DEF a, b
    <2>3. a \o (b \o todo) = (a \o b) \o todo
      BY <1>0, <1>2, <2>2, ZenonT(30)
    <2>4. out \o (chan \o todo) = (out \o chan) \o todo
      BY <1>0, <1>2
    <2> QED
      BY <2>2, <2>3, <2>4 DEF a, b
  <1>5. ASSUME todo = <<>>
        PROVE  /\ out \o (chan \o todo) = out \o chan
               /\ out \o (Append(chan, NoRow) \o todo) = Append(out \o chan, NoRow)
    <2>1. Append(chan, NoRow) = chan \o <<NoRow>> /\ Append(chan, NoRow) \in Seq(Rows)
      BY <1>1, AppendIsConcat, AppendProperties
    <2>2. chan \o todo = chan /\ Append(chan, NoRow) \o todo = Append(chan, NoRow)
      BY <1>5, <2>1, ConcatEmptySeq
    <2>3. <<NoRow>> \in Seq(Rows)
      BY <1>1
    <2>4. out \o (chan \o <<NoRow>>) = (out \o chan) \o <<NoRow>>
      BY <2>3, ConcatAssociative
    <2>5. Append(out \o chan, NoRow) = (out \o chan) \o <<NoRow>>
      BY <1>1, ConcatProperties, AppendIsConcat
    <2> QED
      BY <2>1, <2>2, <2>4, <2>5
  <1> QED
    BY <1>3, <1>4, <1>5

(* No rows for no messages.                                                *)
LEMMA NothingInOrder ==
    ASSUME NEW limit
    PROVE  InOrder(Reverse(<<>>), <<>>, limit)
  <1>1. Reverse(<<>>) = <<>>
    BY DEF Reverse
  <1> QED
    BY <1>1 DEF InOrder

(* A step of ListMessages.                                                 *)
LEMMA ListSteps ==
    ASSUME IInv, PInv, LInv, ImapStep, imap.op.name = "list"
    PROVE  ListCall(imap')
  <1>1. imap # NotCalled /\ IsCall(imap) /\ UNCHANGED place
    BY ImapKeepsMailboxes
  <1>2. CallTyped(imap') /\ imap'.op = imap.op /\ CallTyped(imap)
    BY <1>1, ImapTypes DEF PInv
  <1>3. /\ ListCall(imap) /\ Counted(imap.view) /\ PhaseTyped(imap)
        /\ imap.view \in Seq(Messages) /\ imap.todo \in Seq(Messages)
        /\ imap.chan \in Seq(Rows) /\ imap.out \in Seq(Rows)
    BY <1>1, <1>2 DEF LInv, ListCall, CallTyped, RowsTyped
  <1> DEFINE all(c) == c.out \o (c.chan \o c.todo)
             limit == imap.op.limit
  <1>4. ASSUME imap'.view = imap.view, imap'.at # "fetching",
               imap'.result = "ok" => InOrder(Reverse(imap'.out), imap.view, limit)
        PROVE  ListCall(imap')
    BY <1>2, <1>3, <1>4 DEF ListCall
  <1>5. ASSUME imap'.view = imap.view, imap'.at = "fetching", imap'.result = "",
               InOrder(all(imap'), imap.view, limit), imap'.done = "ok" => imap'.todo = <<>>
        PROVE  ListCall(imap')
    BY <1>2, <1>3, <1>5 DEF ListCall
  <1>6. CASE ImapConnect \/ Login \/ ImapFails
    <2>1. imap'.at # "fetching" /\ imap'.view = imap.view
          /\ (imap'.result = imap.result \/ imap'.result = "error") /\ imap.at \in ImapCommands
      BY <1>1, <1>6 DEF ImapConnect, Login, ImapFails, IsCall, CallFields, ImapCommands
    <2>2. imap.result = ""
      BY <1>3, <2>1 DEF PhaseTyped
    <2> QED
      BY <1>4, <2>1, <2>2
  <1>7. CASE Select
    <2>1. /\ imap'.view = View(imap.server) /\ imap'.out = imap.out
          /\ IF View(imap.server) = <<>> THEN imap'.at = "return" ELSE imap'.at = "fetch"
          /\ imap'.result = IF imap'.at = "return" THEN "ok" ELSE ""
      BY <1>1, <1>7 DEF Select, IsCall, CallFields
    <2>2. Counted(imap'.view)
      <3>1. imap.server = server
        BY <1>2 DEF CallTyped
      <3>2. Counted(View(server))
        BY ViewIs DEF Counted
      <3> QED
        BY <2>1, <3>1, <3>2
    <2>3. imap.out = <<>>
      BY <1>3, <1>7 DEF Select, PhaseTyped, ImapCommands, Nothing
    <2>4. imap'.result = "ok" => InOrder(Reverse(imap'.out), imap'.view, limit)
      BY <2>1, <2>3, NothingInOrder
    <2> QED
      BY <1>2, <2>1, <2>2, <2>4 DEF ListCall
  <1>8. CASE Fetch
    <2>1. /\ imap'.view = imap.view /\ imap'.at = "fetching" /\ imap'.todo = Asked
          /\ imap'.chan = imap.chan /\ imap'.out = imap.out /\ imap'.done = imap.done
          /\ imap'.result = imap.result
      BY <1>1, <1>8 DEF Fetch, IsCall, CallFields
    <2>2. imap.chan = <<>> /\ imap.out = <<>> /\ imap.done = "" /\ imap.result = ""
      BY <1>3, <1>8 DEF Fetch, PhaseTyped, ImapCommands, Nothing
    <2>3. InOrder(Asked, imap.view, limit)
      BY <1>1, <1>3, AskedInOrder
    <2>4. imap'.todo \in Seq(Messages)
      BY <1>2 DEF CallTyped, RowsTyped
    <2>5. all(imap') = Asked
      <3>1. <<>> \o imap'.todo = imap'.todo
        BY <2>4, ConcatEmptySeq
      <3>2. <<>> \o (<<>> \o imap'.todo) = imap'.todo
        BY <3>1
      <3> QED
        BY <2>1, <2>2, <3>2
    <2> QED
      BY <1>5, <2>1, <2>2, <2>3, <2>5
  <1>9. ASSUME imap.at = "fetching"
        PROVE  /\ InOrder(all(imap), imap.view, limit) /\ imap.result = ""
               /\ imap.done = "ok" => imap.todo = <<>>
    BY <1>3, <1>9 DEF ListCall, PhaseTyped
  <1>10. CASE Deliver
    <2>1. /\ imap'.view = imap.view /\ imap'.at = "fetching" /\ imap.at = "fetching"
          /\ imap'.todo = Tail(imap.todo) /\ imap'.chan = Append(imap.chan, Head(imap.todo))
          /\ imap'.out = imap.out /\ imap'.done = "" /\ imap'.result = imap.result
          /\ imap.todo # <<>>
      BY <1>1, <1>10 DEF Deliver, IsCall, CallFields
    <2>2. all(imap') = all(imap)
      BY <1>3, <2>1, RowsMove, ZenonT(30)
    <2> QED
      BY <1>5, <1>9, <2>1, <2>2
  <1>11. CASE DeliverUnasked
    <2>1. /\ imap'.view = imap.view /\ imap'.at = "fetching" /\ imap.at = "fetching"
          /\ imap'.todo = imap.todo /\ imap'.chan = Append(imap.chan, NoRow)
          /\ imap'.out = imap.out /\ imap'.done = "" /\ imap'.result = imap.result
          /\ imap.todo = <<>>
      BY <1>1, <1>11 DEF DeliverUnasked, IsCall, CallFields
    <2>2. /\ all(imap) = imap.out \o imap.chan /\ imap.out \o imap.chan \in Seq(Rows)
          /\ all(imap') = Append(imap.out \o imap.chan, NoRow)
      BY <1>3, <2>1, RowsMove, ConcatProperties, ZenonT(30)
    <2>3. InOrder(all(imap'), imap.view, limit)
      BY <1>3, <1>9, <2>1, <2>2, UnaskedInOrder
    <2> QED
      BY <1>5, <1>9, <2>1, <2>3
  <1>12. CASE FetchReturns
    <2>1. /\ imap'.view = imap.view /\ imap'.at = "fetching" /\ imap.at = "fetching"
          /\ imap'.todo = imap.todo /\ imap'.chan = imap.chan /\ imap'.out = imap.out
          /\ imap'.done = "ok" => imap.todo = <<>>
          /\ imap'.result = imap.result
      BY <1>1, <1>12 DEF FetchReturns, IsCall, CallFields
    <2> QED
      BY <1>5, <1>9, <2>1
  <1>13. CASE Receive
    <2>1. /\ imap'.view = imap.view /\ imap'.at = "fetching" /\ imap.at = "fetching"
          /\ imap'.todo = imap.todo /\ imap'.chan = Tail(imap.chan)
          /\ imap'.out = Append(imap.out, Head(imap.chan))
          /\ imap'.done = imap.done /\ imap'.result = imap.result /\ imap.chan # <<>>
      BY <1>1, <1>13 DEF Receive, IsCall, CallFields
    <2>2. Append(imap.out, Head(imap.chan)) \o (Tail(imap.chan) \o imap.todo)
            = imap.out \o (imap.chan \o imap.todo)
      BY <1>3, <2>1, RowsMove
    <2>3. all(imap') = all(imap)
      BY <2>1, <2>2
    <2> QED
      BY <1>5, <1>9, <2>1, <2>3
  <1>14. CASE Fetched
    <2>0. PICK r \in {"ok", "error", "missing"} :
             /\ imap' = [imap EXCEPT !.at = "return", !.result = r, !.out = Reverse(imap.out)]
             /\ r = "ok" => imap.done # "error"
      BY <1>14 DEF Fetched
    <2>1. /\ imap'.view = imap.view /\ imap'.at = "return" /\ imap.at = "fetching"
          /\ imap'.out = Reverse(imap.out) /\ imap.chan = <<>>
          /\ imap'.result = "ok" => imap.done = "ok"
      <3>1. imap.at = "fetching" /\ imap.chan = <<>> /\ imap.done \in {"ok", "error"}
        BY <1>2, <1>14 DEF Fetched, CallTyped
      <3> QED
        BY <1>1, <2>0, <3>1 DEF IsCall, CallFields
    <2>2. ASSUME imap.done = "ok" PROVE InOrder(imap.out, imap.view, limit)
      <3>1. imap.todo = <<>> /\ InOrder(all(imap), imap.view, limit)
        BY <1>9, <2>1, <2>2
      <3>2. all(imap) = imap.out
        <4>1. all(imap) = imap.out \o <<>>
          BY <1>3, <2>1, <3>1, RowsMove
        <4> QED
          BY <1>3, <4>1, ConcatEmptySeq
      <3> QED
        BY <3>1, <3>2
    <2>3. Reverse(imap'.out) = imap.out
      BY <1>3, <2>1, ReverseTwice
    <2> QED
      BY <1>4, <2>1, <2>2, <2>3
  <1>15. CASE Store \/ StoreReplied
    BY <1>3, <1>15 DEF Store, StoreReplied, PhaseTyped
  <1>16. CASE Logout \/ Close \/ Return
    <2>1. /\ imap'.view = imap.view /\ imap'.at # "fetching" /\ imap'.out = imap.out
          /\ imap'.result = imap.result
      BY <1>1, <1>16 DEF Logout, Close, Return, IsCall, CallFields
    <2> QED
      BY <1>3, <1>4, <2>1 DEF ListCall
  <1> QED
    BY <1>6, <1>7, <1>8, <1>10, <1>11, <1>12, <1>13, <1>14, <1>15, <1>16 DEF ImapStep

(* A list that is shown.                                                   *)
LEMMA ShownList ==
    ASSUME PInv, LInv, ShowList
    PROVE  ListPage(page') /\ imap' = NotCalled /\ UNCHANGED place
  <1>1. /\ page.pc = "list" /\ imap.at = "returned" /\ imap' = NotCalled /\ UNCHANGED place
        /\ page' = IF imap.result = "ok"
                   THEN [pc |-> "listed", rows |-> imap.out, of |-> imap.view,
                         limit |-> imap.op.limit]
                   ELSE [pc |-> "error"]
    BY DEF ShowList, Goes, ImapReset, mailVars
  <1>2. imap # NotCalled /\ CallTyped(imap) /\ imap.op.name = "list"
    BY <1>1, Awaited DEF CallOf
  <1>3. imap.op.limit \in Limits
    BY <1>2 DEF CallTyped, Ops
  <1>4. Counted(imap.view) /\ imap.out \in Seq(Rows)
        /\ (imap.result = "ok" => InOrder(Reverse(imap.out), imap.view, imap.op.limit))
    BY <1>2 DEF LInv, ListCall, CallTyped, RowsTyped
  <1>5. CASE imap.result = "ok"
    <2>1. page'.rows = imap.out /\ page'.of = imap.view /\ page'.limit = imap.op.limit
      BY <1>1, <1>5
    <2> QED
      BY <1>1, <1>3, <1>4, <1>5, <2>1 DEF ListPage
  <1>6. CASE imap.result # "ok"
    <2>1. page'.pc = "error"
      BY <1>1, <1>6
    <2> QED
      BY <1>1, <2>1 DEF ListPage
  <1> QED
    BY <1>5, <1>6

(* A call that begins, to list or for something else.                      *)
LEMMA ListBegins ==
    ASSUME NEW account, NEW op, Call(server, account, op)
    PROVE  ListCall(imap')
  <1>1. PICK c : c = [at |-> "connect", server |-> server, account |-> account, op |-> op,
                conn |-> "none", view |-> <<>>, todo |-> <<>>, chan |-> <<>>,
                done |-> "", out |-> <<>>, result |-> "", defers |-> <<>>, stored |-> FALSE]
    OBVIOUS
  <1>2. c.view = <<>> /\ c.at = "connect" /\ c.result = ""
    BY <1>1
  <1>3. Counted(<<>>)
    <2>1. <<>> \in Seq(Messages) /\ DOMAIN <<>> = {}
      OBVIOUS
    <2> QED
      BY <2>1 DEF Counted
  <1>4. ListCall(c)
    BY <1>2, <1>3 DEF ListCall
  <1>5. imap' = c
    BY <1>1 DEF Call
  <1> QED
    BY <1>4, <1>5

(* No list at the start.                                                   *)
LEMMA InitLInv == Init => LInv
  BY DEF Init, ImapInit, NoPage, LInv, ListPage

(* Every step keeps the lists in order.                                    *)
LEMMA StepLInv == IInv /\ PInv /\ LInv /\ [Next]_vars => LInv'
  <1> SUFFICES ASSUME IInv, PInv, LInv, [Next]_vars PROVE LInv'
    OBVIOUS
  <1>1. ASSUME UNCHANGED place, imap' # NotCalled => ListCall(imap'), ListPage(page')
        PROVE  LInv'
    BY <1>1 DEF LInv, ListCall, ListPage, Counted, InOrder
  <1>2. page'.pc # "listed" => ListPage(page')
    BY DEF ListPage
  <1>3. CASE UNCHANGED vars
    <2>1. UNCHANGED <<place, imap, page>>
      BY <1>3 DEF vars, mailVars, imapVars
    <2> QED
      BY <2>1, ListsStay
  <1>4. CASE handleMailbox \/ handleMessage \/ OpenForm
    <2>1. page'.pc \in {"list", "read", "opening"} /\ UNCHANGED place
      BY <1>4 DEF handleMailbox, handleMessage, OpenForm, Goes, mailVars
    <2>2. \E op : Call(server, setting.imap, op)
      BY <1>4 DEF handleMailbox, handleMessage, OpenForm, ListMessages, GetMessageCall
    <2> QED
      BY <1>1, <1>2, <2>1, <2>2, ListBegins
  <1>5. CASE Submit
    <2>1. page'.pc = "load" /\ UNCHANGED place
      BY <1>5 DEF Submit, Goes, mailVars
    <2>2. (\E op : Call(server, setting.imap, op)) \/ UNCHANGED imap
      BY <1>5 DEF Submit, GetMessageCall, imapVars
    <2> QED
      BY <1>1, <1>2, <2>1, <2>2, ListBegins DEF LInv
  <1>6. CASE SendReturned
    <2>1. page'.pc \in {"failed", "sent", "flag"} /\ UNCHANGED place
      <3>1. page.pc = "send" /\ UNCHANGED place
        BY <1>6 DEF SendReturned, mailVars
      <3>2. page = [pc |-> page.pc, form |-> page.form, original |-> page.original]
        BY <3>1 DEF PInv, PageGood
      <3> QED
        BY <1>6, <3>1, <3>2 DEF SendReturned, Goes, Failed
    <2>2. (\E op : Call(server, setting.imap, op)) \/ UNCHANGED imap
      BY <1>6 DEF SendReturned, markMessageFlag, imapVars
    <2> QED
      BY <1>1, <1>2, <2>1, <2>2, ListBegins DEF LInv
  <1>7. CASE ShowList
    BY <1>1, <1>7, ShownList
  <1>8. CASE ShowMessage \/ ShowForm \/ Loaded \/ FlagReturned \/ Restart
    <2>1. imap' = NotCalled /\ UNCHANGED place
      BY <1>8 DEF ShowMessage, ShowForm, Loaded, FlagReturned, Restart, ImapReset, mailVars
    <2>2. page'.pc # "listed"
      <3>1. CASE ShowMessage \/ ShowForm \/ Loaded \/ Restart
        BY <3>1 DEF ShowMessage, ShowForm, Loaded, Restart, SendFor, Failed, Goes, NoPage
      <3>2. CASE FlagReturned
        <4>1. page = [pc |-> page.pc, form |-> page.form, original |-> page.original]
          BY <3>2 DEF FlagReturned, PInv, PageGood
        <4> QED
          BY <3>2, <4>1 DEF FlagReturned, Goes
      <3> QED
        BY <1>8, <3>1, <3>2
    <2> QED
      BY <1>1, <1>2, <2>1, <2>2
  <1>9. CASE handleNewMessage \/ NewLoaded \/ Leave
    <2>1. page'.pc # "listed" /\ UNCHANGED <<place, imap>>
      BY <1>9 DEF handleNewMessage, NewLoaded, Leave, SendFor, Goes, NoPage, mailVars, imapVars
    <2> QED
      BY <1>1, <1>2, <2>1 DEF LInv
  <1>10. CASE OtherClients
    <2>1. UNCHANGED <<imap, page>> /\ (MailServerStep \/ UNCHANGED place)
      BY <1>10 DEF OtherClients, MarkDeleted, mailVars
    <2> QED
      BY <2>1, ListsStay
  <1>11. CASE ImapStep /\ UNCHANGED <<smtpVars, setting, header, page, looks, submits>>
    <2>1. UNCHANGED place /\ imap'.op = imap.op
      BY <1>11, ImapKeepsMailboxes, ImapTypes
    <2>2. ListCall(imap')
      <3>1. CASE imap.op.name = "list"
        BY <1>11, <3>1, ListSteps
      <3>2. CASE imap.op.name # "list"
        BY <2>1, <3>2 DEF ListCall
      <3> QED
        BY <3>1, <3>2
    <2> QED
      BY <1>1, <1>11, <2>1, <2>2 DEF LInv
  <1>12. CASE SmtpStep /\ UNCHANGED <<mailVars, imapVars, setting, header, page, looks, submits>>
    <2>1. UNCHANGED <<place, imap, page>>
      BY <1>12 DEF mailVars, imapVars
    <2> QED
      BY <2>1, ListsStay
  <1> QED
    BY <1>3, <1>4, <1>5, <1>6, <1>7, <1>8, <1>9, <1>10, <1>11, <1>12 DEF Next, Handler, Clients

(* ListMessages receives the newest messages in their order.               *)
THEOREM ListsInvariance == Spec => []LInv
  BY Invariance, PagesInvariance, InitLInv, StepLInv, PTL DEF Spec

(* The list page shows the newest messages, newest first, and misses none. *)
THEOREM ListNewest == Spec => []ListIsNewest
  <1>1. ASSUME LInv, page.pc = "listed" PROVE ListIsNewest
    <2> DEFINE view == page.of
               rows == page.rows
               limit == page.limit
               listed == {i \in DOMAIN rows : rows[i] # NoRow}
               Newer(i) == Cardinality({j \in DOMAIN view : j > i})
               newest == {view[i] : i \in {j \in DOMAIN view : Newer(j) < limit}}
               Position(m) == CHOOSE i \in DOMAIN view : view[i] = m
               q == Reverse(rows)
    <2>1. Counted(view) /\ rows \in Seq(Rows) /\ InOrder(q, view, limit)
      BY <1>1 DEF LInv, ListPage
    <2>2. /\ DOMAIN view = 1..Len(view) /\ Len(view) \in Nat
          /\ \A i \in DOMAIN view : view[i] \in Messages
          /\ \A i, j \in DOMAIN view : view[i] = view[j] => i = j
      BY <2>1, LenProperties, ElementOfSeq DEF Counted
    <2>3. \A i \in DOMAIN view : Newer(i) = Len(view) - i
      <3> SUFFICES ASSUME NEW i \in DOMAIN view PROVE Newer(i) = Len(view) - i
        OBVIOUS
      <3>1. {j \in DOMAIN view : j > i} = (i + 1)..Len(view)
        BY <2>2
      <3>2. Cardinality((i + 1)..Len(view)) = Len(view) - i
        <4>1. i + 1 \in Int /\ Len(view) \in Int
              /\ IF i + 1 > Len(view) THEN Len(view) - i = 0
                 ELSE Len(view) - (i + 1) + 1 = Len(view) - i
          BY <2>2
        <4> DEFINE a == i + 1
                   b == Len(view)
        <4>2. a \in Int /\ b \in Int
          BY <4>1
        <4> HIDE DEF a, b
        <4>3. Cardinality(a..b) = IF a > b THEN 0 ELSE b - a + 1
          BY <4>2, FS_Interval
        <4> QED
          BY <4>1, <4>3 DEF a, b
      <3> QED
        BY <3>1, <3>2
    <2>4. /\ Len(q) = Len(rows) /\ DOMAIN q = 1..Len(rows) /\ DOMAIN rows = 1..Len(rows)
          /\ Len(rows) \in Nat
          /\ \A i \in 1..Len(rows) : q[i] = rows[Len(rows) - i + 1]
      BY <2>1, ReverseIs, LenProperties
    <2>5. \A i \in DOMAIN rows : /\ Len(rows) - i + 1 \in DOMAIN q
                                 /\ q[Len(rows) - i + 1] = rows[i]
      <3> SUFFICES ASSUME NEW i \in DOMAIN rows
                   PROVE  /\ Len(rows) - i + 1 \in DOMAIN q
                          /\ q[Len(rows) - i + 1] = rows[i]
        OBVIOUS
      <3>1. Len(rows) - i + 1 \in 1..Len(rows) /\ Len(rows) - (Len(rows) - i + 1) + 1 = i
        BY <2>4, SMTT(30)
      <3> HIDE DEF q
      <3> QED
        BY <2>4, <3>1
    <2>6. \A m \in newest : \E i \in DOMAIN view : Len(view) - i < limit /\ m = view[i]
      BY <2>3
    <2>7. \A i \in DOMAIN view : Len(view) - i < limit => view[i] \in newest
      BY <2>3
    <2>8. \A i \in DOMAIN view : Position(view[i]) = i
      BY <2>2
    <2> HIDE DEF q, newest, Position
    <2>9. {m \in newest : place[m] # Expunged} \subseteq ToSet(rows)
      <3> SUFFICES ASSUME NEW m \in newest, place[m] # Expunged PROVE m \in ToSet(rows)
        OBVIOUS
      <3>1. PICK i \in DOMAIN view : Len(view) - i < limit /\ m = view[i]
        BY <2>6
      <3>2. PICK k \in DOMAIN q : q[k] = m
        BY <2>1, <3>1 DEF InOrder
      <3>3. Len(rows) - k + 1 \in DOMAIN rows /\ rows[Len(rows) - k + 1] = m
        BY <2>4, <3>2
      <3> QED
        BY <3>3 DEF ToSet
    <2>10. \A i \in listed : \E j \in DOMAIN view :
              Len(view) - j < limit /\ rows[i] = view[j]
      <3> SUFFICES ASSUME NEW i \in DOMAIN rows, rows[i] # NoRow
                   PROVE  \E j \in DOMAIN view : Len(view) - j < limit /\ rows[i] = view[j]
        OBVIOUS
      <3>1. Len(rows) - i + 1 \in DOMAIN q /\ q[Len(rows) - i + 1] = rows[i]
        BY <2>5
      <3> QED
        BY <2>1, <3>1 DEF InOrder
    <2>11. \A i \in listed : rows[i] \in newest
      BY <2>7, <2>10
    <2>12. ASSUME NEW i \in listed, NEW j \in listed, i < j
           PROVE  Position(rows[i]) > Position(rows[j])
      <3>1. PICK k \in DOMAIN view : rows[i] = view[k]
        BY <2>10
      <3>2. PICK l \in DOMAIN view : rows[j] = view[l]
        BY <2>10
      <3> DEFINE a == Len(rows) - i + 1
                 b == Len(rows) - j + 1
      <3>3. a \in DOMAIN q /\ b \in DOMAIN q /\ q[a] = view[k] /\ q[b] = view[l]
        BY <2>5, <3>1, <3>2
      <3>4. b < a
        BY <2>4, <2>12
      <3> HIDE DEF a, b
      <3>5. l < k
        BY <2>1, <3>3, <3>4 DEF InOrder
      <3>6. Position(rows[i]) = k /\ Position(rows[j]) = l
        BY <2>8, <3>1, <3>2
      <3> QED
        BY <2>2, <3>5, <3>6
    <2> QED
      BY <2>9, <2>11, <2>12 DEF ListIsNewest, newest, Position
  <1>2. LInv => ListIsNewest
    BY <1>1 DEF ListIsNewest
  <1> QED
    BY <1>2, ListsInvariance, PTL
=============================================================================
