--------------------- MODULE MailClientsRefinementProof ---------------------
(***************************************************************************)
(* The handlers with the two protocols underneath implement Compose: every *)
(* step is a step of Compose or leaves its state as it is.                 *)
(*                                                                         *)
(* The mapping looks into calls that are under way, so the argument needs  *)
(* what a call knows of its page and of what it has done so far: RInv,     *)
(* besides the types of PInv and the ends of calls of IInv.                *)
(***************************************************************************)
EXTENDS MailClientsProofs, MailClientsRefinement

\* A call is about what its page is about, and knows whether the STORE was done.
CallAbout ==
    imap # NotCalled =>
        /\ page.pc = "opening" => imap.op.uid = page.uid
        /\ page.pc = "load" => imap.op.uid = page.form.uid
        /\ page.pc = "flag" => imap.op.uid = page.form.uid
                               /\ imap.op.flag = Flag(page.form.mode)
        /\ imap.stored \in BOOLEAN
        /\ imap.at \in ImapCommands \ {"stored"} => ~imap.stored
        /\ imap.at = "stored" => imap.stored
        /\ imap.op.name = "mark" /\ imap.result = "ok" => imap.stored

\* A Send knows whether the server took its message.
SendAbout ==
    smtp # Idle =>
        /\ smtp.taken \in BOOLEAN
        /\ smtp.at \in SmtpCommands \ {"taken", "quit"} => ~smtp.taken
        /\ smtp.at \in {"taken", "quit", "ok"} => smtp.taken

RInv == CallAbout /\ SendAbout
-----------------------------------------------------------------------------
(* What a call that begins has done.                                       *)
LEMMA NothingStored ==
    ASSUME NEW account, NEW op, Call(server, account, op)
    PROVE  /\ imap'.op = op /\ imap'.at = "connect" /\ imap'.stored = FALSE
           /\ imap'.result = "" /\ Fetching' = <<>>
  <1>1. <<>> \o (<<>> \o <<>>) = <<>>
    OBVIOUS
  <1>2. /\ imap'.todo = <<>> /\ imap'.chan = <<>> /\ imap'.out = <<>>
        /\ imap'.op = op /\ imap'.at = "connect" /\ imap'.stored = FALSE /\ imap'.result = ""
    BY DEF Call
  <1> QED
    BY <1>1, <1>2 DEF Fetching

(* A step of a call does the STORE, or has done what it had done before.   *)
LEMMA StoredSteps ==
    ASSUME IInv, PInv, RInv, ImapStep, UNCHANGED page
    PROVE  /\ CallAbout'
           /\ ~Store => imap'.stored = imap.stored
           /\ Store => imap'.stored = TRUE /\ ~imap.stored /\ imap.op.name = "mark"
  <1>1. imap # NotCalled /\ IsCall(imap)
    BY ImapKeepsMailboxes
  <1>2. imap'.op = imap.op
    BY ImapTypes
  <1>3. PhaseTyped(imap)
    BY <1>1 DEF PInv, CallTyped
  <1>4. /\ imap.stored \in BOOLEAN
        /\ imap.at \in ImapCommands \ {"stored"} => ~imap.stored
        /\ imap.at = "stored" => imap.stored
        /\ imap.op.name = "mark" /\ imap.result = "ok" => imap.stored
    BY <1>1 DEF RInv, CallAbout
  <1>5. /\ page.pc = "opening" => imap.op.uid = page.uid
        /\ page.pc = "load" => imap.op.uid = page.form.uid
        /\ page.pc = "flag" => imap.op.uid = page.form.uid
                               /\ imap.op.flag = Flag(page.form.mode)
    BY <1>1 DEF RInv, CallAbout
  <1>6. ASSUME imap'.stored \in BOOLEAN,
               imap'.at \in ImapCommands \ {"stored"} => ~imap'.stored,
               imap'.at = "stored" => imap'.stored,
               imap.op.name = "mark" /\ imap'.result = "ok" => imap'.stored
        PROVE  CallAbout'
    BY <1>2, <1>5, <1>6 DEF CallAbout
  <1>7. CASE ImapConnect \/ Login \/ Fetch
    <2>1. /\ imap.at \in {"connect", "login", "fetch"}
          /\ imap'.at \in {"login", "select", "fetching"}
          /\ imap'.stored = imap.stored /\ imap'.result = imap.result
      BY <1>1, <1>7 DEF ImapConnect, Login, Fetch, IsCall, CallFields
    <2> QED
      BY <1>4, <1>6, <2>1 DEF ImapCommands, Store
  <1>8. CASE Select
    <2> DEFINE view == IF imap.op.name = "list" THEN View(imap.server) ELSE <<>>
               next == CASE imap.op.name = "mark" -> "store"
                         [] imap.op.name = "list" /\ view = <<>> -> "return"
                         [] OTHER -> "fetch"
    <2>1. /\ imap.at = "select" /\ imap'.at = next /\ imap'.stored = imap.stored
          /\ imap'.result = IF next = "return" THEN "ok" ELSE ""
      BY <1>1, <1>8 DEF Select, IsCall, CallFields
    <2>2. /\ next \in {"store", "fetch", "return"}
          /\ next = "return" => imap.op.name = "list"
      OBVIOUS
    <2> HIDE DEF view, next
    <2> QED
      BY <1>4, <1>6, <2>1, <2>2 DEF ImapCommands, Store
  <1>9. CASE Deliver \/ DeliverUnasked \/ FetchReturns \/ Receive
    <2>1. /\ imap.at = "fetching" /\ imap'.at = "fetching"
          /\ imap'.stored = imap.stored /\ imap'.result = imap.result
      BY <1>1, <1>9 DEF Deliver, DeliverUnasked, FetchReturns, Receive, IsCall, CallFields
    <2> QED
      BY <1>4, <1>6, <2>1 DEF ImapCommands, Store
  <1>10. CASE Fetched
    <2>1. imap.at = "fetching" /\ imap'.at = "return" /\ imap'.stored = imap.stored
      BY <1>1, <1>10 DEF Fetched, IsCall, CallFields
    <2> QED
      BY <1>3, <1>4, <1>6, <2>1 DEF ImapCommands, Store, PhaseTyped
  <1>11. CASE Store
    <2>1. imap.at = "store" /\ imap'.at = "stored" /\ imap'.stored = TRUE
      BY <1>1, <1>11 DEF Store, IsCall, CallFields
    <2> QED
      BY <1>3, <1>4, <1>6, <1>11, <2>1 DEF ImapCommands, PhaseTyped
  <1>12. CASE StoreReplied
    <2>1. imap.at = "stored" /\ imap'.at = "return" /\ imap'.stored = imap.stored
      BY <1>1, <1>12 DEF StoreReplied, IsCall, CallFields
    <2> QED
      BY <1>4, <1>6, <2>1 DEF ImapCommands, Store
  <1>13. CASE ImapFails
    <2>1. imap'.at = "return" /\ imap'.stored = imap.stored /\ imap'.result = "error"
      BY <1>1, <1>13 DEF ImapFails, IsCall, CallFields
    <2>2. imap'.at # "stored"
      BY <2>1
    <2>3. CallAbout'
      BY <1>4, <1>6, <2>1 DEF ImapCommands
    <2>4. ~Store
      BY <1>1, <2>2 DEF Store, IsCall, CallFields
    <2> QED
      BY <2>1, <2>3, <2>4
  <1>14. CASE Logout \/ Close \/ Return
    <2>1. /\ imap.at = "return" /\ imap'.at \in {"return", "returned"}
          /\ imap'.stored = imap.stored /\ imap'.result = imap.result
      BY <1>1, <1>14 DEF Logout, Close, Return, IsCall, CallFields
    <2> QED
      BY <1>4, <1>6, <2>1 DEF ImapCommands, Store
  <1> QED
    BY <1>7, <1>8, <1>9, <1>10, <1>11, <1>12, <1>13, <1>14 DEF ImapStep

(* A step of a Send takes the message once.                                *)
LEMMA SendAboutSteps ==
    ASSUME PInv, RInv, SmtpStep
    PROVE  /\ SendAbout' /\ smtp # Idle
           /\ ~Take => UNCHANGED delivered /\ smtp'.taken = smtp.taken
           /\ Take => ~smtp.taken /\ smtp'.taken = TRUE
  <1>1. smtp # Idle
    BY DEF SmtpStep, SmtpConnect, StartTLS, Auth, Mail, Rcpt, Data, Take, Taken250, Quit,
           SmtpFails, SmtpCommands, Idle
  <1>2. IsSend(smtp)
    BY <1>1 DEF PInv, SendGood
  <1>3. /\ smtp.taken \in BOOLEAN
        /\ smtp.at \in SmtpCommands \ {"taken", "quit"} => ~smtp.taken
        /\ smtp.at \in {"taken", "quit", "ok"} => smtp.taken
    BY <1>1 DEF RInv, SendAbout
  <1>4. CASE SmtpConnect \/ StartTLS \/ Auth \/ Mail \/ Rcpt \/ Data
    <2>1. /\ smtp.at \in {"connect", "starttls", "auth", "mail", "rcpt"}
          /\ smtp'.at \in {"starttls", "auth", "mail", "rcpt", "body", "error"}
          /\ smtp'.taken = smtp.taken /\ UNCHANGED delivered
      BY <1>2, <1>4 DEF SmtpConnect, StartTLS, Auth, Mail, Rcpt, Data, SmtpGoes, IsSend, SendFields
    <2> QED
      BY <1>1, <1>3, <2>1 DEF SendAbout, SmtpCommands, Take
  <1>5. CASE Take
    <2>1. smtp.at = "body" /\ smtp'.at = "taken" /\ smtp'.taken = TRUE
      BY <1>2, <1>5 DEF Take, IsSend, SendFields
    <2> QED
      BY <1>1, <1>3, <1>5, <2>1 DEF SendAbout, SmtpCommands
  <1>6. CASE Taken250 \/ Quit
    <2>1. /\ smtp.at \in {"taken", "quit"} /\ smtp'.at \in {"quit", "ok"}
          /\ smtp'.taken = smtp.taken /\ UNCHANGED delivered
      BY <1>2, <1>6 DEF Taken250, Quit, SmtpGoes, IsSend, SendFields
    <2> QED
      BY <1>1, <1>3, <2>1 DEF SendAbout, SmtpCommands, Take
  <1>7. CASE SmtpFails
    <2>1. smtp'.at = "error" /\ smtp'.taken = smtp.taken /\ UNCHANGED delivered
      BY <1>2, <1>7 DEF SmtpFails, SmtpGoes, IsSend, SendFields
    <2>2. SendAbout' /\ ~Take
      BY <1>2, <1>3, <2>1 DEF SendAbout, SmtpCommands, Take, IsSend, SendFields
    <2> QED
      BY <1>1, <2>1, <2>2
  <1> QED
    BY <1>4, <1>5, <1>6, <1>7 DEF SmtpStep

(* A Send that begins.                                                     *)
LEMMA NothingTaken ==
    ASSUME NEW account, NEW message, NEW id, Send(account, message, id)
    PROVE  SendAbout' /\ smtp'.taken = FALSE /\ UNCHANGED delivered
  <1>1. smtp'.at \in {"connect", "error"} /\ smtp'.taken = FALSE /\ UNCHANGED delivered
    BY DEF Send
  <1> QED
    BY <1>1 DEF SendAbout, SmtpCommands

(* A page whose call is the one that begins.                               *)
LEMMA BegunAbout ==
    ASSUME NEW account, NEW op, Call(server, account, op),
           /\ page'.pc = "opening" => op.uid = page'.uid
           /\ page'.pc = "load" => op.uid = page'.form.uid
           /\ page'.pc = "flag" => op.uid = page'.form.uid /\ op.flag = Flag(page'.form.mode)
    PROVE  CallAbout'
  BY NothingStored DEF CallAbout, ImapCommands

(* Pages that are at rest have no call, pages but "send" have no Send.     *)
LEMMA RestAbout ==
    ASSUME imap' = NotCalled \/ (UNCHANGED imap /\ imap = NotCalled)
    PROVE  CallAbout'
  BY DEF CallAbout

(* At the start nothing is under way.                                      *)
LEMMA InitRInv == Init => RInv
  BY DEF Init, ImapInit, SmtpInit, RInv, CallAbout, SendAbout

(* Every step keeps it.                                                    *)
LEMMA StepRInv == IInv /\ PInv /\ RInv /\ [Next]_vars => RInv'
  <1> SUFFICES ASSUME IInv, PInv, RInv, [Next]_vars PROVE RInv'
    OBVIOUS
  <1>1. ASSUME UNCHANGED <<imap, page>> PROVE CallAbout'
    BY <1>1 DEF RInv, CallAbout
  <1>2. ASSUME UNCHANGED smtp PROVE SendAbout'
    BY <1>2 DEF RInv, SendAbout
  <1>3. ASSUME smtp' = Idle PROVE SendAbout'
    BY <1>3 DEF SendAbout
  <1>4. ASSUME page.pc \in Resting \cup {"load", "send"}, CallOf(page) = "none"
        PROVE  imap = NotCalled
    BY <1>4 DEF PInv, CallTyped, Ops
  <1>5. CASE UNCHANGED vars
    BY <1>1, <1>2, <1>5 DEF vars, imapVars, smtpVars, RInv
  <1>6. CASE handleMailbox \/ handleMessage \/ OpenForm
    <2>1. UNCHANGED smtp
      BY <1>6 DEF handleMailbox, handleMessage, OpenForm, smtpVars
    <2>2. CallAbout'
      <3>1. CASE handleMailbox
        <4>1. PICK limit \in Limits :
                 /\ Call(server, setting.imap, [name |-> "list", limit |-> limit])
                 /\ page' = [pc |-> "list"]
          BY <3>1 DEF handleMailbox, ListMessages, Goes
        <4> QED
          BY <4>1, BegunAbout
      <3>2. CASE handleMessage
        <4>1. PICK uid \in Uids :
                 /\ Call(server, setting.imap, [name |-> "get", uid |-> uid])
                 /\ page' = [pc |-> "read"]
          BY <3>2 DEF handleMessage, GetMessageCall, Goes
        <4> QED
          BY <4>1, BegunAbout
      <3>3. CASE OpenForm
        <4>1. PICK mode \in Modes \ {"new"}, uid \in Uids :
                 /\ Call(server, setting.imap, [name |-> "get", uid |-> uid])
                 /\ page' = [pc |-> "opening", mode |-> mode, uid |-> uid]
          BY <3>3 DEF OpenForm, GetMessageCall, Goes
        <4> QED
          BY <4>1, BegunAbout
      <3> QED
        BY <1>6, <3>1, <3>2, <3>3
    <2> QED
      BY <1>2, <2>1, <2>2 DEF RInv
  <1>7. CASE ShowList \/ ShowMessage \/ ShowForm \/ FlagReturned
    <2>1. imap' = NotCalled /\ UNCHANGED smtp
      BY <1>7 DEF ShowList, ShowMessage, ShowForm, FlagReturned, ImapReset, smtpVars
    <2> QED
      BY <1>2, <2>1, RestAbout DEF RInv
  <1>8. CASE handleNewMessage \/ Leave
    <2>1. /\ page.pc \in Resting /\ UNCHANGED <<imap, smtp>>
      BY <1>8 DEF handleNewMessage, Leave, NoPage, Resting, imapVars, smtpVars
    <2>2. imap = NotCalled
      BY <1>4, <2>1, RestingIsStill DEF Still
    <2> QED
      BY <1>2, <2>1, <2>2, RestAbout DEF RInv
  <1>9. CASE Submit
    <2>1. PICK form \in Filled(page.form) :
             /\ page' = [pc |-> "load", form |-> form]
             /\ IF form.mode = "new" THEN UNCHANGED imapVars
                ELSE Call(server, setting.imap, [name |-> "get", uid |-> form.uid])
      BY <1>9 DEF Submit, Goes, GetMessageCall
    <2>2. page.pc = "form" /\ UNCHANGED smtp
      BY <1>9 DEF Submit, smtpVars
    <2>3. imap = NotCalled
      BY <1>4, <2>2, RestingIsStill DEF Still, Resting
    <2>4. CASE form.mode = "new"
      BY <1>2, <2>1, <2>2, <2>3, <2>4, RestAbout DEF RInv, imapVars
    <2>5. CASE form.mode # "new"
      <3>1. CallAbout'
        BY <2>1, <2>5, BegunAbout
      <3> QED
        BY <1>2, <2>2, <3>1 DEF RInv
    <2> QED
      BY <2>4, <2>5
  <1>10. CASE NewLoaded
    <2>1. page.pc = "load" /\ page.form.mode = "new" /\ UNCHANGED imap
      BY <1>10 DEF NewLoaded, imapVars
    <2>2. imap = NotCalled
      BY <1>4, <2>1 DEF CallOf
    <2>3. SendAbout'
      BY <1>10, NothingTaken DEF NewLoaded, SendFor
    <2> QED
      BY <2>1, <2>2, <2>3, RestAbout DEF RInv
  <1>11. CASE Loaded
    <2>1. imap' = NotCalled
      BY <1>11 DEF Loaded, ImapReset
    <2>2. SendAbout'
      <3>1. CASE imap.result = "ok" /\ Threadable(page.form.mode, imap.out[1])
        BY <1>11, <3>1, NothingTaken DEF Loaded, SendFor
      <3>2. CASE ~(imap.result = "ok" /\ Threadable(page.form.mode, imap.out[1]))
        BY <1>2, <1>11, <3>2 DEF Loaded, smtpVars
      <3> QED
        BY <3>1, <3>2
    <2> QED
      BY <2>1, <2>2, RestAbout DEF RInv
  <1>12. CASE SendReturned
    <2>1. smtp' = Idle /\ page.pc = "send"
      BY <1>12 DEF SendReturned, SmtpReset
    <2>2. imap = NotCalled
      BY <1>4, <2>1 DEF CallOf
    <2>3. CallAbout'
      <3>1. CASE UNCHANGED imapVars
        BY <2>2, <3>1, RestAbout DEF imapVars
      <3>2. CASE ~(UNCHANGED imapVars)
        <4>1. /\ page' = [page EXCEPT !.pc = "flag"]
              /\ Call(server, setting.imap, [name |-> "mark", uid |-> page.form.uid,
                                             flag |-> Flag(page.form.mode)])
          BY <1>12, <3>2 DEF SendReturned, Goes, markMessageFlag
        <4>2. page = [pc |-> page.pc, form |-> page.form, original |-> page.original]
          BY <2>1 DEF PInv, PageGood
        <4>3. page'.form = page.form /\ page'.pc = "flag"
          BY <4>1, <4>2
        <4> QED
          BY <4>1, <4>3, BegunAbout
      <3> QED
        BY <3>1, <3>2
    <2> QED
      BY <1>3, <2>1, <2>3 DEF RInv
  <1>13. CASE Restart
    <2>1. imap' = NotCalled /\ smtp' = Idle
      BY <1>13 DEF Restart, ImapReset, SmtpReset
    <2> QED
      BY <1>3, <2>1, RestAbout DEF RInv
  <1>14. CASE OtherClients
    <2>1. UNCHANGED <<imap, page, smtp>>
      BY <1>14 DEF OtherClients, MarkDeleted, smtpVars
    <2> QED
      BY <1>1, <1>2, <2>1 DEF RInv
  <1>15. CASE ImapStep /\ UNCHANGED <<smtpVars, setting, header, page, looks, submits>>
    BY <1>2, <1>15, StoredSteps DEF RInv, smtpVars
  <1>16. CASE SmtpStep /\ UNCHANGED <<mailVars, imapVars, setting, header, page, looks, submits>>
    BY <1>1, <1>16, SendAboutSteps DEF RInv, imapVars
  <1> QED
    BY <1>5, <1>6, <1>7, <1>8, <1>9, <1>10, <1>11, <1>12, <1>13, <1>14, <1>15, <1>16
       DEF Next, Handler, Clients

(* What the mapping needs of calls and Sends.                              *)
LEMMA AboutInvariance == Spec => [](IInv /\ PInv /\ RInv)
  BY InitRInv, StepRInv, Invariance, PagesInvariance, PTL DEF Spec
-----------------------------------------------------------------------------
(* The mapping, page by page.                                              *)

(* Pages without a form are closed tabs of Compose.                        *)
LEMMA TabShut ==
    ASSUME NEW p, NEW f, NEW s, NEW k,
           p.pc \in {"closed", "list", "read", "listed", "message", "missing", "error"}
    PROVE  TabOf(p, f, s, k) = [pc |-> "closed"]
  BY DEF TabOf

(* A form that is being opened is there once the FETCH has its message.    *)
LEMMA TabOpening ==
    ASSUME NEW p, NEW f, NEW s, NEW k, p.pc = "opening"
    PROVE  /\ f = <<>> => TabOf(p, f, s, k) = [pc |-> "opening", mode |-> Kind(p.mode),
                                               uid |-> p.uid, server |-> server]
           /\ f # <<>> => TabOf(p, f, s, k) =
                 [pc |-> "form", form |-> [mode |-> Kind(p.mode), uid |-> p.uid,
                                           about |-> f[1], from |-> server]]
  BY DEF TabOf

(* A form is a form.                                                        *)
LEMMA TabForm ==
    ASSUME NEW p, NEW f, NEW s, NEW k, p.pc = "form"
    PROVE  TabOf(p, f, s, k) = [pc |-> "form", form |-> ComposeForm(p.form)]
  BY DEF TabOf

\* The original is there and can be answered.
GotOriginal(p, f) == p.form.mode # "new" /\ f # <<>> /\ Threadable(p.form.mode, f[1])

(* A send loads the original until the FETCH has it.                       *)
LEMMA TabLoad ==
    ASSUME NEW p, NEW f, NEW s, NEW k, p.pc = "load"
    PROVE  /\ ~GotOriginal(p, f) => TabOf(p, f, s, k) =
                 [pc |-> "load", form |-> ComposeForm(p.form), server |-> server]
           /\ GotOriginal(p, f) => TabOf(p, f, s, k) =
                 [pc |-> "send", form |-> ComposeForm(p.form), server |-> server,
                  original |-> f[1]]
  BY DEF TabOf, GotOriginal

\* A tab whose message is on its way or sent.
Sending(pc, p) ==
    [pc |-> pc, form |-> ComposeForm(p.form), server |-> server, original |-> p.original]

(* Sending, flagging, and the pages after it.                              *)
LEMMA TabSend ==
    ASSUME NEW p, NEW f, NEW s, NEW k
    PROVE  /\ p.pc = "send" => TabOf(p, f, s, k) = Sending(IF k THEN "taken" ELSE "send", p)
           /\ p.pc = "flag" => TabOf(p, f, s, k) = Sending(IF s THEN "flagged" ELSE "flag", p)
           /\ p.pc = "sent" => TabOf(p, f, s, k) = Sending("sent", p)
           /\ p.pc = "warned" => TabOf(p, f, s, k) = Sending("warned", p)
  <1>1. CASE p.pc = "send"
    BY <1>1 DEF TabOf, Sending
  <1>2. CASE p.pc = "flag"
    BY <1>2 DEF TabOf, Sending
  <1>3. CASE p.pc = "sent"
    BY <1>3 DEF TabOf, Sending
  <1>4. CASE p.pc = "warned"
    BY <1>4 DEF TabOf, Sending
  <1> QED
    BY <1>1, <1>2, <1>3, <1>4

(* Pages that say, or leave open, whether the message was sent.            *)
LEMMA TabFailed ==
    ASSUME NEW p, NEW f, NEW s, NEW k, p.pc \in {"failed", "lost"}
    PROVE  TabOf(p, f, s, k) = [pc |-> p.pc, form |-> ComposeForm(p.form), sent |-> p.sent]
  BY DEF TabOf

(* A form of Compose is new, or an answer to the message it quotes.        *)
LEMMA ComposeForms ==
    ASSUME NEW form
    PROVE  /\ (ComposeForm(form)).mode = Kind(form.mode)
           /\ Kind(form.mode) = "new" <=> form.mode = "new"
           /\ form.mode # "new" => (ComposeForm(form)).uid = form.uid
           /\ Flag(form.mode) = Abstract!FlagOf(Kind(form.mode))
           /\ \A m : Abstract!Threadable(Kind(form.mode), m) <=> Threadable(form.mode, m)
  BY DEF ComposeForm, Kind, Flag, Abstract!FlagOf, Abstract!Threadable, Threadable
-----------------------------------------------------------------------------
(* Steps of the tab of Compose.                                            *)
ComposeStep == [Abstract!Next]_(Abstract!vars)

(* The account of Compose has both settings.                               *)
LEMMA AccountIs ==
    /\ [imap |-> server, smtp |-> TRUE] # NoAccount /\ server # NoServer
    /\ server \in Servers
  <1>1. server \in Servers
    BY ServerIs
  <1> HIDE DEF server
  <1>2. [imap |-> server, smtp |-> TRUE] \in [imap : Servers, smtp : BOOLEAN]
    BY <1>1
  <1> QED
    BY <1>1, <1>2, MailClientsRefinementAssumption DEF MailClientsRefinementAssumption

(* What Compose assumes of its constants holds here.                       *)
LEMMA ComposeAssumed == Abstract!ComposeAssumption /\ Abstract!MailServerAssumption
  BY MailClientsRefinementAssumption, MailServerAssumption
     DEF MailClientsRefinementAssumption, MailServerAssumption, Abstract!ComposeAssumption,
         Abstract!MailServerAssumption, Uids, Abstract!Uids

(* The tab shows q next.                                                   *)
LEMMA Shows ==
    ASSUME NEW q, ComposeTab' = q
    PROVE  Abstract!Show("tab", q)
  BY DEF Abstract!Show

(* A step of the tab is a step of Compose.                                 *)
LEMMA TabSteps ==
    ASSUME \/ Abstract!handleNewMessage("tab")
           \/ \E mode \in Abstract!requiresOriginal, uid \in Abstract!Uids :
                 Abstract!ReadForForm("tab", mode, uid)
           \/ Abstract!ShowForm("tab") \/ Abstract!NoForm("tab")
           \/ Abstract!ReadAccount("tab") \/ Abstract!handleSendMessage("tab")
           \/ Abstract!Leave("tab")
    PROVE  ComposeStep
  BY DEF ComposeStep, Abstract!Next

(* What was sent is not accepted later than the Send has it taken.         *)
LEMMA AcceptedStays ==
    ASSUME UNCHANGED delivered
    PROVE  UNCHANGED {<<d.id.original, Flag(d.id.form.mode)>> :
                         d \in {e \in delivered : e.id.form.mode # "new"}}
  OBVIOUS

(* A step that Compose does not see.                                       *)
LEMMA Stutters ==
    ASSUME UNCHANGED <<mailVars, delivered, submits>>, ComposeTab' = ComposeTab
    PROVE  ComposeStep
  <1>1. UNCHANGED Abstract!vars
    BY DEF Abstract!vars, Abstract!mailVars, mailVars
  <1> QED
    BY <1>1 DEF ComposeStep
-----------------------------------------------------------------------------
(* A FETCH that is under way has what the server read, wherever that is.   *)
LEMMA OneOfThree ==
    ASSUME NEW m
    PROVE  /\ <<m>> \o (<<>> \o <<>>) = <<m>>
           /\ <<>> \o (<<m>> \o <<>>) = <<m>>
           /\ <<>> \o (<<>> \o <<m>>) = <<m>>
           /\ <<>> \o (<<>> \o <<>>) = <<>>
  OBVIOUS

(* The stages of a call by UID hold nothing or that one message.           *)
LEMMA FetchingIs ==
    ASSUME PInv, imap # NotCalled, imap.op.name = "get"
    PROVE  /\ imap.at \in ImapCommands => Fetching = <<>>
           /\ \A m : /\ imap.todo = <<m>> => Fetching = <<m>>
                     /\ imap.chan = <<m>> => Fetching = <<m>>
                     /\ imap.out = <<m>> => Fetching = <<m>>
           /\ Fetching # <<>> => \E m \in Messages : Fetching = <<m>>
  <1>1. PhaseTyped(imap) /\ AtMostOne(imap)
    BY DEF PInv, CallTyped, RowsTyped
  <1>2. ASSUME Nothing(imap) PROVE Fetching = <<>>
    BY <1>2, OneOfThree DEF Nothing, Fetching
  <1>3. ASSUME NEW m \in Messages,
               \/ imap.todo = <<m>> /\ imap.chan = <<>> /\ imap.out = <<>>
               \/ imap.todo = <<>> /\ imap.chan = <<m>> /\ imap.out = <<>>
               \/ imap.todo = <<>> /\ imap.chan = <<>> /\ imap.out = <<m>>
        PROVE  Fetching = <<m>>
    BY <1>3, OneOfThree DEF Fetching
  <1>4. imap.at \in ImapCommands => Fetching = <<>>
    BY <1>1, <1>2 DEF PhaseTyped
  <1>5. Fetching # <<>> => \E m \in Messages : Fetching = <<m>>
    BY <1>1, <1>2, <1>3 DEF AtMostOne
  <1>6. ASSUME NEW m, imap.todo = <<m>> \/ imap.chan = <<m>> \/ imap.out = <<m>>
        PROVE  Fetching = <<m>>
    <2>1. ~Nothing(imap)
      <3>1. <<m>> # <<>>
        OBVIOUS
      <3> QED
        BY <1>6, <3>1 DEF Nothing
    <2>2. PICK n \in Messages :
             \/ imap.todo = <<n>> /\ imap.chan = <<>> /\ imap.out = <<>>
             \/ imap.todo = <<>> /\ imap.chan = <<n>> /\ imap.out = <<>>
             \/ imap.todo = <<>> /\ imap.chan = <<>> /\ imap.out = <<n>>
      BY <1>1, <2>1 DEF AtMostOne
    <2>3. Fetching = <<n>>
      BY <1>3, <2>2
    <2> QED
      BY <1>6, <2>2, <2>3
  <1> QED
    BY <1>4, <1>5, <1>6

(* The server reads the message that has the UID, or none.                 *)
LEMMA FetchReads ==
    ASSUME IInv, PInv, Fetch, imap.op.name = "get"
    PROVE  /\ Fetching = <<>>
           /\ \/ Fetching' = <<>>
              \/ \E m \in Messages : Fetching' = <<m>> /\ m \in GetMessage(server, imap.op.uid)
  <1>1. imap # NotCalled /\ IsCall(imap)
    BY ImapKeepsMailboxes DEF ImapStep
  <1>2. CallTyped(imap) /\ PhaseTyped(imap)
    BY <1>1 DEF PInv, CallTyped
  <1>3. imap.at = "fetch" /\ Nothing(imap)
    BY <1>2 DEF Fetch, PhaseTyped, ImapCommands
  <1>4. Fetching = <<>>
    BY <1>1, <1>3, FetchingIs DEF ImapCommands
  <1>5. imap'.todo = Asked /\ imap'.chan = <<>> /\ imap'.out = <<>>
    BY <1>1, <1>3 DEF Fetch, IsCall, CallFields, Nothing
  <1>6. imap.op.uid \in Uids /\ imap.server = server
    BY <1>2 DEF CallTyped, Ops
  <1>7. Asked = SetToSeq(GetMessage(server, imap.op.uid))
    BY <1>6 DEF Asked
  <1> DEFINE S == GetMessage(server, imap.op.uid)
  <1>8. \A m, n \in S : m \in Messages /\ m = n
    <2>1. \A m \in S : m \in Messages /\ place[m] = <<server, imap.op.uid>>
      BY DEF GetMessage, At
    <2>2. <<server, imap.op.uid>> \in Servers \X Uids
      BY <1>6, ServerIs
    <2> QED
      BY <2>1, <2>2 DEF PInv, Numbered
  <1> HIDE DEF S
  <1>9. /\ S = {} => SetToSeq(S) = <<>>
        /\ \A m : S = {m} => SetToSeq(S) = <<m>>
    BY FewToSeq
  <1>10. S = {} \/ \E m \in S : S = {m} /\ m \in Messages
    BY <1>8
  <1>11. Asked = SetToSeq(S)
    BY <1>7 DEF S
  <1>12. CASE S = {}
    BY <1>4, <1>5, <1>9, <1>11, <1>12, OneOfThree DEF Fetching
  <1>13. CASE S # {}
    <2>1. PICK m \in S : S = {m} /\ m \in Messages
      BY <1>10, <1>13
    <2>2. imap'.todo = <<m>>
      BY <1>5, <1>9, <1>11, <2>1
    <2>3. Fetching' = <<m>>
      BY <1>5, <2>2, OneOfThree DEF Fetching
    <2> QED
      BY <1>4, <2>1, <2>3 DEF S
  <1> QED
    BY <1>12, <1>13

(* The reader and the goroutine pass the message on, no step loses it.     *)
LEMMA FetchingStays ==
    ASSUME IInv, PInv, ImapStep, ~Fetch, imap.op.name = "get"
    PROVE  Fetching' = Fetching
  <1>1. imap # NotCalled /\ IsCall(imap)
    BY ImapKeepsMailboxes
  <1>2. AtMostOne(imap) /\ imap.op.name # "list"
    BY <1>1 DEF PInv, CallTyped, RowsTyped
  <1>3. CASE UNCHANGED <<imap.todo, imap.chan, imap.out>>
    BY <1>3 DEF Fetching
  <1>4. CASE Deliver
    <2>1. /\ imap'.todo = Tail(imap.todo) /\ imap'.chan = Append(imap.chan, Head(imap.todo))
          /\ imap'.out = imap.out /\ imap.todo # <<>>
      BY <1>1, <1>4 DEF Deliver, IsCall, CallFields
    <2>2. PICK m \in Messages : imap.todo = <<m>> /\ imap.chan = <<>> /\ imap.out = <<>>
      BY <1>2, <2>1 DEF AtMostOne, Nothing
    <2>3. imap'.todo = <<>> /\ imap'.chan = <<m>> /\ imap'.out = <<>>
      BY <2>1, <2>2
    <2> QED
      BY <2>2, <2>3, OneOfThree DEF Fetching
  <1>5. CASE Receive
    <2>1. /\ imap'.chan = Tail(imap.chan) /\ imap'.out = Append(imap.out, Head(imap.chan))
          /\ imap'.todo = imap.todo /\ imap.chan # <<>>
      BY <1>1, <1>5 DEF Receive, IsCall, CallFields
    <2>2. PICK m \in Messages : imap.todo = <<>> /\ imap.chan = <<m>> /\ imap.out = <<>>
      BY <1>2, <2>1 DEF AtMostOne, Nothing
    <2>3. imap'.todo = <<>> /\ imap'.chan = <<>> /\ imap'.out = <<m>>
      BY <2>1, <2>2
    <2> QED
      BY <2>2, <2>3, OneOfThree DEF Fetching
  <1>6. CASE Fetched
    <2>1. /\ imap'.chan = imap.chan /\ imap'.out = Reverse(imap.out)
          /\ imap'.todo = imap.todo
      BY <1>1, <1>6 DEF Fetched, IsCall, CallFields
    <2>2. \A m : Reverse(<<m>>) = <<m>> /\ Reverse(<<>>) = <<>>
      BY DEF Reverse
    <2>3. imap'.out = imap.out
      BY <1>2, <2>1, <2>2 DEF AtMostOne, Nothing
    <2> QED
      BY <2>1, <2>3 DEF Fetching
  <1>7. CASE ~Deliver /\ ~Receive /\ ~Fetched
    <2>1. UNCHANGED <<imap.todo, imap.chan, imap.out>>
      <3>1. CASE ImapConnect \/ Login \/ Select \/ Store \/ StoreReplied
        BY <1>1, <3>1 DEF ImapConnect, Login, Select, Store, StoreReplied, IsCall, CallFields
      <3>2. CASE FetchReturns \/ ImapFails
        BY <1>1, <3>2 DEF FetchReturns, ImapFails, IsCall, CallFields
      <3>3. CASE Logout \/ Close \/ Return
        BY <1>1, <3>3 DEF Logout, Close, Return, IsCall, CallFields
      <3> QED
        BY <1>2, <1>7, <3>1, <3>2, <3>3 DEF ImapStep, DeliverUnasked
    <2> QED
      BY <2>1, <1>3
  <1> QED
    BY <1>4, <1>5, <1>6, <1>7
-----------------------------------------------------------------------------
(* Steps of the handlers.                                                  *)

(* The pages that read do not concern Compose.                             *)
LEMMA ReadingPages ==
    ASSUME handleMailbox \/ handleMessage \/ ShowList \/ ShowMessage
    PROVE  ComposeStep
  <1>1. UNCHANGED <<mailVars, delivered, submits>>
    BY DEF handleMailbox, handleMessage, ShowList, ShowMessage, smtpVars
  <1>2. page.pc \in {"closed", "list", "read"}
    BY DEF handleMailbox, handleMessage, ShowList, ShowMessage, NoPage
  <1>3. page'.pc \in {"list", "read", "listed", "message", "missing", "error"}
    BY DEF handleMailbox, handleMessage, ShowList, ShowMessage, Goes
  <1>4. ComposeTab = [pc |-> "closed"] /\ ComposeTab' = [pc |-> "closed"]
    BY <1>2, <1>3, TabShut DEF ComposeTab
  <1> QED
    BY <1>1, <1>4, Stutters

(* The form of a new message.                                              *)
LEMMA NewForm ==
    ASSUME handleNewMessage
    PROVE  ComposeStep
  <1>1. /\ page.pc = "closed" /\ UNCHANGED <<mailVars, delivered, submits>>
        /\ page' = [pc |-> "form", form |-> [mode |-> "new", to |-> <<>>, cc |-> <<>>]]
    BY DEF handleNewMessage, NoPage, Goes, smtpVars
  <1>2. ComposeTab = [pc |-> "closed"]
    BY <1>1, TabShut DEF ComposeTab
  <1>3. ComposeForm(page'.form) = [mode |-> "new"] /\ page'.pc = "form"
    BY <1>1 DEF ComposeForm
  <1>4. ComposeTab' = [pc |-> "form", form |-> [mode |-> "new"]]
    BY <1>3, TabForm DEF ComposeTab
  <1>5. Abstract!Show("tab", [pc |-> "form", form |-> [mode |-> "new"]])
    BY <1>4, Shows
  <1>6. Abstract!handleNewMessage("tab")
    BY <1>1, <1>2, <1>5, AccountIs, AcceptedStays
       DEF Abstract!handleNewMessage, Abstract!Closed, Abstract!mailVars, mailVars, server
  <1> QED
    BY <1>6, TabSteps

(* The form of an answer, up to the call.                                  *)
LEMMA FormOpens ==
    ASSUME OpenForm
    PROVE  ComposeStep
  <1>1. PICK mode \in Modes \ {"new"}, uid \in Uids :
           /\ Call(server, setting.imap, [name |-> "get", uid |-> uid])
           /\ page' = [pc |-> "opening", mode |-> mode, uid |-> uid]
    BY DEF OpenForm, GetMessageCall, Goes
  <1>2. page.pc = "closed" /\ UNCHANGED <<mailVars, delivered, submits>>
    BY DEF OpenForm, NoPage, smtpVars
  <1>3. ComposeTab = [pc |-> "closed"]
    BY <1>2, TabShut DEF ComposeTab
  <1>4. Fetching' = <<>>
    BY <1>1, NothingStored
  <1>5. ComposeTab' = [pc |-> "opening", mode |-> Kind(mode), uid |-> uid, server |-> server]
    BY <1>1, <1>4, TabOpening DEF ComposeTab
  <1>6. Abstract!Show("tab", [pc |-> "opening", mode |-> Kind(mode), uid |-> uid,
                              server |-> server])
    BY <1>5, Shows
  <1>7. Kind(mode) \in Abstract!requiresOriginal /\ uid \in Abstract!Uids
    BY DEF Kind, Modes, Abstract!requiresOriginal, Abstract!Uids, Uids
  <1>8. Abstract!ReadForForm("tab", Kind(mode), uid)
    BY <1>2, <1>3, <1>6, AccountIs, AcceptedStays
       DEF Abstract!ReadForForm, Abstract!Closed, Abstract!mailVars, mailVars, server
  <1> QED
    BY <1>7, <1>8, TabSteps

(* The page with the form: Compose has shown it when the FETCH had the     *)
(* message, and an error afterwards takes it away again.                   *)
LEMMA FormShown ==
    ASSUME PInv, ShowForm
    PROVE  ComposeStep
  <1>1. page.pc = "opening" /\ imap.at = "returned" /\ UNCHANGED <<mailVars, delivered, submits>>
    BY DEF ShowForm, smtpVars
  <1>2. imap # NotCalled /\ imap.op.name = "get"
    BY <1>1, Awaited DEF CallOf
  <1>3. CASE imap.result = "ok"
    <2>1. PICK m \in Messages : imap.out = <<m>>
      <3>1. AtMostOne(imap) /\ imap.out # <<>>
        BY <1>2, <1>3 DEF PInv, CallTyped, RowsTyped, PhaseTyped
      <3> QED
        BY <3>1 DEF AtMostOne, Nothing
    <2>2. Fetching = <<m>> /\ imap.out[1] = m /\ <<m>> # <<>> /\ <<m>>[1] = m
      BY <1>2, <2>1, FetchingIs
    <2>3. ComposeTab = [pc |-> "form", form |-> [mode |-> Kind(page.mode), uid |-> page.uid,
                                                 about |-> m, from |-> server]]
      BY <1>1, <2>2, TabOpening DEF ComposeTab
    <2>4. PICK to, cc : page' = [pc |-> "form", form |-> [mode |-> page.mode, uid |-> page.uid,
                                                          about |-> m, to |-> to, cc |-> cc]]
      BY <1>3, <2>2 DEF ShowForm, Goes
    <2>5. page.mode # "new"
      BY <1>1 DEF PInv, PageGood
    <2>6. page'.pc = "form" /\ page'.form.mode = page.mode /\ page'.form.uid = page.uid
          /\ page'.form.about = m
      BY <2>4
    <2>7. ComposeForm(page'.form) = [mode |-> Kind(page.mode), uid |-> page.uid,
                                     about |-> m, from |-> server]
      BY <2>5, <2>6 DEF ComposeForm
    <2>8. ComposeTab' = ComposeTab
      BY <2>3, <2>6, <2>7, TabForm DEF ComposeTab
    <2> QED
      BY <1>1, <2>8, Stutters
  <1>4. CASE imap.result # "ok"
    <2>1. page'.pc = "closed"
      BY <1>4 DEF ShowForm, Goes, NoPage
    <2>2. ComposeTab' = [pc |-> "closed"]
      BY <2>1, TabShut DEF ComposeTab
    <2>3. Abstract!Show("tab", [pc |-> "closed"])
      BY <2>2, Shows
    <2>4. ComposeTab.pc \in {"opening", "form"}
      BY <1>1, TabOpening DEF ComposeTab
    <2>5. CASE ComposeTab.pc = "opening"
      <3>1. Abstract!NoForm("tab")
        BY <1>1, <2>3, <2>5, AcceptedStays
           DEF Abstract!NoForm, Abstract!Closed, Abstract!mailVars, mailVars, server
      <3> QED
        BY <3>1, TabSteps
    <2>6. CASE ComposeTab.pc = "form"
      <3>1. Abstract!Leave("tab")
        BY <1>1, <2>3, <2>6, AcceptedStays
           DEF Abstract!Leave, Abstract!Closed, Abstract!mailVars, mailVars, server
      <3> QED
        BY <3>1, TabSteps
    <2> QED
      BY <2>4, <2>5, <2>6
  <1> QED
    BY <1>3, <1>4

(* The post of a form: what the user filled in does not concern Compose.   *)
LEMMA FormSubmitted ==
    ASSUME PInv, Submit
    PROVE  ComposeStep
  <1>1. PICK form \in Filled(page.form) :
           /\ page' = [pc |-> "load", form |-> form]
           /\ IF form.mode = "new" THEN UNCHANGED imapVars
              ELSE Call(server, setting.imap, [name |-> "get", uid |-> form.uid])
    BY DEF Submit, Goes, GetMessageCall
  <1>2. /\ page.pc = "form" /\ UNCHANGED <<mailVars, delivered>>
        /\ submits < MaxSubmits /\ submits' = submits + 1
    BY DEF Submit, smtpVars
  <1>3. IsForm(page.form)
    BY <1>2 DEF PInv, PageGood, WithForm, FormGood
  <1>4. ComposeForm(form) = ComposeForm(page.form)
    <2>1. /\ form.mode = page.form.mode
          /\ form.mode # "new" => form.uid = page.form.uid /\ form.about = page.form.about
      <3>1. CASE page.form.to # <<>>
        BY <3>1 DEF Filled
      <3>2. CASE page.form.to = <<>>
        <4>1. PICK t \in Typed : form = [page.form EXCEPT !.to = t.to, !.cc = t.cc]
          BY <3>2 DEF Filled
        <4> QED
          BY <1>3, <4>1 DEF IsForm
      <3> QED
        BY <3>1, <3>2
    <2> QED
      BY <2>1 DEF ComposeForm
  <1>5. ComposeTab = [pc |-> "form", form |-> ComposeForm(page.form)]
    BY <1>2, TabForm DEF ComposeTab
  <1>6. ~GotOriginal(page', Fetching')
    BY <1>1, NothingStored DEF GotOriginal
  <1>7. ComposeTab' = [pc |-> "load", form |-> ComposeForm(page.form), server |-> server]
    BY <1>1, <1>4, <1>6, TabLoad DEF ComposeTab
  <1>8. Abstract!Show("tab", [pc |-> "load", form |-> ComposeForm(page.form),
                              server |-> server])
    BY <1>7, Shows
  <1>9. Abstract!ReadAccount("tab")
    BY <1>2, <1>5, <1>8, AccountIs, AcceptedStays
       DEF Abstract!ReadAccount, Abstract!mailVars, mailVars, server
  <1> QED
    BY <1>9, TabSteps

(* A new message has no original to load.                                  *)
LEMMA NewMessageLoaded ==
    ASSUME NewLoaded
    PROVE  ComposeStep
  <1>1. /\ page.pc = "load" /\ page.form.mode = "new" /\ UNCHANGED <<mailVars, submits>>
        /\ page' = [pc |-> "send", form |-> page.form, original |-> NoMessage]
    BY DEF NewLoaded, SendFor, Goes
  <1>2. smtp'.taken = FALSE /\ UNCHANGED delivered
    BY NothingTaken DEF NewLoaded, SendFor
  <1>3. ComposeTab = [pc |-> "load", form |-> ComposeForm(page.form), server |-> server]
    BY <1>1, TabLoad DEF ComposeTab, GotOriginal
  <1>4. page'.pc = "send" /\ page'.form = page.form /\ page'.original = NoMessage
    BY <1>1
  <1>5. ComposeTab' = Sending("send", page')
    BY <1>2, <1>4, TabSend DEF ComposeTab
  <1>6. ComposeTab' = [pc |-> "send", form |-> ComposeForm(page.form), server |-> server,
                       original |-> NoMessage]
    BY <1>4, <1>5 DEF Sending
  <1>7. Abstract!Show("tab", [pc |-> "send", form |-> ComposeForm(page.form),
                              server |-> server, original |-> NoMessage])
    BY <1>6, Shows
  <1>8. (ComposeForm(page.form)).mode = "new"
    BY <1>1, ComposeForms
  <1>9. Abstract!loadComposeOriginal("tab")
    BY <1>1, <1>2, <1>3, <1>7, <1>8, AcceptedStays
       DEF Abstract!loadComposeOriginal, Abstract!mailVars, mailVars, server
  <1> QED
    BY <1>9, TabSteps DEF Abstract!handleSendMessage

(* The original of an answer: Compose sends from the moment the server has *)
(* read it, and an error of the call is one of a load or of a send.        *)
LEMMA OriginalLoaded ==
    ASSUME PInv, Loaded
    PROVE  ComposeStep
  <1>1. /\ page.pc = "load" /\ imap.at = "returned" /\ UNCHANGED <<mailVars, submits>>
    BY DEF Loaded
  <1>2. imap # NotCalled /\ imap.op.name = "get" /\ page.form.mode # "new"
    <2>1. imap # NotCalled /\ CallTyped(imap) /\ imap.op.name = CallOf(page)
      BY <1>1, Awaited
    <2> QED
      BY <1>1, <2>1 DEF CallOf, CallTyped, Ops
  <1>3. CASE imap.result = "ok" /\ Threadable(page.form.mode, imap.out[1])
    <2>1. PICK m \in Messages : imap.out = <<m>>
      <3>1. AtMostOne(imap) /\ imap.out # <<>>
        BY <1>2, <1>3 DEF PInv, CallTyped, RowsTyped, PhaseTyped
      <3> QED
        BY <3>1 DEF AtMostOne, Nothing
    <2>2. Fetching = <<m>> /\ imap.out[1] = m /\ <<m>> # <<>> /\ <<m>>[1] = m
      BY <1>2, <2>1, FetchingIs
    <2>3. GotOriginal(page, Fetching)
      BY <1>2, <1>3, <2>2 DEF GotOriginal
    <2>4. ComposeTab = [pc |-> "send", form |-> ComposeForm(page.form), server |-> server,
                        original |-> m]
      BY <1>1, <2>2, <2>3, TabLoad DEF ComposeTab
    <2>5. page' = [pc |-> "send", form |-> page.form, original |-> m]
      BY <1>3, <2>2 DEF Loaded, SendFor, Goes
    <2>6. smtp'.taken = FALSE /\ UNCHANGED delivered
      BY <1>3, NothingTaken DEF Loaded, SendFor
    <2>7. page'.pc = "send" /\ page'.form = page.form /\ page'.original = m
      BY <2>5
    <2>8. ComposeTab' = Sending("send", page')
      BY <2>6, <2>7, TabSend DEF ComposeTab
    <2>9. ComposeTab' = ComposeTab
      BY <2>4, <2>7, <2>8 DEF Sending
    <2> QED
      BY <1>1, <2>6, <2>9, Stutters
  <1>4. CASE ~(imap.result = "ok" /\ Threadable(page.form.mode, imap.out[1]))
    <2>1. page' = Failed(page.form, FALSE) /\ UNCHANGED delivered
      BY <1>4 DEF Loaded, Goes, smtpVars
    <2>2. page'.pc = "failed" /\ page'.form = page.form /\ page'.sent = FALSE
      BY <2>1 DEF Failed
    <2>3. ComposeTab' = [pc |-> "failed", form |-> ComposeForm(page.form), sent |-> FALSE]
      <3>1. ComposeTab' = [pc |-> page'.pc, form |-> ComposeForm(page'.form), sent |-> page'.sent]
        BY <2>2, TabFailed DEF ComposeTab
      <3> QED
        BY <2>2, <3>1
    <2>4. Abstract!Show("tab", [pc |-> "failed", form |-> ComposeForm(page.form),
                                sent |-> FALSE])
      BY <2>3, Shows
    <2>5. (ComposeForm(page.form)).mode # "new"
      BY <1>2, ComposeForms
    <2>6. CASE ~GotOriginal(page, Fetching)
      <3>1. ComposeTab = [pc |-> "load", form |-> ComposeForm(page.form), server |-> server]
        BY <1>1, <2>6, TabLoad DEF ComposeTab
      <3>2. Abstract!LoadFails("tab")
        BY <1>1, <2>1, <2>4, <2>5, <3>1, AcceptedStays
           DEF Abstract!LoadFails, Abstract!Fail, Abstract!mailVars, mailVars, server
      <3> QED
        BY <3>2, TabSteps DEF Abstract!handleSendMessage
    <2>7. CASE GotOriginal(page, Fetching)
      <3>1. ComposeTab = [pc |-> "send", form |-> ComposeForm(page.form), server |-> server,
                          original |-> Fetching[1]]
        BY <1>1, <2>7, TabLoad DEF ComposeTab
      <3>2. Abstract!NotSent("tab")
        BY <1>1, <2>1, <2>4, <3>1, AcceptedStays
           DEF Abstract!NotSent, Abstract!Fail, Abstract!mailVars, mailVars, server
      <3> QED
        BY <3>2, TabSteps DEF Abstract!handleSendMessage
    <2> QED
      BY <2>6, <2>7
  <1> QED
    BY <1>3, <1>4

(* The return of Send: an error after the server took the message is       *)
(* SentWithError, one before that NotSent.                                 *)
LEMMA SendOver ==
    ASSUME PInv, RInv, SendReturned
    PROVE  ComposeStep
  <1>1. /\ page.pc = "send" /\ smtp.at \in SmtpReturned
        /\ UNCHANGED <<mailVars, submits, delivered>>
    BY DEF SendReturned, SmtpReset
  <1>2. /\ smtp.taken \in BOOLEAN
        /\ smtp.at = "ok" => smtp.taken
        /\ page = [pc |-> page.pc, form |-> page.form, original |-> page.original]
    BY <1>1 DEF PInv, PageGood, RInv, SendAbout
  <1>3. ComposeTab = Sending(IF smtp.taken THEN "taken" ELSE "send", page)
    BY <1>1, TabSend DEF ComposeTab
  <1>4. CASE smtp.at = "error"
    <2>1. page' = Failed(page.form, smtp.taken)
      BY <1>4 DEF SendReturned, Goes
    <2>2. page'.pc = "failed" /\ page'.form = page.form /\ page'.sent = smtp.taken
      BY <2>1 DEF Failed
    <2>3. ComposeTab' = [pc |-> "failed", form |-> ComposeForm(page.form), sent |-> smtp.taken]
      BY <2>2, TabFailed DEF ComposeTab
    <2>4. Abstract!Show("tab", [pc |-> "failed", form |-> ComposeForm(page.form),
                                sent |-> smtp.taken])
      BY <2>3, Shows
    <2>5. CASE smtp.taken
      <3>1. ComposeTab = Sending("taken", page)
        BY <1>3, <2>5
      <3>2. smtp.taken = TRUE
        BY <1>2, <2>5
      <3>3. Abstract!SentWithError("tab")
        BY <1>1, <2>4, <3>1, <3>2, AcceptedStays
           DEF Abstract!SentWithError, Abstract!Fail, Sending, Abstract!mailVars, mailVars, server
      <3> QED
        BY <3>3, TabSteps DEF Abstract!handleSendMessage
    <2>6. CASE ~smtp.taken
      <3>1. ComposeTab = Sending("send", page)
        BY <1>3, <2>6
      <3>2. smtp.taken = FALSE
        BY <1>2, <2>6
      <3>3. Abstract!NotSent("tab")
        BY <1>1, <2>4, <3>1, <3>2, AcceptedStays
           DEF Abstract!NotSent, Abstract!Fail, Sending, Abstract!mailVars, mailVars, server
      <3> QED
        BY <3>3, TabSteps DEF Abstract!handleSendMessage
    <2> QED
      BY <2>5, <2>6
  <1>5. CASE smtp.at = "ok"
    <2>1. ComposeTab = Sending("taken", page)
      BY <1>2, <1>3, <1>5
    <2> DEFINE next == IF page.form.mode = "new" THEN "sent" ELSE "flag"
    <2>2. page' = [page EXCEPT !.pc = next]
      BY <1>5 DEF SendReturned, Goes
    <2>3. page'.pc = next /\ page'.form = page.form /\ page'.original = page.original
      BY <1>2, <2>2
    <2>4. page.form.mode # "new" => imap'.stored = FALSE
      BY <1>5, NothingStored DEF SendReturned, markMessageFlag
    <2>5. ComposeTab' = Sending(next, page)
      <3>1. ComposeTab' = Sending(next, page')
        BY <2>3, <2>4, TabSend DEF ComposeTab
      <3> QED
        BY <2>3, <3>1 DEF Sending
    <2>6. Sending(next, page) = Abstract!AfterSend(ComposeTab)
      <3>1. (ComposeForm(page.form)).mode = "new" <=> page.form.mode = "new"
        BY ComposeForms
      <3> QED
        BY <2>1, <3>1 DEF Sending, Abstract!AfterSend
    <2>7. Abstract!Show("tab", Abstract!AfterSend(ComposeTab))
      BY <2>5, <2>6, Shows
    <2>8. Abstract!Sent("tab")
      BY <1>1, <2>1, <2>7, AcceptedStays
         DEF Abstract!Sent, Sending, Abstract!mailVars, mailVars, server
    <2> QED
      BY <2>8, TabSteps DEF Abstract!handleSendMessage
  <1> QED
    BY <1>1, <1>4, <1>5 DEF SmtpReturned

(* The return of markMessageFlag: without an error the server did the      *)
(* STORE, with one it may have.                                            *)
LEMMA FlagOver ==
    ASSUME PInv, RInv, FlagReturned
    PROVE  ComposeStep
  <1>1. /\ page.pc = "flag" /\ imap.at = "returned"
        /\ UNCHANGED <<mailVars, submits, delivered>>
    BY DEF FlagReturned, smtpVars
  <1>2. imap # NotCalled /\ imap.op.name = "mark"
    BY <1>1, Awaited DEF CallOf
  <1>3. imap.result = "ok" => imap.stored
    BY <1>2 DEF RInv, CallAbout
  <1>4. page = [pc |-> page.pc, form |-> page.form, original |-> page.original]
    BY <1>1 DEF PInv, PageGood
  <1>5. ComposeTab = Sending(IF imap.stored THEN "flagged" ELSE "flag", page)
    BY <1>1, TabSend DEF ComposeTab
  <1> DEFINE next == IF imap.result = "ok" THEN "sent" ELSE "warned"
  <1>6. page'.pc = next /\ page'.form = page.form /\ page'.original = page.original
    BY <1>4 DEF FlagReturned, Goes
  <1>7. ComposeTab' = Sending(next, page)
    <2>1. ComposeTab' = Sending(next, page')
      BY <1>6, TabSend DEF ComposeTab
    <2> QED
      BY <1>6, <2>1 DEF Sending
  <1>8. Sending(next, page) = [ComposeTab EXCEPT !.pc = next]
    BY <1>5 DEF Sending
  <1>9. Abstract!Show("tab", [ComposeTab EXCEPT !.pc = next])
    BY <1>7, <1>8, Shows
  <1>10. CASE imap.result = "ok"
    <2>1. ComposeTab = Sending("flagged", page)
      BY <1>3, <1>5, <1>10
    <2>2. Abstract!Marked("tab")
      BY <1>1, <1>9, <1>10, <2>1, AcceptedStays
         DEF Abstract!Marked, Sending, Abstract!mailVars, mailVars, server
    <2> QED
      BY <2>2, TabSteps DEF Abstract!handleSendMessage, Abstract!applyComposeSideEffect
  <1>11. CASE imap.result # "ok"
    <2>1. ComposeTab.pc \in {"flag", "flagged"}
      BY <1>5 DEF Sending
    <2>2. Abstract!MarkFails("tab")
      BY <1>1, <1>9, <1>11, <2>1, AcceptedStays
         DEF Abstract!MarkFails, Abstract!mailVars, mailVars, server
    <2> QED
      BY <2>2, TabSteps DEF Abstract!handleSendMessage, Abstract!applyComposeSideEffect
  <1> QED
    BY <1>10, <1>11
-----------------------------------------------------------------------------
(* Steps around the handlers, and of the mail clients.                     *)

(* The user leaves a page.                                                 *)
LEMMA PageLeft ==
    ASSUME Leave
    PROVE  ComposeStep
  <1>1. /\ page.pc \in Resting \ {"closed"} /\ page'.pc = "closed"
        /\ UNCHANGED <<mailVars, submits, delivered>>
    BY DEF Leave, Goes, NoPage, smtpVars
  <1>2. ComposeTab' = [pc |-> "closed"]
    BY <1>1, TabShut DEF ComposeTab
  <1>3. Abstract!Show("tab", [pc |-> "closed"])
    BY <1>2, Shows
  <1>4. CASE page.pc \in {"listed", "message", "missing", "error"}
    <2>1. ComposeTab = [pc |-> "closed"]
      BY <1>4, TabShut DEF ComposeTab
    <2> QED
      BY <1>1, <1>2, <2>1, Stutters
  <1>5. CASE page.pc \in {"form", "sent", "warned", "failed", "lost"}
    <2>1. ComposeTab.pc = page.pc
      <3>1. CASE page.pc = "form"
        BY <3>1, TabForm DEF ComposeTab
      <3>2. CASE page.pc \in {"sent", "warned"}
        BY <3>2, TabSend DEF ComposeTab, Sending
      <3>3. CASE page.pc \in {"failed", "lost"}
        BY <3>3, TabFailed DEF ComposeTab
      <3> QED
        BY <1>5, <3>1, <3>2, <3>3
    <2>2. Abstract!Leave("tab")
      BY <1>1, <1>3, <1>5, <2>1, AcceptedStays
         DEF Abstract!Leave, Abstract!Closed, Abstract!Pages, Abstract!mailVars, mailVars, server
    <2> QED
      BY <2>2, TabSteps
  <1> QED
    BY <1>1, <1>4, <1>5 DEF Resting

(* The end of the process: a form that Compose shows already is left, and  *)
(* a handler leaves a page that tells nothing.                             *)
LEMMA ProcessEnds ==
    ASSUME PInv, RInv, Restart
    PROVE  ComposeStep
  <1>1. page.pc \in Working /\ UNCHANGED <<mailVars, submits, delivered>>
    BY DEF Restart, SmtpReset
  <1>2. ASSUME page'.pc = "closed" PROVE ComposeTab' = [pc |-> "closed"]
    BY <1>2, TabShut DEF ComposeTab
  <1>3. CASE page.pc \in {"list", "read", "opening"}
    <2>1. page'.pc = "closed"
      BY <1>3 DEF Restart, Goes, NoPage
    <2>2. ComposeTab' = [pc |-> "closed"]
      BY <1>2, <2>1
    <2>3. CASE page.pc \in {"list", "read"}
      <3>1. ComposeTab = [pc |-> "closed"]
        BY <2>3, TabShut DEF ComposeTab
      <3> QED
        BY <1>1, <2>2, <3>1, Stutters
    <2>4. CASE page.pc = "opening" /\ Fetching = <<>>
      <3>1. ComposeTab.pc = "opening"
        BY <2>4, TabOpening DEF ComposeTab
      <3>2. Abstract!Restart
        BY <1>1, <2>2, <3>1, AcceptedStays
           DEF Abstract!Restart, Abstract!Closed, Abstract!mailVars, mailVars, server
      <3> QED
        BY <3>2 DEF ComposeStep, Abstract!Next
    <2>5. CASE page.pc = "opening" /\ Fetching # <<>>
      <3>1. ComposeTab.pc = "form"
        BY <2>5, TabOpening DEF ComposeTab
      <3>2. Abstract!Show("tab", [pc |-> "closed"])
        BY <2>2, Shows
      <3>3. Abstract!Leave("tab")
        BY <1>1, <3>1, <3>2, AcceptedStays
           DEF Abstract!Leave, Abstract!Closed, Abstract!mailVars, mailVars, server
      <3> QED
        BY <3>3, TabSteps
    <2> QED
      BY <1>3, <2>3, <2>4, <2>5
  <1>4. CASE page.pc \in {"load", "send", "flag"}
    <2> DEFINE sent == page.pc = "flag" \/ (page.pc = "send" /\ smtp.taken)
    <2>1. page' = [pc |-> "lost", form |-> page.form, sent |-> sent]
      BY <1>4 DEF Restart, Goes
    <2>2. page'.pc = "lost" /\ page'.form = page.form /\ page'.sent = sent
      BY <2>1
    <2>3. ComposeTab' = [pc |-> "lost", form |-> ComposeForm(page.form), sent |-> sent]
      <3>1. ComposeTab' = [pc |-> page'.pc, form |-> ComposeForm(page'.form), sent |-> page'.sent]
        BY <2>2, TabFailed DEF ComposeTab
      <3> QED
        BY <2>2, <3>1
    <2>4. /\ ComposeTab.pc \in {"load", "send", "taken", "flag", "flagged"}
          /\ ComposeTab.form = ComposeForm(page.form)
          /\ sent <=> ComposeTab.pc \in {"taken", "flag", "flagged"}
      <3>1. CASE page.pc = "load"
        BY <3>1, TabLoad DEF ComposeTab
      <3>2. CASE page.pc = "send"
        <4>1. ComposeTab = Sending(IF smtp.taken THEN "taken" ELSE "send", page)
          BY <3>2, TabSend DEF ComposeTab
        <4> QED
          BY <3>2, <4>1 DEF Sending
      <3>3. CASE page.pc = "flag"
        <4>1. ComposeTab = Sending(IF imap.stored THEN "flagged" ELSE "flag", page)
          BY <3>3, TabSend DEF ComposeTab
        <4> QED
          BY <3>3, <4>1 DEF Sending
      <3> QED
        BY <1>4, <3>1, <3>2, <3>3
    <2>5. sent = (ComposeTab.pc \in {"taken", "flag", "flagged"})
      BY <2>4
    <2> HIDE DEF sent
    <2>6. ComposeTab' = [pc |-> "lost", form |-> ComposeTab.form,
                         sent |-> ComposeTab.pc \in {"taken", "flag", "flagged"}]
      BY <2>3, <2>4, <2>5
    <2>7. Abstract!Restart
      BY <1>1, <2>4, <2>6, AcceptedStays
         DEF Abstract!Restart, Abstract!mailVars, mailVars, server
    <2> QED
      BY <2>7 DEF ComposeStep, Abstract!Next
  <1> QED
    BY <1>1, <1>3, <1>4 DEF Working

(* Other mail clients do in Compose what they do here; marking a message   *)
(* as deleted does not concern it.                                         *)
LEMMA OthersStep ==
    ASSUME OtherClients
    PROVE  ComposeStep
  <1>1. UNCHANGED <<imap, smtp, page, delivered, submits>>
    BY DEF OtherClients, MarkDeleted, smtpVars
  <1>2. ComposeTab' = ComposeTab
    BY <1>1 DEF ComposeTab, Fetching
  <1>3. CASE MailServerStep
    <2>1. Abstract!MailServerStep
      BY <1>3 DEF MailServerStep, Arrive, Expunge, Renumber, Uids, Abstract!MailServerStep,
                  Abstract!Arrive, Abstract!Expunge, Abstract!Renumber, Abstract!Uids
    <2>2. Abstract!OtherClients
      BY <1>1, <1>2, <2>1, AcceptedStays DEF Abstract!OtherClients, server
    <2> QED
      BY <2>2 DEF ComposeStep, Abstract!Next
  <1>4. CASE \E m \in Messages : MarkDeleted(m)
    BY <1>1, <1>2, <1>4, Stutters DEF MarkDeleted
  <1> QED
    BY <1>3, <1>4 DEF OtherClients

(* A step of a call: the FETCH of a form shows it, that of a send loads    *)
(* the original, the STORE sets the flag, and Compose sees nothing else.   *)
LEMMA CallSteps ==
    ASSUME IInv, PInv, RInv, ImapStep,
           UNCHANGED <<smtpVars, setting, header, page, looks, submits>>
    PROVE  ComposeStep
  <1>1. /\ imap # NotCalled /\ UNCHANGED <<place, uidNext, deleted>>
        /\ imap.op.name = CallOf(page) /\ CallTyped(imap)
    BY ImapKeepsMailboxes DEF PInv
  <1>2. UNCHANGED <<smtp, delivered, page, submits>>
    BY DEF smtpVars
  <1>3. /\ ~Store => imap'.stored = imap.stored
        /\ Store => imap'.stored = TRUE /\ ~imap.stored /\ imap.op.name = "mark"
    BY StoredSteps
  <1>4. ~Store => UNCHANGED mailVars
    BY ImapKeepsMailboxes
  <1>5. page.pc \in {"list", "read", "opening", "flag"}
          \/ (page.pc = "load" /\ page.form.mode # "new")
    BY <1>1 DEF CallTyped, Ops, CallOf
  <1>6. CASE page.pc \in {"list", "read"}
    <2>1. ComposeTab = [pc |-> "closed"] /\ ComposeTab' = [pc |-> "closed"]
      BY <1>2, <1>6, TabShut DEF ComposeTab
    <2>2. imap.op.name # "mark"
      BY <1>1, <1>6 DEF CallOf
    <2> QED
      BY <1>2, <1>3, <1>4, <2>1, <2>2, Stutters
  <1>7. CASE page.pc = "opening"
    <2>1. imap.op.name = "get" /\ imap.op.uid = page.uid /\ ~Store
      BY <1>1, <1>3, <1>7 DEF CallOf, RInv, CallAbout
    <2>2. CASE Fetching' = Fetching
      <3>1. ComposeTab' = ComposeTab
        <4>1. CASE Fetching = <<>>
          BY <1>2, <1>7, <2>2, <4>1, TabOpening DEF ComposeTab
        <4>2. CASE Fetching # <<>>
          BY <1>2, <1>7, <2>2, <4>2, TabOpening DEF ComposeTab
        <4> QED
          BY <4>1, <4>2
      <3> QED
        BY <1>2, <1>4, <2>1, <3>1, Stutters
    <2>3. CASE Fetching' # Fetching
      <3>1. PICK m \in Messages : /\ Fetching = <<>> /\ Fetching' = <<m>>
                                  /\ m \in GetMessage(server, page.uid)
        BY <2>1, <2>3, FetchReads, FetchingStays
      <3>2. ComposeTab = [pc |-> "opening", mode |-> Kind(page.mode), uid |-> page.uid,
                          server |-> server]
        BY <1>7, <3>1, TabOpening DEF ComposeTab
      <3>3. <<m>> # <<>> /\ <<m>>[1] = m
        OBVIOUS
      <3>4. ComposeTab' = [pc |-> "form", form |-> [mode |-> Kind(page.mode), uid |-> page.uid,
                                                    about |-> m, from |-> server]]
        BY <1>2, <1>7, <3>1, <3>3, TabOpening DEF ComposeTab
      <3>5. Abstract!Show("tab", [pc |-> "form",
                                  form |-> [mode |-> Kind(page.mode), uid |-> page.uid,
                                            about |-> m, from |-> server]])
        BY <3>4, Shows
      <3>6. m \in Abstract!GetMessage(server, page.uid)
        BY <3>1 DEF GetMessage, At, Abstract!GetMessage, Abstract!At
      <3>7. Abstract!ShowForm("tab")
        BY <1>2, <1>4, <2>1, <3>2, <3>5, <3>6, AcceptedStays
           DEF Abstract!ShowForm, Abstract!mailVars, mailVars, server
      <3> QED
        BY <3>7, TabSteps
    <2> QED
      BY <2>2, <2>3
  <1>8. CASE page.pc = "load" /\ page.form.mode # "new"
    <2>1. imap.op.name = "get" /\ imap.op.uid = page.form.uid /\ ~Store
      BY <1>1, <1>3, <1>8 DEF CallOf, RInv, CallAbout
    <2>2. CASE GotOriginal(page, Fetching) \/ ~GotOriginal(page, Fetching')
      <3>1. Fetching' = Fetching \/ Fetching = <<>>
        BY <2>1, FetchReads, FetchingStays
      <3>2. GotOriginal(page, Fetching) => Fetching' = Fetching
        BY <3>1 DEF GotOriginal
      <3>3. ComposeTab' = ComposeTab
        <4>1. CASE GotOriginal(page, Fetching)
          <5>1. GotOriginal(page', Fetching')
            BY <1>2, <3>2, <4>1
          <5> QED
            BY <1>2, <1>8, <3>2, <4>1, <5>1, TabLoad DEF ComposeTab
        <4>2. CASE ~GotOriginal(page, Fetching)
          <5>1. ~GotOriginal(page', Fetching')
            BY <1>2, <2>2, <4>2
          <5> QED
            BY <1>2, <1>8, <4>2, <5>1, TabLoad DEF ComposeTab
        <4> QED
          BY <4>1, <4>2
      <3> QED
        BY <1>2, <1>4, <2>1, <3>3, Stutters
    <2>3. CASE ~GotOriginal(page, Fetching) /\ GotOriginal(page, Fetching')
      <3>1. PICK m \in Messages : Fetching' = <<m>> /\ m \in GetMessage(server, page.form.uid)
        <4>1. Fetching' # Fetching /\ Fetching' # <<>>
          BY <2>3 DEF GotOriginal
        <4> QED
          BY <2>1, <4>1, FetchReads, FetchingStays
      <3>2. <<m>>[1] = m
        OBVIOUS
      <3>3. ComposeTab = [pc |-> "load", form |-> ComposeForm(page.form), server |-> server]
        BY <1>8, <2>3, TabLoad DEF ComposeTab
      <3>4. ComposeTab' = [pc |-> "send", form |-> ComposeForm(page.form), server |-> server,
                           original |-> m]
        <4>1. GotOriginal(page', Fetching') /\ page'.pc = "load" /\ page'.form = page.form
          BY <1>2, <1>8, <2>3
        <4> QED
          BY <3>1, <3>2, <4>1, TabLoad DEF ComposeTab
      <3>5. Abstract!Show("tab", [pc |-> "send", form |-> ComposeForm(page.form),
                                  server |-> server, original |-> m])
        BY <3>4, Shows
      <3>6. /\ m \in Abstract!GetMessage(server, page.form.uid)
            /\ (ComposeForm(page.form)).uid = page.form.uid
            /\ (ComposeForm(page.form)).mode # "new"
            /\ Abstract!Threadable((ComposeForm(page.form)).mode, m)
        <4>1. Threadable(page.form.mode, m)
          BY <2>3, <3>1, <3>2 DEF GotOriginal
        <4>2. m \in Abstract!GetMessage(server, page.form.uid)
          BY <3>1 DEF GetMessage, At, Abstract!GetMessage, Abstract!At
        <4> QED
          BY <1>8, <4>1, <4>2, ComposeForms
      <3>7. Abstract!loadComposeOriginal("tab")
        BY <1>2, <1>4, <2>1, <3>3, <3>5, <3>6, AccountIs, AcceptedStays
           DEF Abstract!loadComposeOriginal, Abstract!mailVars, mailVars, server
      <3> QED
        BY <3>7, TabSteps DEF Abstract!handleSendMessage
    <2> QED
      BY <2>2, <2>3
  <1>9. CASE page.pc = "flag"
    <2>1. /\ imap.op.uid = page.form.uid /\ imap.op.flag = Flag(page.form.mode)
          /\ imap.server = server
      BY <1>1, <1>9 DEF RInv, CallAbout, CallTyped
    <2>2. CASE ~Store
      <3>1. ComposeTab' = ComposeTab
        BY <1>2, <1>3, <1>9, <2>2, TabSend DEF ComposeTab
      <3> QED
        BY <1>2, <1>4, <2>2, <3>1, Stutters
    <2>3. CASE Store
      <3>1. ComposeTab = Sending("flag", page)
        BY <1>3, <1>9, <2>3, TabSend DEF ComposeTab
      <3>2. ComposeTab' = Sending("flagged", page)
        <4>1. page'.pc = "flag" /\ imap'.stored = TRUE
          BY <1>2, <1>3, <1>9, <2>3
        <4>2. ComposeTab' = Sending("flagged", page')
          BY <4>1, TabSend DEF ComposeTab
        <4> QED
          BY <1>2, <4>2 DEF Sending
      <3>3. Sending("flagged", page) = [ComposeTab EXCEPT !.pc = "flagged"]
        BY <3>1 DEF Sending
      <3>4. Abstract!Show("tab", [ComposeTab EXCEPT !.pc = "flagged"])
        BY <3>2, <3>3, Shows
      <3>5. page.form.mode # "new"
        BY <1>9 DEF PInv, PageGood
      <3>6. /\ ComposeTab.pc = "flag" /\ ComposeTab.server = server
            /\ (ComposeTab.form).uid = page.form.uid
            /\ Abstract!FlagOf((ComposeTab.form).mode) = Flag(page.form.mode)
        BY <3>1, <3>5, ComposeForms DEF Sending
      <3>7. Abstract!UidStore(server, page.form.uid, Flag(page.form.mode))
        BY <2>1, <2>3 DEF Store, UidStore, At, Abstract!UidStore, Abstract!At
      <3>8. Abstract!StoreFlag("tab")
        BY <1>2, <3>4, <3>6, <3>7, AcceptedStays DEF Abstract!StoreFlag, server
      <3> QED
        BY <3>8, TabSteps DEF Abstract!handleSendMessage, Abstract!applyComposeSideEffect
    <2> QED
      BY <2>2, <2>3
  <1> QED
    BY <1>5, <1>6, <1>7, <1>8, <1>9

(* A step of a Send: Compose sees the server take the message.             *)
LEMMA SendSteps ==
    ASSUME PInv, RInv, SmtpStep,
           UNCHANGED <<mailVars, imapVars, setting, header, page, looks, submits>>
    PROVE  ComposeStep
  <1>1. /\ smtp # Idle
        /\ ~Take => UNCHANGED delivered /\ smtp'.taken = smtp.taken
        /\ Take => ~smtp.taken /\ smtp'.taken = TRUE
    BY SendAboutSteps
  <1>2. /\ page.pc = "send" /\ UNCHANGED <<mailVars, imap, page, submits>>
        /\ smtp.id = [form |-> page.form, original |-> page.original]
    BY <1>1 DEF PInv, imapVars
  <1>3. CASE ~Take
    <2>1. ComposeTab' = ComposeTab
      BY <1>1, <1>2, <1>3, TabSend DEF ComposeTab
    <2> QED
      BY <1>1, <1>2, <1>3, <2>1, Stutters
  <1>4. CASE Take
    <2>1. ComposeTab = Sending("send", page)
      BY <1>1, <1>2, <1>4, TabSend DEF ComposeTab
    <2>2. ComposeTab' = Sending("taken", page)
      <3>1. ComposeTab' = Sending("taken", page')
        BY <1>1, <1>2, <1>4, TabSend DEF ComposeTab
      <3> QED
        BY <1>2, <3>1 DEF Sending
    <2>3. Sending("taken", page) = [ComposeTab EXCEPT !.pc = "taken"]
      BY <2>1 DEF Sending
    <2>4. Abstract!Show("tab", [ComposeTab EXCEPT !.pc = "taken"])
      BY <2>2, <2>3, Shows
    <2> DEFINE Acc(D) == {<<d.id.original, Flag(d.id.form.mode)>> :
                             d \in {e \in D : e.id.form.mode # "new"}}
    <2>5. Acc(delivered)' = Acc(delivered) \cup Abstract!Taken(ComposeTab)
      <3>1. PICK d0 : d0 = [id |-> smtp.id, named |-> smtp.named]
        OBVIOUS
      <3>2. delivered' = delivered \cup {d0}
        BY <1>4, <3>1 DEF Take
      <3>3. d0.id.form = page.form /\ d0.id.original = page.original
        BY <1>2, <3>1
      <3>4. Acc(delivered)' = Acc(delivered) \cup Acc({d0})
        BY <3>2
      <3>5. /\ (ComposeTab.form).mode = "new" <=> page.form.mode = "new"
            /\ Abstract!FlagOf((ComposeTab.form).mode) = Flag(page.form.mode)
            /\ ComposeTab.original = page.original
        BY <2>1, ComposeForms DEF Sending
      <3>6. Acc({d0}) = IF page.form.mode = "new" THEN {}
                        ELSE {<<page.original, Flag(page.form.mode)>>}
        BY <3>3
      <3> QED
        BY <3>4, <3>5, <3>6 DEF Abstract!Taken
    <2>6. ComposeTab.pc = "send"
      BY <2>1 DEF Sending
    <2>7. Abstract!Accept("tab")
      BY <1>2, <2>4, <2>5, <2>6 DEF Abstract!Accept, Abstract!mailVars, mailVars, server
    <2> QED
      BY <2>7, TabSteps DEF Abstract!handleSendMessage
  <1> QED
    BY <1>3, <1>4
-----------------------------------------------------------------------------
(* Nothing is open at the start of Compose.                                *)
LEMMA InitRefines == Init => Abstract!Init
  <1> SUFFICES ASSUME Init PROVE Abstract!Init
    OBVIOUS
  <1>1. Abstract!MailServerInit
    BY DEF Init, MailServerInit, Abstract!MailServerInit
  <1>2. [imap |-> server, smtp |-> TRUE] \in Abstract!Details
    BY AccountIs DEF Abstract!Details
  <1>3. delivered = {} /\ submits = 0 /\ page.pc = "closed"
    BY DEF Init, SmtpInit, NoPage
  <1>4. ComposeTab = [pc |-> "closed"]
    BY <1>3, TabShut DEF ComposeTab
  <1> QED
    BY <1>1, <1>2, <1>3, <1>4 DEF Abstract!Init, Abstract!Closed

(* Every step is one of Compose, or leaves it alone.                       *)
LEMMA StepRefines == IInv /\ PInv /\ RInv /\ [Next]_vars => ComposeStep
  <1> SUFFICES ASSUME IInv, PInv, RInv, [Next]_vars PROVE ComposeStep
    OBVIOUS
  <1>1. CASE UNCHANGED vars
    <2>1. UNCHANGED <<mailVars, delivered, submits, page, imap, smtp>>
      BY <1>1 DEF vars, imapVars, smtpVars
    <2>2. ComposeTab' = ComposeTab
      BY <2>1 DEF ComposeTab, Fetching
    <2> QED
      BY <2>1, <2>2, Stutters
  <1>2. CASE handleMailbox \/ handleMessage \/ ShowList \/ ShowMessage
    BY <1>2, ReadingPages
  <1>3. CASE handleNewMessage \/ OpenForm \/ ShowForm
    BY <1>3, NewForm, FormOpens, FormShown
  <1>4. CASE Submit \/ NewLoaded \/ Loaded
    BY <1>4, FormSubmitted, NewMessageLoaded, OriginalLoaded
  <1>5. CASE SendReturned \/ FlagReturned
    BY <1>5, SendOver, FlagOver
  <1>6. CASE Leave \/ Restart \/ OtherClients
    BY <1>6, PageLeft, ProcessEnds, OthersStep
  <1>7. CASE ImapStep /\ UNCHANGED <<smtpVars, setting, header, page, looks, submits>>
    BY <1>7, CallSteps
  <1>8. CASE SmtpStep /\ UNCHANGED <<mailVars, imapVars, setting, header, page, looks, submits>>
    BY <1>8, SendSteps
  <1> QED
    BY <1>1, <1>2, <1>3, <1>4, <1>5, <1>6, <1>7, <1>8 DEF Next, Handler, Clients

(* The handlers with their mail clients implement Compose: a call is one   *)
(* or two of its steps, whatever the servers answer and wherever the       *)
(* connections break.                                                      *)
THEOREM ClientsImplementCompose == Spec => ImplementsCompose
  <1>1. Init => Abstract!Init
    BY InitRefines
  <1>2. IInv /\ PInv /\ RInv /\ [Next]_vars => [Abstract!Next]_(Abstract!vars)
    BY StepRefines DEF ComposeStep
  <1> QED
    BY <1>1, <1>2, AboutInvariance, PTL DEF Spec, ImplementsCompose, Abstract!SafetySpec
=============================================================================
