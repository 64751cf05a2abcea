------------------------ MODULE MailClientsRefinement ------------------------
(***************************************************************************)
(* The handlers with the protocols underneath implement Compose: a load is *)
(* the moment the server reads the message for FETCH, a send the moment it *)
(* takes the data, a flag the moment it does the STORE, and a call that    *)
(* returns an error afterwards fails as the next step of Compose may fail. *)
(***************************************************************************)
EXTENDS MailClients

CONSTANTS NoServer, NoAccount   \* what the account of Compose may also be

\* The constants of Compose are as it assumes them.
MailClientsRefinementAssumption ==
    /\ NoServer \notin Servers /\ NoMessage \notin Messages
    /\ Identified \subseteq Messages /\ MaxSubmits \in Nat
    /\ NoAccount \notin [imap : Servers, smtp : BOOLEAN]
ASSUME MailClientsRefinementAssumption

\* Compose knows one kind of reply.
Kind(mode) == IF mode = "reply-all" THEN "reply" ELSE mode

ComposeForm(form) ==
    IF form.mode = "new" THEN [mode |-> "new"]
    ELSE [mode |-> Kind(form.mode), uid |-> form.uid, about |-> form.about, from |-> server]

\* What the FETCH of the call under way has read, if it has.
Fetching == imap.todo \o (imap.chan \o imap.out)

\* The tab of Compose for a page, with what its calls have fetched, stored and sent.
TabOf(p, fetched, stored, taken) ==
    CASE p.pc \in {"closed", "list", "read", "listed", "message", "missing", "error"} ->
           [pc |-> "closed"]
      [] p.pc = "opening" ->
           IF fetched = <<>>
           THEN [pc |-> "opening", mode |-> Kind(p.mode), uid |-> p.uid, server |-> server]
           ELSE [pc |-> "form", form |-> [mode |-> Kind(p.mode), uid |-> p.uid,
                                          about |-> fetched[1], from |-> server]]
      [] p.pc = "form" -> [pc |-> "form", form |-> ComposeForm(p.form)]
      [] p.pc = "load" ->
           IF p.form.mode = "new" \/ fetched = <<>> \/ ~Threadable(p.form.mode, fetched[1])
           THEN [pc |-> "load", form |-> ComposeForm(p.form), server |-> server]
           ELSE [pc |-> "send", form |-> ComposeForm(p.form), server |-> server,
                 original |-> fetched[1]]
      [] p.pc \in {"send", "flag", "sent", "warned"} ->
           [pc |-> CASE p.pc = "send" -> IF taken THEN "taken" ELSE "send"
                     [] p.pc = "flag" -> IF stored THEN "flagged" ELSE "flag"
                     [] OTHER -> p.pc,
            form |-> ComposeForm(p.form), server |-> server, original |-> p.original]
      [] p.pc \in {"failed", "lost"} ->
           [pc |-> p.pc, form |-> ComposeForm(p.form), sent |-> p.sent]

ComposeTab == TabOf(page, Fetching, imap.stored, smtp.taken)

Abstract == INSTANCE Compose WITH
    Tabs <- {"tab"},
    account <- [imap |-> server, smtp |-> TRUE],
    accepted <- {<<d.id.original, Flag(d.id.form.mode)>> :
                    d \in {e \in delivered : e.id.form.mode # "new"}},
    tab <- [t \in {"tab"} |-> ComposeTab]

(* Every behaviour of the handlers and their mail clients is one of        *)
(* Compose, so what holds of Compose holds with the protocols underneath.  *)
ImplementsCompose == Abstract!SafetySpec
=============================================================================
