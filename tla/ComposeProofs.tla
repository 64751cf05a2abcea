---------------------------- MODULE ComposeProofs ----------------------------
(***************************************************************************)
(* Theorems about composing, for any number of tabs, messages, servers and *)
(* submits.  They are theorems of SafetySpec: no fairness is assumed.      *)
(*                                                                         *)
(* All of them rest on one fact: until a mailbox is renumbered, a UID that *)
(* it has handed out names one message for ever (Known).  Compose states   *)
(* it nowhere; a tab that has loaded a message holds it for the UID of its *)
(* form, and the mailbox for every message in it (Numbered).               *)
(***************************************************************************)
EXTENDS Compose, TLAPS

TabRecords ==
    ClosedTab \cup OpeningTab \cup FormTab \cup LoadTab \cup SendTab \cup SentTab \cup ErrorTab

\* A UID of mailbox s, already handed out, that can only ever be that of m.
Known(s, uid, m) ==
    s \notin renumbered =>
        uid < uidNext[s] /\ \A n \in Messages : place[n] = <<s, uid>> => n = m

Numbered ==
    \A m \in Messages, s \in Servers, uid \in Uids :
        place[m] = <<s, uid>> => Known(s, uid, m)

NotFlaggedBeforeArrival == \A m \in Messages : place[m] = Undelivered => flags[m] = {}

Answers(q) == q.form.mode # "new"

\* A tab that shows or holds a form knows what the form quotes.
QuotesGood(q) ==
    q.pc \notin {"closed", "opening"} /\ Answers(q) => Known(q.form.from, q.form.uid, q.form.about)

\* After the load it knows the original, and that this is what the form quotes.
OriginalGood(q) ==
    q.pc \in {"send", "taken", "flag", "flagged", "sent", "warned"} /\ Answers(q) =>
        /\ q.server \in Servers /\ q.original \in Messages
        /\ Known(q.server, q.form.uid, q.original)
        /\ q.server = q.form.from /\ q.server \notin renumbered => q.original = q.form.about

\* Before the flag the message is accepted, after it the original has it; A is accepted.
FlagGood(q, A) ==
    /\ q.pc \in {"flag", "flagged"} => Answers(q)
    /\ q.pc \in {"taken", "flag"} /\ Answers(q) => <<q.original, FlagOf(q.form.mode)>> \in A
    /\ q.pc \in {"flagged", "sent"} /\ Answers(q) /\ q.server \notin renumbered =>
          FlagOf(q.form.mode) \in flags[q.original]
              \/ ~InPlace(q.server, q.form.uid, q.original)

TabGood(q, A) == QuotesGood(q) /\ OriginalGood(q) /\ FlagGood(q, A)

IInv ==
    /\ TypeOK
    /\ Numbered
    /\ NotFlaggedBeforeArrival
    /\ FlagsTellWhatWasSent
    /\ \A t \in Tabs : TabGood(tab[t], accepted)
-----------------------------------------------------------------------------
(* What a tab holds, by its step.                                          *)
LEMMA TabShape ==
    ASSUME NEW q \in TabRecords
    PROVE  /\ q.pc = "opening" => q \in OpeningTab
           /\ q.pc = "form" => q \in FormTab
           /\ q.pc = "load" => q \in LoadTab
           /\ q.pc \in {"send", "taken", "flag", "flagged"} => q \in SendTab
           /\ q.pc \in {"sent", "warned"} => q \in SentTab
           /\ q.pc \in {"failed", "lost"} => q \in ErrorTab
           /\ q.pc \notin {"closed", "opening"} => q.form \in Forms
  BY DEF TabRecords, ClosedTab, OpeningTab, FormTab, LoadTab, SendTab, SentTab, ErrorTab

(* A form of a reply or a forward has a UID and what it quotes.            *)
LEMMA FormShape ==
    ASSUME NEW f \in Forms, f.mode # "new"
    PROVE  f.mode \in requiresOriginal /\ f.uid \in Uids /\ f.about \in Messages
           /\ f.from \in Servers
  BY DEF Forms

(* Before anything happens.                                                *)
LEMMA InitIInv == Init => IInv
  <1> SUFFICES ASSUME Init PROVE IInv
    OBVIOUS
  <1>1. \A m \in Messages : place[m] = Undelivered
    BY DEF Init, MailServerInit
  <1>2. \A m \in Messages, s \in Servers, uid \in Uids : place[m] # <<s, uid>>
    BY <1>1, MailServerAssumption DEF MailServerAssumption
  <1>3. \A t \in Tabs : tab[t] = Closed /\ tab[t] \in ClosedTab
    BY DEF Init, Closed, ClosedTab
  <1>4. TypeOK
    <2>1. MailServerTypeOK
      BY MailServerAssumption DEF MailServerAssumption, Init, MailServerInit, MailServerTypeOK
    <2>2. tab \in [Tabs -> ClosedTab]
      BY <1>3 DEF Init
    <2> QED
      BY <2>1, <2>2, ComposeAssumption DEF ComposeAssumption, Init, TypeOK
  <1>5. \A t \in Tabs : TabGood(tab[t], accepted)
    BY <1>3 DEF TabGood, QuotesGood, OriginalGood, FlagGood, Closed
  <1> QED
    BY <1>1, <1>2, <1>4, <1>5
       DEF IInv, Init, MailServerInit, Numbered, NotFlaggedBeforeArrival, FlagsTellWhatWasSent, InPlace

(* A step of one tab that leaves the mail servers alone.                   *)
LEMMA TabMoves ==
    ASSUME IInv, NEW t \in Tabs, NEW r \in TabRecords,
           tab' = [tab EXCEPT ![t] = r],
           TabGood(r, accepted'),
           accepted \subseteq accepted', accepted' \subseteq Messages \X Flags,
           UNCHANGED mailVars,
           account' \in Details \cup {NoAccount}, submits' \in 0..MaxSubmits
    PROVE  IInv'
  <1>1. tab \in [Tabs -> TabRecords]
    BY DEF IInv, TypeOK, TabRecords
  <1>2. /\ tab' \in [Tabs -> TabRecords] /\ tab'[t] = r
        /\ \A u \in Tabs : u # t => tab'[u] = tab[u]
    BY <1>1
  <1>3. TypeOK'
    BY <1>2 DEF IInv, TypeOK, TabRecords, MailServerTypeOK, mailVars
  <1>4. Numbered' /\ NotFlaggedBeforeArrival' /\ FlagsTellWhatWasSent'
    BY DEF mailVars, IInv, Numbered, Known, NotFlaggedBeforeArrival, FlagsTellWhatWasSent, InPlace
  <1>5. ASSUME NEW u \in Tabs PROVE TabGood(tab[u], accepted)'
    <2>1. TabGood(tab'[u], accepted')
      <3>1. CASE u = t
        BY <3>1, <1>2
      <3>2. CASE u # t
        BY <3>2, <1>2 DEF IInv, TabGood, FlagGood
      <3> QED
        BY <3>1, <3>2
    <2> QED
      BY <2>1 DEF mailVars, TabGood, QuotesGood, OriginalGood, FlagGood, Known, Answers, InPlace
  <1> QED
    BY <1>3, <1>4, <1>5 DEF IInv

(* A UID that was handed out stays that of its message, whatever other     *)
(* clients do.                                                             *)
LEMMA KnownStays ==
    ASSUME IInv, MailServerStep,
           NEW s \in Servers, NEW uid \in Uids, NEW m \in Messages, Known(s, uid, m)
    PROVE  Known(s, uid, m)'
  <1>1. /\ uidNext \in [Servers -> 1..(MaxUid + 1)] /\ MaxUid \in Nat
        /\ place \in [Messages -> (Servers \X Uids) \cup {Undelivered, Expunged}]
    BY MailServerAssumption DEF MailServerAssumption, IInv, TypeOK, MailServerTypeOK
  <1>2. ASSUME NEW z \in Servers, NEW n \in Messages, Arrive(z, n) PROVE Known(s, uid, m)'
    <2>1. /\ place' = [place EXCEPT ![n] = <<z, uidNext[z]>>]
          /\ uidNext' = [uidNext EXCEPT ![z] = @ + 1] /\ renumbered' = renumbered
      BY <1>2 DEF Arrive
    <2>2. uid < uidNext[s] => uid < uidNext'[s]
      BY <1>1, <2>1 DEF Uids
    <2>3. uid < uidNext[s] => <<z, uidNext[z]>> # <<s, uid>>
      BY <1>1 DEF Uids
    <2>4. \A k \in Messages : place'[k] = <<s, uid>> =>
              place[k] = <<s, uid>> \/ <<z, uidNext[z]>> = <<s, uid>>
      BY <1>1, <2>1
    <2> QED
      BY <2>1, <2>2, <2>3, <2>4 DEF Known
  <1>3. ASSUME NEW n \in Messages, Expunge(n) PROVE Known(s, uid, m)'
    <2>1. \A k \in Messages : place'[k] = <<s, uid>> => place[k] = <<s, uid>>
      BY <1>1, <1>3, MailServerAssumption DEF MailServerAssumption, Expunge
    <2> QED
      BY <1>3, <2>1 DEF Expunge, Known
  <1>4. ASSUME NEW z \in Servers, Renumber(z) PROVE Known(s, uid, m)'
    <2>1. CASE z = s
      BY <1>4, <2>1 DEF Renumber, Known
    <2>2. CASE z # s
      <3>1. PICK new : place' = [k \in Messages |->
                                   IF k \in DOMAIN new THEN <<z, new[k]>> ELSE place[k]]
        BY <1>4 DEF Renumber
      <3>2. \A k \in Messages : place'[k] = <<s, uid>> => place[k] = <<s, uid>>
        BY <2>2, <3>1
      <3> QED
        BY <1>4, <2>2, <3>2 DEF Renumber, Known
    <2> QED
      BY <2>1, <2>2
  <1> QED
    BY <1>2, <1>3, <1>4 DEF MailServerStep

(* What other clients leave of the mailboxes' types.                       *)
LEMMA MailServerTypes ==
    ASSUME MailServerTypeOK, MailServerStep
    PROVE  MailServerTypeOK'
  <1>1. MaxUid \in Nat
    BY MailServerAssumption DEF MailServerAssumption
  <1>2. ASSUME NEW s \in Servers, NEW m \in Messages, Arrive(s, m) PROVE MailServerTypeOK'
    <2>1. uidNext[s] \in Uids /\ uidNext[s] + 1 \in 1..(MaxUid + 1)
      BY <1>1, <1>2 DEF Arrive, MailServerTypeOK, Uids
    <2> QED
      BY <1>2, <2>1 DEF Arrive, MailServerTypeOK
  <1>3. ASSUME NEW m \in Messages, Expunge(m) PROVE MailServerTypeOK'
    BY <1>3 DEF Expunge, MailServerTypeOK
  <1>4. ASSUME NEW s \in Servers, Renumber(s) PROVE MailServerTypeOK'
    <2>1. PICK new \in [{m \in Messages : place[m] \in {s} \X Uids} -> 1..(uidNext[s] - 1)] :
             place' = [m \in Messages |->
                         IF m \in DOMAIN new THEN <<s, new[m]>> ELSE place[m]]
      BY <1>4 DEF Renumber
    <2>2. 1..(uidNext[s] - 1) \subseteq Uids
      BY <1>1 DEF MailServerTypeOK, Uids
    <2>3. \A m \in DOMAIN new : <<s, new[m]>> \in Servers \X Uids
      BY <2>2
    <2>4. place' \in [Messages -> (Servers \X Uids) \cup {Undelivered, Expunged}]
      BY <2>1, <2>3 DEF MailServerTypeOK
    <2> QED
      BY <1>4, <2>4 DEF Renumber, MailServerTypeOK
  <1> QED
    BY <1>2, <1>3, <1>4 DEF MailServerStep

(* A message in a mailbox stays there, or goes; one that arrives has no    *)
(* keyword yet.                                                            *)
LEMMA MessagesStay ==
    ASSUME IInv, MailServerStep, NEW m \in Messages
    PROVE  /\ flags' = flags /\ renumbered \subseteq renumbered'
           /\ place'[m] = Undelivered => place[m] = Undelivered
           /\ \A s \in Servers, uid \in Uids :
                 s \notin renumbered' /\ place'[m] = <<s, uid>> /\ place[m] # <<s, uid>> =>
                    place[m] = Undelivered /\ uid = uidNext[s] /\ uid < uidNext'[s]
  <1>1. /\ uidNext \in [Servers -> 1..(MaxUid + 1)] /\ MaxUid \in Nat
        /\ place \in [Messages -> (Servers \X Uids) \cup {Undelivered, Expunged}]
    BY MailServerAssumption DEF MailServerAssumption, IInv, TypeOK, MailServerTypeOK
  <1>2. ASSUME NEW z \in Servers, NEW n \in Messages, Arrive(z, n)
        PROVE  /\ flags' = flags /\ renumbered' = renumbered
               /\ place' = [place EXCEPT ![n] = <<z, uidNext[z]>>]
               /\ place[n] = Undelivered /\ uidNext[z] < uidNext'[z]
               /\ <<z, uidNext[z]>> # Undelivered
    <2>1. uidNext[z] \in Uids
      BY <1>1, <1>2 DEF Arrive, Uids
    <2> QED
      BY <1>1, <1>2, <2>1, MailServerAssumption DEF MailServerAssumption, Arrive
  <1>3. ASSUME NEW n \in Messages, Expunge(n)
        PROVE  /\ flags' = flags /\ renumbered' = renumbered
               /\ place'[m] = place[m] \/ place'[m] = Expunged
    BY <1>1, <1>3 DEF Expunge
  <1>4. ASSUME NEW z \in Servers, Renumber(z)
        PROVE  /\ flags' = flags /\ renumbered' = renumbered \cup {z}
               /\ place'[m] = place[m] \/ place'[m] \in {z} \X Uids
    <2>1. PICK new \in [{k \in Messages : place[k] \in {z} \X Uids} -> 1..(uidNext[z] - 1)] :
             place' = [k \in Messages |->
                         IF k \in DOMAIN new THEN <<z, new[k]>> ELSE place[k]]
      BY <1>4 DEF Renumber
    <2>2. 1..(uidNext[z] - 1) \subseteq Uids
      BY <1>1 DEF Uids
    <2>3. \A k \in DOMAIN new : <<z, new[k]>> \in {z} \X Uids
      BY <2>2
    <2> QED
      BY <1>4, <2>1, <2>3 DEF Renumber
  <1>5. CASE \E z \in Servers, n \in Messages : Arrive(z, n)
    BY <1>1, <1>2, <1>5
  <1>6. CASE \E n \in Messages : Expunge(n)
    BY <1>3, <1>6, MailServerAssumption DEF MailServerAssumption
  <1>7. CASE \E z \in Servers : Renumber(z)
    BY <1>4, <1>7, MailServerAssumption DEF MailServerAssumption
  <1> QED
    BY <1>5, <1>6, <1>7 DEF MailServerStep

(* Other clients keep the invariant.                                       *)
LEMMA MailServerKeepsIInv ==
    ASSUME IInv, OtherClients
    PROVE  IInv'
  <1>1. MailServerStep /\ UNCHANGED <<account, accepted, submits, tab>>
    BY DEF OtherClients
  <1>2. TypeOK'
    BY <1>1, MailServerTypes DEF IInv, TypeOK
  <1>3. \A m \in Messages :
           /\ flags' = flags /\ renumbered \subseteq renumbered'
           /\ place'[m] = Undelivered => place[m] = Undelivered
           /\ \A s \in Servers, uid \in Uids :
                 s \notin renumbered' /\ place'[m] = <<s, uid>> /\ place[m] # <<s, uid>> =>
                    place[m] = Undelivered /\ uid = uidNext[s] /\ uid < uidNext'[s]
    BY <1>1, MessagesStay
  <1>4. Numbered'
    <2> SUFFICES ASSUME NEW m \in Messages, NEW s \in Servers, NEW uid \in Uids,
                        place'[m] = <<s, uid>>, s \notin renumbered',
                        NEW n \in Messages, place'[n] = <<s, uid>>
                 PROVE  uid < uidNext'[s] /\ n = m
      BY DEF Numbered, Known
    <2>1. CASE place[m] = <<s, uid>>
      <3>1. Known(s, uid, m)'
        BY <1>1, <2>1, KnownStays DEF IInv, Numbered
      <3> QED
        BY <3>1 DEF Known
    <2>2. CASE place[m] # <<s, uid>>
      <3>1. uid = uidNext[s] /\ uid < uidNext'[s] /\ s \notin renumbered
        BY <1>3, <2>2
      <3>2. place[n] # <<s, uid>>
        BY <3>1 DEF IInv, Numbered, Known, TypeOK, MailServerTypeOK, Uids
      <3>3. \E z \in Servers, k \in Messages : Arrive(z, k)
        <4>1. place[m] = Undelivered /\ <<s, uid>> # Undelivered /\ place'[m] # Expunged
          BY <1>3, <2>2, MailServerAssumption DEF MailServerAssumption
        <4>2. ~ \E k \in Messages : Expunge(k)
          BY <4>1, <2>2 DEF Expunge, IInv, TypeOK, MailServerTypeOK
        <4>3. ~ \E z \in Servers : Renumber(z)
          <5> SUFFICES ASSUME NEW z \in Servers, Renumber(z) PROVE FALSE
            OBVIOUS
          <5>1. PICK new : /\ DOMAIN new = {k \in Messages : place[k] \in {z} \X Uids}
                           /\ place' = [k \in Messages |->
                                 IF k \in DOMAIN new THEN <<z, new[k]>> ELSE place[k]]
            BY DEF Renumber
          <5>2. m \notin DOMAIN new
            BY <4>1, <5>1, MailServerAssumption DEF MailServerAssumption
          <5> QED
            BY <2>2, <5>1, <5>2
        <4> QED
          BY <1>1, <4>2, <4>3 DEF MailServerStep
      <3> QED
        BY <3>1, <3>2, <3>3, <2>2 DEF Arrive, IInv, TypeOK, MailServerTypeOK
    <2> QED
      BY <2>1, <2>2
  <1>5. NotFlaggedBeforeArrival'
    BY <1>3 DEF IInv, NotFlaggedBeforeArrival
  <1>6. FlagsTellWhatWasSent'
    <2> SUFFICES ASSUME NEW m \in Messages, NEW s \in Servers, s \notin renumbered',
                        NEW uid \in Uids, place'[m] = <<s, uid>>
                 PROVE  {m} \X flags'[m] \subseteq accepted'
      BY DEF FlagsTellWhatWasSent, InPlace
    <2>1. flags' = flags /\ accepted' = accepted /\ s \notin renumbered
      BY <1>1, <1>3
    <2>2. CASE place[m] = <<s, uid>>
      BY <2>1, <2>2 DEF IInv, FlagsTellWhatWasSent, InPlace
    <2>3. CASE place[m] # <<s, uid>>
      BY <1>3, <2>1, <2>3 DEF IInv, NotFlaggedBeforeArrival
    <2> QED
      BY <2>2, <2>3
  <1>7. ASSUME NEW t \in Tabs PROVE TabGood(tab[t], accepted)'
    <2> DEFINE q == tab[t]
    <2>1. q \in TabRecords /\ TabGood(q, accepted) /\ tab' = tab /\ accepted' = accepted
      BY <1>1 DEF IInv, TypeOK, TabRecords
    <2>2. QuotesGood(q)'
      <3> SUFFICES ASSUME q.pc \notin {"closed", "opening"}, Answers(q)
                   PROVE  Known(q.form.from, q.form.uid, q.form.about)'
        BY <2>1 DEF QuotesGood, Answers
      <3>1. q.form \in Forms
        BY <2>1, TabShape
      <3>2. q.form.uid \in Uids /\ q.form.about \in Messages /\ q.form.from \in Servers
        BY <3>1, FormShape DEF Answers
      <3>3. Known(q.form.from, q.form.uid, q.form.about)
        BY <2>1 DEF TabGood, QuotesGood
      <3>4. PICK s \in Servers, uid \in Uids, m \in Messages :
               s = q.form.from /\ uid = q.form.uid /\ m = q.form.about
        BY <3>2
      <3>5. Known(s, uid, m)'
        BY <1>1, <3>3, <3>4, KnownStays
      <3> QED
        BY <2>1, <3>4, <3>5 DEF Known
    <2>3. OriginalGood(q)' /\ FlagGood(q, accepted)'
      <3>1. CASE q.pc \in {"send", "taken", "flag", "flagged", "sent", "warned"} /\ Answers(q)
        <4>1. /\ q.server \in Servers /\ q.original \in Messages /\ q.form \in Forms
              /\ Known(q.server, q.form.uid, q.original)
          BY <2>1, <3>1, TabShape DEF TabGood, OriginalGood
        <4>2. q.form.uid \in Uids
          BY <3>1, <4>1, FormShape DEF Answers
        <4>3. PICK s \in Servers, uid \in Uids, m \in Messages :
                 s = q.server /\ uid = q.form.uid /\ m = q.original
          BY <4>1, <4>2
        <4>4. Known(s, uid, m)'
          BY <1>1, <4>1, <4>3, KnownStays
        <4>5. OriginalGood(q)'
          BY <1>3, <2>1, <4>1, <4>3, <4>4 DEF TabGood, OriginalGood, Known, Answers
        <4>6. s \notin renumbered' /\ place'[m] = <<s, uid>> => place[m] = <<s, uid>>
          BY <1>3, <4>1, <4>3 DEF Known, IInv, TypeOK, MailServerTypeOK, Uids
        <4>7. FlagGood(q, accepted)'
          BY <1>3, <2>1, <4>1, <4>3, <4>6 DEF TabGood, FlagGood, Answers, InPlace
        <4> QED
          BY <4>5, <4>7
      <3>2. CASE ~(q.pc \in {"send", "taken", "flag", "flagged", "sent", "warned"} /\ Answers(q))
        BY <2>1, <3>2 DEF TabGood, OriginalGood, FlagGood, Answers
      <3> QED
        BY <3>1, <3>2
    <2> QED
      BY <2>2, <2>3 DEF TabGood
  <1> QED
    BY <1>2, <1>4, <1>5, <1>6, <1>7 DEF IInv

(* A page of failure or a lost one knows what its form did.                *)
LEMMA FailStep ==
    ASSUME IInv, NEW t \in Tabs, NEW sent \in BOOLEAN, Fail(t, sent),
           tab[t].pc \notin {"closed", "opening"},
           UNCHANGED <<mailVars, account, accepted>>, submits' \in 0..MaxSubmits
    PROVE  IInv'
  <1>1. tab[t] \in TabRecords /\ TabGood(tab[t], accepted)
    BY DEF IInv, TypeOK, TabRecords
  <1>2. tab[t].form \in Forms
    BY <1>1, TabShape
  <1>3. PICK r : r = [pc |-> "failed", form |-> tab[t].form, sent |-> sent]
    OBVIOUS
  <1>4. r \in TabRecords
    BY <1>2, <1>3 DEF TabRecords, ErrorTab
  <1>5. TabGood(r, accepted')
    BY <1>1, <1>3 DEF TabGood, QuotesGood, OriginalGood, FlagGood, Answers
  <1>6. tab' = [tab EXCEPT ![t] = r]
    BY <1>3 DEF Fail, Show
  <1> QED
    BY <1>4, <1>5, <1>6, TabMoves DEF IInv, TypeOK

(* Showing and leaving forms.                                              *)
LEMMA FormSteps ==
    ASSUME IInv, NEW t \in Tabs,
           \/ handleNewMessage(t) \/ ShowForm(t) \/ NoForm(t) \/ Back(t) \/ Leave(t)
           \/ \E mode \in requiresOriginal, uid \in Uids : ReadForForm(t, mode, uid)
    PROVE  IInv'
  <1>1. tab[t] \in TabRecords /\ TabGood(tab[t], accepted)
    BY DEF IInv, TypeOK, TabRecords
  <1>2. UNCHANGED <<mailVars, account, accepted, submits>>
    BY DEF handleNewMessage, ShowForm, NoForm, Back, Leave, ReadForForm
  <1>3. ASSUME NEW r \in TabRecords, TabGood(r, accepted), tab' = [tab EXCEPT ![t] = r]
        PROVE  IInv'
    <2>1. TabGood(r, accepted')
      BY <1>2, <1>3
    <2> QED
      BY <1>2, <1>3, <2>1, TabMoves DEF IInv, TypeOK
  <1>4. CASE NoForm(t) \/ Leave(t)
    <2>1. Closed \in TabRecords /\ TabGood(Closed, accepted)
      BY DEF Closed, ClosedTab, TabRecords, TabGood, QuotesGood, OriginalGood, FlagGood
    <2> QED
      BY <1>3, <1>4, <2>1 DEF NoForm, Leave, Show
  <1>5. CASE handleNewMessage(t)
    <2>1. PICK r : r = [pc |-> "form", form |-> [mode |-> "new"]]
      OBVIOUS
    <2>2. r \in TabRecords
      BY <2>1 DEF TabRecords, FormTab, Forms
    <2>3. TabGood(r, accepted)
      BY <2>1 DEF TabGood, QuotesGood, OriginalGood, FlagGood, Answers
    <2> QED
      BY <1>3, <1>5, <2>1, <2>2, <2>3 DEF handleNewMessage, Show
  <1>6. CASE \E mode \in requiresOriginal, uid \in Uids : ReadForForm(t, mode, uid)
    <2>1. PICK mode \in requiresOriginal, uid \in Uids : ReadForForm(t, mode, uid)
      BY <1>6
    <2>2. PICK r : r = [pc |-> "opening", mode |-> mode, uid |-> uid, server |-> account.imap]
      OBVIOUS
    <2>3. account.imap \in Servers
      BY <2>1 DEF ReadForForm, IInv, TypeOK, Details
    <2>4. r \in TabRecords
      BY <2>2, <2>3 DEF TabRecords, OpeningTab
    <2>5. TabGood(r, accepted)
      BY <2>2 DEF TabGood, QuotesGood, OriginalGood, FlagGood
    <2> QED
      BY <1>3, <2>1, <2>2, <2>4, <2>5 DEF ReadForForm, Show
  <1>7. CASE ShowForm(t)
    <2>1. PICK m \in GetMessage(tab[t].server, tab[t].uid) :
             Show(t, [pc |-> "form",
                      form |-> [mode |-> tab[t].mode, uid |-> tab[t].uid,
                                about |-> m, from |-> tab[t].server]])
      BY <1>7 DEF ShowForm
    <2>2. tab[t] \in OpeningTab
      BY <1>1, <1>7, TabShape DEF ShowForm
    <2>3. m \in Messages /\ Known(tab[t].server, tab[t].uid, m)
      BY <2>1, <2>2 DEF GetMessage, At, OpeningTab, IInv, Numbered
    <2>4. PICK f : f = [mode |-> tab[t].mode, uid |-> tab[t].uid,
                        about |-> m, from |-> tab[t].server]
      OBVIOUS
    <2>5. f \in Forms
      BY <2>2, <2>3, <2>4 DEF Forms, OpeningTab
    <2>6. PICK r : r = [pc |-> "form", form |-> f]
      OBVIOUS
    <2>7. r \in TabRecords
      BY <2>5, <2>6 DEF TabRecords, FormTab
    <2>8. TabGood(r, accepted)
      BY <2>3, <2>4, <2>6 DEF TabGood, QuotesGood, OriginalGood, FlagGood
    <2> QED
      BY <1>3, <2>1, <2>4, <2>6, <2>7, <2>8 DEF Show
  <1>8. CASE Back(t)
    <2>1. PICK r : r = [pc |-> "form", form |-> tab[t].form]
      OBVIOUS
    <2>2. tab[t].form \in Forms
      BY <1>1, <1>8, TabShape DEF Back, Pages
    <2>3. r \in TabRecords
      BY <2>1, <2>2 DEF TabRecords, FormTab
    <2>4. TabGood(r, accepted)
      BY <1>1, <1>8, <2>1
         DEF Back, Pages, TabGood, QuotesGood, OriginalGood, FlagGood, Answers
    <2> QED
      BY <1>3, <1>8, <2>1, <2>3, <2>4 DEF Back, Show
  <1> QED
    BY <1>4, <1>5, <1>6, <1>7, <1>8

(* The account and the original are read again at submit.                  *)
LEMMA LoadSteps ==
    ASSUME IInv, NEW t \in Tabs, ReadAccount(t) \/ loadComposeOriginal(t) \/ LoadFails(t)
    PROVE  IInv'
  <1> DEFINE q == tab[t]
  <1>1. q \in TabRecords /\ TabGood(q, accepted)
    BY DEF IInv, TypeOK, TabRecords
  <1>2. UNCHANGED <<mailVars, account, accepted>> /\ submits' \in 0..MaxSubmits
    <2>1. UNCHANGED <<mailVars, account, accepted>>
      BY DEF ReadAccount, loadComposeOriginal, LoadFails
    <2>2. submits' = submits \/ (submits < MaxSubmits /\ submits' = submits + 1)
      <3>1. ReadAccount(t) => submits < MaxSubmits /\ submits' = submits + 1
        BY DEF ReadAccount
      <3>2. loadComposeOriginal(t) \/ LoadFails(t) => submits' = submits
        BY DEF loadComposeOriginal, LoadFails
      <3> QED
        BY <3>1, <3>2
    <2>3. submits \in 0..MaxSubmits /\ MaxSubmits \in Nat
      BY ComposeAssumption DEF ComposeAssumption, IInv, TypeOK
    <2> QED
      BY <2>1, <2>2, <2>3
  <1>3. ASSUME NEW r \in TabRecords, TabGood(r, accepted), tab' = [tab EXCEPT ![t] = r]
        PROVE  IInv'
    <2>1. TabGood(r, accepted')
      BY <1>2, <1>3
    <2> QED
      BY <1>2, <1>3, <2>1, TabMoves DEF IInv, TypeOK
  <1>4. CASE Fail(t, FALSE)
    <2>1. q.pc \in {"form", "load"}
      BY DEF ReadAccount, loadComposeOriginal, LoadFails
    <2> QED
      BY <1>2, <1>4, <2>1, FailStep
  <1>5. CASE ReadAccount(t) /\ ~Fail(t, FALSE)
    <2>1. PICK r : r = [pc |-> "load", form |-> q.form, server |-> account.imap]
      OBVIOUS
    <2>2. account \in Details /\ tab' = [tab EXCEPT ![t] = r] /\ q.pc = "form"
      BY <1>5, <2>1 DEF ReadAccount, Show, IInv, TypeOK
    <2>3. r \in TabRecords
      BY <1>1, <2>1, <2>2, TabShape DEF TabRecords, FormTab, LoadTab, Details
    <2>4. TabGood(r, accepted)
      BY <1>1, <2>1, <2>2 DEF TabGood, QuotesGood, OriginalGood, FlagGood, Answers
    <2> QED
      BY <1>3, <2>2, <2>3, <2>4
  <1>6. CASE loadComposeOriginal(t) /\ ~Fail(t, FALSE)
    <2>1. PICK m \in Messages \cup {NoMessage} :
             /\ tab' = [tab EXCEPT ![t] =
                   [pc |-> "send", form |-> q.form, server |-> q.server, original |-> m]]
             /\ q.form.mode # "new" =>
                   q.server # NoServer /\ m \in GetMessage(q.server, q.form.uid)
      BY <1>6 DEF loadComposeOriginal, Show, GetMessage, At
    <2>2. PICK r : r = [pc |-> "send", form |-> q.form, server |-> q.server, original |-> m]
      OBVIOUS
    <2>3. q.pc = "load" /\ q \in LoadTab /\ q.form \in Forms
      BY <1>1, <1>6, TabShape DEF loadComposeOriginal
    <2>4. r \in TabRecords
      BY <2>2, <2>3 DEF TabRecords, LoadTab, SendTab
    <2>5. CASE q.form.mode = "new"
      <3>1. TabGood(r, accepted)
        BY <2>2, <2>5 DEF TabGood, QuotesGood, OriginalGood, FlagGood, Answers
      <3> QED
        BY <1>3, <2>1, <2>2, <2>4, <3>1
    <2>6. CASE q.form.mode # "new"
      <3>1. q.form.uid \in Uids /\ q.server \in Servers
        BY <2>1, <2>3, <2>6, FormShape DEF LoadTab
      <3>2. m \in Messages /\ place[m] = <<q.server, q.form.uid>>
        BY <2>1, <2>6 DEF GetMessage, At
      <3>3. Known(q.server, q.form.uid, m)
        BY <3>1, <3>2 DEF IInv, Numbered
      <3>4. Known(q.form.from, q.form.uid, q.form.about)
        BY <1>1, <2>3, <2>6 DEF TabGood, QuotesGood, Answers
      <3>5. q.server = q.form.from /\ q.server \notin renumbered => m = q.form.about
        BY <3>2, <3>4 DEF Known
      <3>6. TabGood(r, accepted)
        BY <2>2, <3>1, <3>2, <3>3, <3>4, <3>5
           DEF TabGood, QuotesGood, OriginalGood, FlagGood, Answers
      <3> QED
        BY <1>3, <2>1, <2>2, <2>4, <3>6
    <2> QED
      BY <2>5, <2>6
  <1> QED
    BY <1>4, <1>5, <1>6 DEF LoadFails

(* Sending, and what Send and the STORE return.                            *)
LEMMA SendSteps ==
    ASSUME IInv, NEW t \in Tabs,
           \/ Accept(t) \/ NotSent(t) \/ Sent(t) \/ SentWithError(t)
           \/ Marked(t) \/ MarkFails(t)
    PROVE  IInv'
  <1> DEFINE q == tab[t]
  <1>1. q \in TabRecords /\ TabGood(q, accepted) /\ accepted \subseteq Messages \X Flags
        /\ account \in Details \cup {NoAccount} /\ submits \in 0..MaxSubmits
    BY DEF IInv, TypeOK, TabRecords
  <1>2. UNCHANGED <<mailVars, account, submits>>
    BY DEF Accept, NotSent, Sent, SentWithError, Marked, MarkFails
  <1>3. CASE NotSent(t) \/ SentWithError(t)
    <2>1. q.pc \in {"send", "taken"} /\ UNCHANGED accepted /\ (Fail(t, FALSE) \/ Fail(t, TRUE))
      BY <1>3 DEF NotSent, SentWithError
    <2> QED
      BY <1>1, <1>2, <2>1, FailStep
  <1>4. CASE Accept(t)
    <2>1. q.pc = "send" /\ q \in SendTab /\ q.form \in Forms
      BY <1>1, <1>4, TabShape DEF Accept
    <2>2. PICK r : r = [q EXCEPT !.pc = "taken"]
      OBVIOUS
    <2>3. r \in TabRecords /\ r.pc = "taken" /\ r.form = q.form /\ r.server = q.server
          /\ r.original = q.original
      BY <2>1, <2>2 DEF SendTab, TabRecords
    <2>4. accepted' = accepted \cup Taken(q) /\ tab' = [tab EXCEPT ![t] = r]
      BY <1>4, <2>2 DEF Accept, Show
    <2>5. Taken(q) \subseteq Messages \X Flags
      BY <1>1, <2>1 DEF Taken, TabGood, OriginalGood, Answers, FlagOf, Flags
    <2>6. Answers(q) => <<q.original, FlagOf(q.form.mode)>> \in accepted'
      BY <2>4 DEF Taken, Answers
    <2>7. TabGood(r, accepted')
      BY <1>1, <2>1, <2>3, <2>6 DEF TabGood, QuotesGood, OriginalGood, FlagGood, Answers
    <2>8. accepted \subseteq accepted' /\ accepted' \subseteq Messages \X Flags
      BY <1>1, <2>4, <2>5
    <2> QED
      BY <1>1, <1>2, <2>3, <2>4, <2>7, <2>8, TabMoves
  <1>5. CASE Sent(t) \/ Marked(t) \/ MarkFails(t)
    <2>1. PICK to \in {"sent", "flag", "warned"} :
             /\ tab' = [tab EXCEPT ![t] = [q EXCEPT !.pc = to]] /\ UNCHANGED accepted
             /\ q.pc \in {"taken", "flag", "flagged"}
             /\ to = "flag" => q.pc = "taken" /\ q.form.mode # "new"
             /\ to = "sent" => q.pc = "flagged" \/ q.form.mode = "new"
      BY <1>5 DEF Sent, Marked, MarkFails, AfterSend, Show
    <2>2. PICK r : r = [q EXCEPT !.pc = to]
      OBVIOUS
    <2>3. q \in SendTab /\ q.form \in Forms
      BY <1>1, <2>1, TabShape
    <2>4. r.pc = to /\ r.form = q.form /\ r.server = q.server /\ r.original = q.original
      BY <2>2, <2>3 DEF SendTab
    <2>5. r \in SendTab \cup SentTab
      BY <2>1, <2>2, <2>3 DEF SendTab, SentTab
    <2>6. r \in TabRecords
      BY <2>5 DEF TabRecords
    <2>7. TabGood(r, accepted)
      BY <1>1, <2>1, <2>4 DEF TabGood, QuotesGood, OriginalGood, FlagGood, Answers
    <2>8. TabGood(r, accepted')
      BY <2>1, <2>7
    <2> QED
      BY <1>1, <1>2, <2>1, <2>2, <2>6, <2>8, TabMoves
  <1> QED
    BY <1>3, <1>4, <1>5

(* The STORE reaches the message that was loaded, or none.                 *)
LEMMA StoreFlagStep ==
    ASSUME IInv, NEW t \in Tabs, StoreFlag(t)
    PROVE  IInv'
  <1> DEFINE q == tab[t]
             flag == FlagOf(q.form.mode)
  <1>1. tab \in [Tabs -> TabRecords] /\ q \in TabRecords /\ TabGood(q, accepted)
    BY DEF IInv, TypeOK, TabRecords
  <1>2. /\ q.pc = "flag"
        /\ flags' = [m \in Messages |-> IF m \in At(q.server, q.form.uid)
                                        THEN flags[m] \cup {flag} ELSE flags[m]]
        /\ UNCHANGED <<place, uidNext, renumbered, account, accepted, submits>>
        /\ tab' = [tab EXCEPT ![t] = [q EXCEPT !.pc = "flagged"]]
    BY DEF StoreFlag, UidStore, Show
  <1>3. /\ Answers(q) /\ q \in SendTab /\ q.form \in Forms
        /\ q.server \in Servers /\ q.original \in Messages
        /\ Known(q.server, q.form.uid, q.original)
        /\ <<q.original, flag>> \in accepted
    BY <1>1, <1>2, TabShape DEF TabGood, OriginalGood, FlagGood
  <1>4. q.form.uid \in Uids /\ flag \in Flags
    BY <1>3, FormShape DEF Answers, FlagOf, Flags
  <1>5. PICK r : r = [q EXCEPT !.pc = "flagged"]
    OBVIOUS
  <1>6. r \in SendTab /\ r.pc = "flagged" /\ r.form = q.form /\ r.server = q.server
        /\ r.original = q.original
    BY <1>3, <1>5 DEF SendTab
  <1>7. /\ tab' \in [Tabs -> TabRecords] /\ tab'[t] = r
        /\ \A u \in Tabs : u # t => tab'[u] = tab[u]
    <2>1. r \in TabRecords
      BY <1>6 DEF TabRecords
    <2> QED
      BY <1>1, <1>2, <1>5, <2>1
  <1>8. flags \in [Messages -> SUBSET Flags]
        /\ \A m \in Messages : flags[m] \subseteq flags'[m]
    BY <1>2 DEF IInv, TypeOK, MailServerTypeOK
  <1>9. TypeOK'
    <2>1. flags' \in [Messages -> SUBSET Flags]
      BY <1>2, <1>4, <1>8
    <2> QED
      BY <1>2, <1>7, <2>1 DEF IInv, TypeOK, MailServerTypeOK, TabRecords
  <1>10. Numbered'
    BY <1>2 DEF IInv, Numbered, Known
  <1>11. NotFlaggedBeforeArrival'
    <2>1. \A m \in Messages : place[m] = Undelivered => m \notin At(q.server, q.form.uid)
      BY <1>3, <1>4, MailServerAssumption DEF MailServerAssumption, At
    <2> QED
      BY <1>2, <2>1 DEF IInv, NotFlaggedBeforeArrival
  <1>12. FlagsTellWhatWasSent'
    <2> SUFFICES ASSUME NEW m \in Messages, NEW s \in Servers, s \notin renumbered,
                        NEW uid \in Uids, place[m] = <<s, uid>>
                 PROVE  {m} \X flags'[m] \subseteq accepted
      BY <1>2 DEF FlagsTellWhatWasSent, InPlace
    <2>1. {m} \X flags[m] \subseteq accepted
      BY DEF IInv, FlagsTellWhatWasSent, InPlace
    <2>2. m \in At(q.server, q.form.uid) => m = q.original
      <3>1. m \in At(q.server, q.form.uid) => s = q.server
        BY DEF At
      <3> QED
        BY <1>3, <3>1 DEF At, Known
    <2>3. flags'[m] \subseteq flags[m] \cup {flag} /\ (m # q.original => flags'[m] = flags[m])
      BY <1>2, <2>2
    <2> QED
      BY <1>3, <2>1, <2>3
  <1>13. ASSUME NEW u \in Tabs PROVE TabGood(tab[u], accepted)'
    <2>1. CASE u # t
      <3>1. tab'[u] = tab[u] /\ TabGood(tab[u], accepted) /\ tab[u] \in TabRecords
        BY <1>1, <1>7, <2>1 DEF IInv
      <3>2. QuotesGood(tab[u])' /\ OriginalGood(tab[u])'
        BY <1>2, <3>1 DEF TabGood, QuotesGood, OriginalGood, Known, Answers
      <3>3. FlagGood(tab[u], accepted)'
        <4>1. FlagGood(tab[u], accepted)
          BY <3>1 DEF TabGood
        <4>2. tab[u].pc \in {"flagged", "sent"} /\ Answers(tab[u]) =>
                 flags[tab[u].original] \subseteq flags'[tab[u].original]
          BY <1>8, <3>1 DEF TabGood, OriginalGood
        <4>3. PICK w : w = tab[u]
          OBVIOUS
        <4>4. w = tab'[u] /\ renumbered' = renumbered /\ place' = place /\ accepted' = accepted
          BY <1>2, <3>1, <4>3
        <4>5. FlagGood(w, accepted)'
          BY <4>1, <4>2, <4>3, <4>4 DEF FlagGood, Answers, InPlace
        <4> QED
          BY <4>4, <4>5 DEF FlagGood, Answers, InPlace
      <3> QED
        BY <3>2, <3>3 DEF TabGood
    <2>2. CASE u = t
      <3>1. tab'[u] = r
        BY <1>7, <2>2
      <3>2. QuotesGood(tab[u])' /\ OriginalGood(tab[u])'
        BY <1>1, <1>2, <1>6, <3>1 DEF TabGood, QuotesGood, OriginalGood, Known, Answers
      <3>3. place[q.original] = <<q.server, q.form.uid>> => flag \in flags'[q.original]
        BY <1>2, <1>3 DEF At
      <3>4. FlagGood(tab[u], accepted)'
        BY <1>2, <1>3, <1>6, <3>1, <3>3 DEF FlagGood, Answers, InPlace
      <3> QED
        BY <3>2, <3>4 DEF TabGood
    <2> QED
      BY <2>1, <2>2
  <1> QED
    BY <1>9, <1>10, <1>11, <1>12, <1>13 DEF IInv

(* A restart leaves forms and pages, and says of a lost handler whether it *)
(* had sent.                                                               *)
LEMMA RestartStep ==
    ASSUME IInv, Restart
    PROVE  IInv'
  <1>1. tab \in [Tabs -> TabRecords] /\ UNCHANGED <<mailVars, account, accepted, submits>>
    BY DEF Restart, IInv, TypeOK, TabRecords
  <1>2. ASSUME NEW t \in Tabs
        PROVE  tab'[t] \in TabRecords /\ TabGood(tab'[t], accepted)
    <2>1. tab[t] \in TabRecords /\ TabGood(tab[t], accepted)
      BY <1>1 DEF IInv
    <2>2. CASE tab[t].pc = "opening"
      <3>1. tab'[t] = Closed
        BY <2>2 DEF Restart
      <3> QED
        BY <3>1 DEF Closed, ClosedTab, TabRecords, TabGood, QuotesGood, OriginalGood, FlagGood
    <2>3. CASE tab[t].pc \in {"load", "send", "taken", "flag", "flagged"}
      <3>1. PICK sent \in BOOLEAN : tab'[t] = [pc |-> "lost", form |-> tab[t].form, sent |-> sent]
        <4> DEFINE sent == tab[t].pc \in {"taken", "flag", "flagged"}
        <4>1. tab'[t] = [pc |-> "lost", form |-> tab[t].form, sent |-> sent]
          BY <2>3 DEF Restart
        <4>2. sent \in BOOLEAN
          OBVIOUS
        <4> HIDE DEF sent
        <4> QED
          BY <4>1, <4>2
      <3>2. tab[t].form \in Forms
        BY <2>1, <2>3, TabShape
      <3>3. tab'[t] \in TabRecords
        BY <3>1, <3>2 DEF TabRecords, ErrorTab
      <3>4. TabGood(tab'[t], accepted)
        BY <2>1, <2>3, <3>1 DEF TabGood, QuotesGood, OriginalGood, FlagGood, Answers
      <3> QED
        BY <3>3, <3>4
    <2>4. CASE tab[t].pc \notin {"opening", "load", "send", "taken", "flag", "flagged"}
      <3>1. tab'[t] = tab[t]
        BY <2>4 DEF Restart
      <3> QED
        BY <2>1, <3>1
    <2> QED
      BY <2>2, <2>3, <2>4
  <1>3. tab' \in [Tabs -> TabRecords]
    BY <1>2 DEF Restart
  <1>4. TypeOK'
    BY <1>1, <1>3 DEF IInv, TypeOK, TabRecords, MailServerTypeOK, mailVars
  <1>5. Numbered' /\ NotFlaggedBeforeArrival' /\ FlagsTellWhatWasSent'
    BY <1>1
       DEF mailVars, IInv, Numbered, Known, NotFlaggedBeforeArrival, FlagsTellWhatWasSent, InPlace
  <1>6. \A t \in Tabs : TabGood(tab[t], accepted)'
    BY <1>1, <1>2
       DEF mailVars, TabGood, QuotesGood, OriginalGood, FlagGood, Known, Answers, InPlace
  <1> QED
    BY <1>4, <1>5, <1>6 DEF IInv

(* Every step keeps the invariant.                                         *)
LEMMA StepIInv == IInv /\ [Next]_vars => IInv'
  <1> SUFFICES ASSUME IInv, [Next]_vars PROVE IInv'
    OBVIOUS
  <1>1. ASSUME UNCHANGED <<mailVars, accepted, submits, tab>>,
               account' \in Details \cup {NoAccount}
        PROVE  IInv'
    BY <1>1 DEF mailVars, IInv, TypeOK, MailServerTypeOK, Numbered, Known,
         NotFlaggedBeforeArrival, FlagsTellWhatWasSent, InPlace,
         TabGood, QuotesGood, OriginalGood, FlagGood, Answers
  <1>2. CASE UNCHANGED vars
    BY <1>1, <1>2 DEF vars, IInv, TypeOK
  <1>3. CASE EditAccount
    <2>1. account \in Details
      BY <1>3 DEF EditAccount, IInv, TypeOK
    <2>2. account' \in Details \cup {NoAccount}
      BY <1>3, <2>1 DEF EditAccount, Details
    <2> QED
      BY <1>1, <1>3, <2>2 DEF EditAccount
  <1>4. ASSUME NEW t \in Tabs, handleSendMessage(t) PROVE IInv'
    BY <1>4, LoadSteps, SendSteps, StoreFlagStep DEF handleSendMessage, applyComposeSideEffect
  <1>5. ASSUME NEW t \in Tabs, NEW mode \in requiresOriginal, NEW uid \in Uids,
               ReadForForm(t, mode, uid)
        PROVE  IInv'
    BY <1>5, FormSteps
  <1> QED
    BY <1>2, <1>3, <1>4, <1>5, FormSteps, LoadSteps, RestartStep, MailServerKeepsIInv DEF Next
-----------------------------------------------------------------------------
(* The strengthened invariant.                                             *)
THEOREM Invariance == SafetySpec => []IInv
  BY InitIInv, StepIInv, PTL DEF SafetySpec

(* Type correctness.                                                       *)
THEOREM TypeCorrect == SafetySpec => []TypeOK
  <1>1. IInv => TypeOK
    BY DEF IInv
  <1> QED
    BY <1>1, Invariance, PTL

(* No original carries the flag of an answer that was not accepted, unless *)
(* its mailbox was renumbered.                                             *)
THEOREM FlagsAreTrue == SafetySpec => []FlagsTellWhatWasSent
  <1>1. IInv => FlagsTellWhatWasSent
    BY DEF IInv
  <1> QED
    BY <1>1, Invariance, PTL

(* A page without a warning means that the original has its flag.          *)
THEOREM SentPagesAreTrue == SafetySpec => []SentPageHolds
  <1>1. IInv => SentPageHolds
    BY DEF IInv, TabGood, FlagGood, Answers, SentPageHolds
  <1> QED
    BY <1>1, Invariance, PTL

(* The headers and the quoted text of an answer are of one message.        *)
THEOREM AnswersAreOfOneMessage == SafetySpec => []RepliesToWhatItQuotes
  <1>1. IInv => RepliesToWhatItQuotes
    BY DEF IInv, TabGood, OriginalGood, Answers, RepliesToWhatItQuotes
  <1> QED
    BY <1>1, Invariance, PTL
=============================================================================
