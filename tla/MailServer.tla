----------------------------- MODULE MailServer -----------------------------
(***************************************************************************)
(* The IMAP servers an account can be configured with, as internal/imap    *)
(* sees them: messages addressed by UID in a mailbox, keywords, and what   *)
(* other clients do there.  GetMessage and markMessageFlag open a          *)
(* connection each and address the message by the UID alone: the           *)
(* UIDVALIDITY that SELECT reports is not looked at.  The mailbox of a     *)
(* form is the same name throughout, so a server stands for that mailbox.  *)
(***************************************************************************)
EXTENDS Naturals, FiniteSets

CONSTANTS
    Servers,
    MaxUid,         \* bound: UIDs a mailbox hands out
    Messages,
    Undelivered,    \* the place of a message that has not arrived
    Expunged        \* the place of a message that was deleted

VARIABLES
    place,          \* message -> <<server, uid>>, Undelivered or Expunged
    uidNext,        \* server -> next UID
    renumbered,     \* servers whose UIDVALIDITY has changed (history, once each)
    flags           \* message -> keywords set on it by this program

mailVars == <<place, uidNext, renumbered, flags>>

Uids == 1..MaxUid
Flags == {"\\Answered", "$Forwarded"}

MailServerAssumption ==
    /\ MaxUid \in Nat
    /\ Undelivered \notin Servers \X Uids /\ Expunged \notin Servers \X Uids
    /\ Undelivered # Expunged
ASSUME MailServerAssumption

\* Where each message is, and which keywords it has.
MailServerTypeOK ==
    /\ place \in [Messages -> (Servers \X Uids) \cup {Undelivered, Expunged}]
    /\ uidNext \in [Servers -> 1..(MaxUid + 1)]
    /\ renumbered \subseteq Servers
    /\ flags \in [Messages -> SUBSET Flags]

MailServerInit ==
    /\ place = [m \in Messages |-> Undelivered]
    /\ uidNext = [s \in Servers |-> 1]
    /\ renumbered = {}
    /\ flags = [m \in Messages |-> {}]

\* The message UID FETCH finds: none or one.
At(s, uid) == {m \in Messages : place[m] = <<s, uid>>}

\* A mutant: GetMessage fetching by sequence number.
GetMessageBySequenceNumber(s, uid) ==
    {m \in Messages :
        /\ place[m] \in {s} \X Uids
        /\ \E n \in Uids : place[m] = <<s, n>>
             /\ uid = 1 + Cardinality({k \in 1..(n-1) : At(s, k) # {}})}

GetMessage(s, uid) == At(s, uid)

\* UID STORE +FLAGS.SILENT: no error when no message has the UID.
UidStore(s, uid, flag) ==
    /\ flags' = [m \in Messages |-> IF m \in At(s, uid) THEN flags[m] \cup {flag}
                                    ELSE flags[m]]
    /\ UNCHANGED <<place, uidNext, renumbered>>
-----------------------------------------------------------------------------
(* Other clients and the server itself.                                    *)

Arrive(s, m) ==
    /\ place[m] = Undelivered
    /\ uidNext[s] <= MaxUid
    /\ place' = [place EXCEPT ![m] = <<s, uidNext[s]>>]
    /\ uidNext' = [uidNext EXCEPT ![s] = @ + 1]
    /\ UNCHANGED <<renumbered, flags>>

Expunge(m) ==
    /\ place[m] \in Servers \X Uids
    /\ place' = [place EXCEPT ![m] = Expunged]
    /\ UNCHANGED <<uidNext, renumbered, flags>>

\* A new UIDVALIDITY: the mailbox keeps its messages under other UIDs.
Renumber(s) ==
    /\ s \notin renumbered
    /\ \E uid \in [{m \in Messages : place[m] \in {s} \X Uids} -> 1..(uidNext[s] - 1)] :
          /\ \A m, n \in DOMAIN uid : uid[m] = uid[n] => m = n
          /\ place' = [m \in Messages |->
                         IF m \in DOMAIN uid THEN <<s, uid[m]>> ELSE place[m]]
    /\ renumbered' = renumbered \cup {s}
    /\ UNCHANGED <<uidNext, flags>>

MailServerStep ==
    \/ \E s \in Servers, m \in Messages : Arrive(s, m)
    \/ \E m \in Messages : Expunge(m)
    \/ \E s \in Servers : Renumber(s)
=============================================================================
