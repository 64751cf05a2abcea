----------------------------- MODULE AccountBook ----------------------------
(***************************************************************************)
(* What the mail account pages promise their users, with no database, key  *)
(* or ciphertext: a book of accounts, each with at most one set of IMAP    *)
(* and one of SMTP settings, whose passwords are the ones typed.  A save   *)
(* fixes the password it will store when it reads the account (the one     *)
(* typed, or the current one when none is typed) and takes effect at most  *)
(* once, later, and only on an account that still is its user's.           *)
(***************************************************************************)
CONSTANTS Users, Emails, Ids, Configs, Passwords, Blank, Requests,
          None      \* no account, no settings, nothing pending

VARIABLES
    accounts,       \* id -> [user, email] or None
    credentials,    \* protocol -> id -> [config, password] or None
    pending         \* request -> the change it will make, or None

vars == <<accounts, credentials, pending>>

Protocols == {"imap", "smtp"}

Init ==
    /\ accounts = [id \in Ids |-> None]
    /\ credentials = [p \in Protocols |-> [id \in Ids |-> None]]
    /\ pending = [r \in Requests |-> None]

Belongs(id, u) == accounts[id] # None /\ accounts[id].user = u

Registered(u, e) == \E id \in Ids : accounts[id] = [user |-> u, email |-> e]

RequestAccount(r, u, e) ==
    /\ pending[r] = None
    /\ ~Registered(u, e)
    /\ pending' = [pending EXCEPT ![r] = [user |-> u, email |-> e]]
    /\ UNCHANGED <<accounts, credentials>>

AddAccount(r, u, e, id) ==
    /\ pending[r] = [user |-> u, email |-> e]
    /\ ~Registered(u, e)
    /\ accounts[id] = None
    /\ accounts' = [accounts EXCEPT ![id] = pending[r]]
    /\ pending' = [pending EXCEPT ![r] = None]
    /\ UNCHANGED credentials

RequestSave(r, p, u, id, config, typed) ==
    /\ pending[r] = None
    /\ Belongs(id, u)
    /\ typed = Blank => credentials[p][id] # None
    /\ LET password == IF typed = Blank THEN credentials[p][id].password ELSE typed
       IN  pending' = [pending EXCEPT ![r] =
                         [proto |-> p, user |-> u, id |-> id,
                          entry |-> [config |-> config, password |-> password]]]
    /\ UNCHANGED <<accounts, credentials>>

Save(r, p, u, id, entry) ==
    /\ pending[r] = [proto |-> p, user |-> u, id |-> id, entry |-> entry]
    /\ Belongs(id, u)
    /\ credentials' = [credentials EXCEPT ![p][id] = entry]
    /\ pending' = [pending EXCEPT ![r] = None]
    /\ UNCHANGED accounts

RemoveAccount(u, id) ==
    /\ Belongs(id, u)
    /\ accounts' = [accounts EXCEPT ![id] = None]
    /\ credentials' = [p \in Protocols |-> [credentials[p] EXCEPT ![id] = None]]
    /\ UNCHANGED pending

RemoveSettings(p, u, id) ==
    /\ Belongs(id, u)
    /\ credentials' = [credentials EXCEPT ![p][id] = None]
    /\ UNCHANGED <<accounts, pending>>

\* A request that answers an error changes nothing; a crash loses them all.
GiveUp(R) ==
    /\ pending' = [r \in Requests |-> IF r \in R THEN None ELSE pending[r]]
    /\ UNCHANGED <<accounts, credentials>>

Entries == [config : Configs, password : Passwords]

Next ==
    \/ \E r \in Requests, u \in Users, e \in Emails :
          \/ RequestAccount(r, u, e)
          \/ \E id \in Ids : AddAccount(r, u, e, id)
    \/ \E r \in Requests, p \in Protocols, u \in Users, id \in Ids :
          \/ \E config \in Configs, typed \in Passwords \cup {Blank} :
                RequestSave(r, p, u, id, config, typed)
          \/ \E entry \in Entries : Save(r, p, u, id, entry)
    \/ \E u \in Users, id \in Ids :
          \/ RemoveAccount(u, id)
          \/ \E p \in Protocols : RemoveSettings(p, u, id)
    \/ \E R \in SUBSET Requests : GiveUp(R)

Spec == Init /\ [][Next]_vars
=============================================================================
