-------------------------- MODULE MailAccountStore --------------------------
(***************************************************************************)
(* internal/mailaccount/store.go over the schema of                        *)
(* db/migrations/001_create_mail_accounts.sql.  Each operation that writes *)
(* is one transaction, and one action here: SaveIMAP, SaveSMTP, DeleteIMAP *)
(* and DeleteSMTP first UPDATE the parent row (touchMailAccount), Delete   *)
(* is a single DELETE of that row and Insert a single INSERT, so PostgreSQL*)
(* orders them by the parent's row lock and a failed one leaves nothing    *)
(* (the deferred Rollback).                                                *)
(***************************************************************************)
CONSTANTS
    Users,          \* OIDC subjects
    Emails,
    Ids,            \* mail account ids that NewID can draw
    NoAccount,      \* no row of mail_accounts has this id
    NoRow           \* no row of imap_accounts (smtp_accounts) has this id

VARIABLES
    mailAccounts,   \* mail_accounts: id -> row or NoAccount
    settings,       \* imap_accounts and smtp_accounts: protocol -> id -> row or NoRow
    drawnIds        \* every id NewID has returned and an INSERT has used

storeVars == <<mailAccounts, settings, drawnIds>>

Protocols == {"imap", "smtp"}

Accounts == [user : Users, email : Emails]

NoAccountAssumption == NoAccount \notin Accounts
ASSUME NoAccountAssumption

StoreInit ==
    /\ mailAccounts = [id \in Ids |-> NoAccount]
    /\ settings = [p \in Protocols |-> [id \in Ids |-> NoRow]]
    /\ drawnIds = {}

\* A row WHERE user_id = u AND id = id: Get finds it, touchMailAccount counts it.
Owns(u, id) == mailAccounts[id] # NoAccount /\ mailAccounts[id].user = u

ExistsByUserAndEmail(u, e) ==
    \E id \in Ids : mailAccounts[id] = [user |-> u, email |-> e]

\* NewID draws 122 random bits: never an id drawn before.
NewID == Ids \ drawnIds

\* A mutant: the migration without uk_mail_accounts_user_id_email_address.
AddAccountNoConstraint(id, u, e) ==
    mailAccounts' = [mailAccounts EXCEPT ![id] = [user |-> u, email |-> e]]

\* INSERT INTO mail_accounts under the UNIQUE (user_id, email_address) constraint.
AddAccount(id, u, e) ==
    /\ ~ExistsByUserAndEmail(u, e)
    /\ mailAccounts' = [mailAccounts EXCEPT ![id] = [user |-> u, email |-> e]]

Insert(u, e) ==
    \E id \in NewID :
        /\ AddAccount(id, u, e)
        /\ drawnIds' = drawnIds \cup {id}
        /\ UNCHANGED settings

touchMailAccount(u, id) == Owns(u, id)

\* A mutant: ON CONFLICT DO UPDATE SET that forgets wrapped_dek and kek_version.
StoredRowForgetsDEK(p, id, row) ==
    LET old == settings[p][id]
    IN  IF old = NoRow THEN row
        ELSE [row EXCEPT !.wrappedDEK = old.wrappedDEK, !.kekVersion = old.kekVersion]

\* A mutant: the SET list that forgets kek_version.
StoredRowForgetsVersion(p, id, row) ==
    LET old == settings[p][id]
    IN  IF old = NoRow THEN row ELSE [row EXCEPT !.kekVersion = old.kekVersion]

\* The row INSERT ... ON CONFLICT (mail_account_id) DO UPDATE SET leaves: every
\* column of EXCLUDED, whether or not a row was there.
StoredRow(p, id, row) == row

\* mail_account_id REFERENCES mail_accounts(id), in both child tables.
ForeignKey(id) == mailAccounts[id] # NoAccount

SaveRow(p, u, id, row) ==
    /\ touchMailAccount(u, id)
    /\ ForeignKey(id)
    /\ settings' = [settings EXCEPT ![p][id] = StoredRow(p, id, row)]
    /\ UNCHANGED <<mailAccounts, drawnIds>>

SaveIMAP(u, id, row) == SaveRow("imap", u, id, row)
SaveSMTP(u, id, row) == SaveRow("smtp", u, id, row)

DeleteRow(p, u, id) ==
    /\ touchMailAccount(u, id)
    /\ settings' = [settings EXCEPT ![p][id] = NoRow]
    /\ UNCHANGED <<mailAccounts, drawnIds>>

DeleteIMAP(u, id) == DeleteRow("imap", u, id)
DeleteSMTP(u, id) == DeleteRow("smtp", u, id)

\* A mutant: the schema without ON DELETE CASCADE on smtp_accounts.
CascadeNotToSMTP(id) == settings' = [settings EXCEPT !["imap"][id] = NoRow]

\* ON DELETE CASCADE from mail_accounts to both child tables.
Cascade(id) ==
    settings' = [p \in Protocols |-> [settings[p] EXCEPT ![id] = NoRow]]

Delete(u, id) ==
    /\ Owns(u, id)
    /\ mailAccounts' = [mailAccounts EXCEPT ![id] = NoAccount]
    /\ Cascade(id)
    /\ UNCHANGED drawnIds

-----------------------------------------------------------------------------
(* Each user can register a given email address only once: two requests    *)
(* may both pass the check of ExistsByUserAndEmail before either inserts.  *)
UniqueEmail ==
    \A i, j \in Ids :
        mailAccounts[i] # NoAccount /\ mailAccounts[i] = mailAccounts[j] => i = j

(* Settings belong to an account: no save that was in flight when the      *)
(* account was deleted leaves a row of imap_accounts or smtp_accounts.     *)
NoOrphanSettings ==
    \A p \in Protocols, id \in Ids :
        settings[p][id] # NoRow => mailAccounts[id] # NoAccount
=============================================================================
