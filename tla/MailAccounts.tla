---------------------------- MODULE MailAccounts ----------------------------
(***************************************************************************)
(* The mail account pages: internal/http/mail_account.go, imap_account.go  *)
(* and smtp_account.go over the store and the envelope encryption.         *)
(*                                                                         *)
(* net/http serves every request on its own goroutine and the handlers     *)
(* take no lock, so a handler is a process: it reads a snapshot of the     *)
(* account, encrypts under a key file read at that moment, and writes the  *)
(* result in a transaction, with any other request between two steps.      *)
(* A request that cannot complete a step (a database error, a canceled     *)
(* context, a constraint, an unusable key) answers an error and is gone.   *)
(***************************************************************************)
EXTENDS MailAccountStore, Envelope

CONSTANTS
    Requests,       \* slots for requests being served at one time
    Configs,        \* host, port, security and username of a settings row
    Passwords,      \* mail server passwords
    Blank,          \* the password field left empty
    KEKs,           \* key-encryption keys
    Versions,       \* values of MAIL_ACCOUNT_KEK_VERSION
    KEKOf,          \* the KEK the operator deploys with each version
    DEKs,           \* data keys a random draw can return
    Fresh,          \* a DEK not drawn yet
    HotSwap         \* TRUE: the key file may be replaced while the server runs

ConstantsAssumption ==
    /\ Blank \notin Passwords
    /\ NoKey \notin KEKs /\ NoKey \notin DEKs
    /\ KEKOf \in [Versions -> KEKs]
    /\ Fresh \notin Protocols \X Ids
    /\ HotSwap \in BOOLEAN
ASSUME ConstantsAssumption

VARIABLES
    kekFile,        \* contents of MAIL_ACCOUNT_KEK_FILE, read at every use
    kekVersion,     \* MAIL_ACCOUNT_KEK_VERSION, read once by config.Load
    issued,         \* DEK -> the settings it was drawn for, or Fresh (history)
    req             \* the requests being served

vars == <<mailAccounts, settings, drawnIds, kekFile, kekVersion, issued, req>>

\* The AADs are joined with ":" in the code; an account id is a UUID of fixed
\* length without ":", so the tuples they are built from can be read back.
envelopeAAD(u, id) == <<u, id>>
fieldAAD(u, id, p) == <<u, id, p>>

Rows == [config : Configs,
         password : Blobs(DEKs, Passwords, Users \X Ids \X Protocols),
         wrappedDEK : Blobs(KEKs, DEKs, Users \X Ids),
         kekVersion : Versions]

NoRowAssumption == NoRow \notin Rows
ASSUME NoRowAssumption

Forms == [config : Configs, password : Passwords \cup {Blank}]

\* What a request holds between two steps, by the step it is about to take.
IdleRequest == [pc : {"idle"}]
InsertRequest == [pc : {"insert"}, user : Users, email : Emails]
PrepareRequest == [pc : {"prepare"}, proto : Protocols, user : Users, id : Ids,
                   form : [config : Configs, password : Passwords],
                   seen : Rows \cup {NoRow}]
SaveRequest == [pc : {"save"}, proto : Protocols, user : Users, id : Ids,
                typed : Passwords \cup {Blank}, row : Rows]

Idle == [pc |-> "idle"]

(* The rows of the three tables, the key file and version, and what each   *)
(* request holds.                                                          *)
TypeOK ==
    /\ mailAccounts \in [Ids -> Accounts \cup {NoAccount}]
    /\ settings \in [Protocols -> [Ids -> Rows \cup {NoRow}]]
    /\ drawnIds \subseteq Ids
    /\ kekFile \in KEKs \cup {NoKey}
    /\ kekVersion \in Versions
    /\ issued \in [DEKs -> (Protocols \X Ids) \cup {Fresh}]
    /\ req \in [Requests -> IdleRequest \cup InsertRequest
                              \cup PrepareRequest \cup SaveRequest]

Init ==
    /\ StoreInit
    /\ kekVersion \in Versions
    /\ kekFile = KEKOf[kekVersion]
    /\ issued = [d \in DEKs |-> Fresh]
    /\ req = [r \in Requests |-> Idle]

environment == <<kekFile, kekVersion>>
-----------------------------------------------------------------------------
(* handleCreateMailAccount: check, then insert.                            *)

CheckNewAddress(r, u, e) ==
    /\ req[r] = Idle
    /\ ~ExistsByUserAndEmail(u, e)          \* otherwise 409 Conflict
    /\ req' = [req EXCEPT ![r] = [pc |-> "insert", user |-> u, email |-> e]]
    /\ UNCHANGED <<storeVars, environment, issued>>

insertMailAccount(r) ==
    /\ req[r].pc = "insert"
    /\ Insert(req[r].user, req[r].email)
    /\ req' = [req EXCEPT ![r] = Idle]
    /\ UNCHANGED <<environment, issued>>

handleCreateMailAccount(r) ==
    \/ \E u \in Users, e \in Emails : CheckNewAddress(r, u, e)
    \/ insertMailAccount(r)

handleDeleteMailAccount(u, id) ==
    /\ Delete(u, id)
    /\ UNCHANGED <<environment, issued, req>>
-----------------------------------------------------------------------------
(* handleSaveIMAPAccount and handleSaveSMTPAccount: read the account,      *)
(* encrypt a supplied password, save.                                      *)

\* No password typed: the ciphertext, the wrapped DEK and the version that Get
\* returned are written back with the new configuration.
KeepPassword(p, r, u, id, form) ==
    /\ form.password = Blank
    /\ settings[p][id] # NoRow               \* otherwise 400
    /\ req' = [req EXCEPT ![r] =
                 [pc |-> "save", proto |-> p, user |-> u, id |-> id, typed |-> Blank,
                  row |-> [settings[p][id] EXCEPT !.config = form.config]]]

TypePassword(p, r, u, id, form) ==
    /\ form.password # Blank
    /\ req' = [req EXCEPT ![r] =
                 [pc |-> "prepare", proto |-> p, user |-> u, id |-> id,
                  form |-> form, seen |-> settings[p][id]]]

ReadForSave(p, r, u, id, form) ==
    /\ req[r] = Idle
    /\ Owns(u, id)                          \* otherwise 404
    /\ \/ KeepPassword(p, r, u, id, form)
       \/ TypePassword(p, r, u, id, form)
    /\ UNCHANGED <<storeVars, environment, issued>>

\* A mutant: smtp_account.go seals with aadFieldIMAPPassword, as imap_account.go does.
SealedRowIMAPField(q, wrappedDEK, version) ==
    [config |-> q.form.config,
     password |-> EncryptWithAAD(wrappedDEK.plain, q.form.password,
                                 fieldAAD(q.user, q.id, "imap")),
     wrappedDEK |-> wrappedDEK,
     kekVersion |-> version]

SealedRow(q, wrappedDEK, version) ==
    [config |-> q.form.config,
     password |-> EncryptWithAAD(wrappedDEK.plain, q.form.password,
                                 fieldAAD(q.user, q.id, q.proto)),
     wrappedDEK |-> wrappedDEK,
     kekVersion |-> version]

HandToSave(r, row) ==
    req' = [req EXCEPT ![r] = [pc |-> "save", proto |-> @.proto, user |-> @.user,
                               id |-> @.id, typed |-> @.form.password, row |-> row]]

\* The snapshot had a row: its DEK seals the new password too.
SealUnderOldDEK(r) ==
    LET q == req[r]
    IN  /\ q.seen # NoRow
        /\ OpenEnvelope(kekFile, q.seen.wrappedDEK, envelopeAAD(q.user, q.id))
        /\ HandToSave(r, SealedRow(q, q.seen.wrappedDEK, q.seen.kekVersion))
        /\ UNCHANGED issued

\* A mutant: one envelope for both protocols of an account.
SealUnderAnyDEKOfAccount(r) ==
    LET q == req[r]
    IN  /\ q.seen = NoRow
        /\ validateKey(kekFile)
        /\ \E dek \in {d \in DEKs : issued[d] = Fresh \/ issued[d][2] = q.id} :
              LET e == NewEnvelope(kekFile, kekVersion, dek, envelopeAAD(q.user, q.id))
              IN  /\ HandToSave(r, SealedRow(q, e.wrappedDEK, e.kekVersion))
                  /\ issued' = [issued EXCEPT ![dek] = <<q.proto, q.id>>]

\* It had none: a new DEK, wrapped under the key file's contents and labelled with
\* the version loaded at startup.
SealUnderNewDEK(r) ==
    LET q == req[r]
    IN  /\ q.seen = NoRow
        /\ validateKey(kekFile)
        /\ \E dek \in {d \in DEKs : issued[d] = Fresh} :
              LET e == NewEnvelope(kekFile, kekVersion, dek, envelopeAAD(q.user, q.id))
              IN  /\ HandToSave(r, SealedRow(q, e.wrappedDEK, e.kekVersion))
                  /\ issued' = [issued EXCEPT ![dek] = <<q.proto, q.id>>]

SealPassword(p, r) ==
    /\ req[r].pc = "prepare" /\ req[r].proto = p
    /\ SealUnderOldDEK(r) \/ SealUnderNewDEK(r)
    /\ UNCHANGED <<storeVars, environment>>

CommitIMAP(r) ==
    /\ req[r].pc = "save" /\ req[r].proto = "imap"
    /\ SaveIMAP(req[r].user, req[r].id, req[r].row)
    /\ req' = [req EXCEPT ![r] = Idle]
    /\ UNCHANGED <<environment, issued>>

CommitSMTP(r) ==
    /\ req[r].pc = "save" /\ req[r].proto = "smtp"
    /\ SaveSMTP(req[r].user, req[r].id, req[r].row)
    /\ req' = [req EXCEPT ![r] = Idle]
    /\ UNCHANGED <<environment, issued>>

handleSaveIMAPAccount(r) ==
    \/ \E u \in Users, id \in Ids, form \in Forms : ReadForSave("imap", r, u, id, form)
    \/ SealPassword("imap", r)
    \/ CommitIMAP(r)

handleSaveSMTPAccount(r) ==
    \/ \E u \in Users, id \in Ids, form \in Forms : ReadForSave("smtp", r, u, id, form)
    \/ SealPassword("smtp", r)
    \/ CommitSMTP(r)

handleDeleteIMAPAccount(u, id) ==
    /\ DeleteIMAP(u, id)
    /\ UNCHANGED <<environment, issued, req>>

handleDeleteSMTPAccount(u, id) ==
    /\ DeleteSMTP(u, id)
    /\ UNCHANGED <<environment, issued, req>>

\* Any error return: a canceled context, a failed query or transaction,
\* ErrDuplicateAccount, no row touched, a key file that does not open the envelope.
ErrorReturn(r) ==
    /\ req[r] # Idle
    /\ req' = [req EXCEPT ![r] = Idle]
    /\ UNCHANGED <<storeVars, environment, issued>>
-----------------------------------------------------------------------------
(* What happens around the server.                                         *)

\* A restart with a version and the key deployed for it; requests in flight are lost.
Restart(v) ==
    /\ kekVersion' = v
    /\ kekFile' = KEKOf[v]
    /\ req' = [r \in Requests |-> Idle]
    /\ UNCHANGED <<storeVars, issued>>

\* The file becomes unreadable or is put back; with HotSwap any key may replace it.
ReplaceKEKFile(k) ==
    /\ k # kekFile
    /\ HotSwap \/ k \in {NoKey, KEKOf[kekVersion]}
    /\ kekFile' = k
    /\ UNCHANGED <<storeVars, kekVersion, issued, req>>

Next ==
    \/ \E r \in Requests :
          \/ handleCreateMailAccount(r)
          \/ handleSaveIMAPAccount(r)
          \/ handleSaveSMTPAccount(r)
          \/ ErrorReturn(r)
    \/ \E u \in Users, id \in Ids :
          \/ handleDeleteMailAccount(u, id)
          \/ handleDeleteIMAPAccount(u, id)
          \/ handleDeleteSMTPAccount(u, id)
    \/ \E v \in Versions : Restart(v)
    \/ \E k \in KEKs \cup {NoKey} : ReplaceKEKFile(k)

Spec == Init /\ [][Next]_vars
-----------------------------------------------------------------------------
\* decryptIMAPPassword and decryptSMTPPassword recover row.password.plain.
decryptPassword(p, kek, u, id, row) ==
    /\ OpenEnvelope(kek, row.wrappedDEK, envelopeAAD(u, id))
    /\ DecryptWithAAD(row.wrappedDEK.plain, row.password, fieldAAD(u, id, p))

(* Every stored password can be read back by its owner under the KEK it    *)
(* was saved under, whatever saves, deletes and key changes were           *)
(* interleaved: its ciphertext, its wrapped DEK and both AADs belong       *)
(* together.                                                               *)
EnvelopeIntact ==
    \A p \in Protocols, id \in Ids :
        settings[p][id] # NoRow =>
            \E kek \in KEKs :
                decryptPassword(p, kek, mailAccounts[id].user, id, settings[p][id])

(* docs/crypto.md: each protocol settings record has its own DEK.          *)
OwnDEK ==
    \A p, q \in Protocols, i, j \in Ids :
        /\ settings[p][i] # NoRow /\ settings[q][j] # NoRow
        /\ settings[p][i].wrappedDEK.plain = settings[q][j].wrappedDEK.plain
        => p = q /\ i = j

(* When key and version are only changed together by a restart, settings   *)
(* labelled with the loaded version open under the key that is deployed:   *)
(* kek_version (docs/database.md) names the KEK that wraps the DEK.        *)
ReadableAtItsVersion ==
    HotSwap = FALSE =>
        \A p \in Protocols, id \in Ids :
            LET row == settings[p][id]
            IN  row # NoRow /\ row.kekVersion = kekVersion /\ validateKey(kekFile)
                => decryptPassword(p, kekFile, mailAccounts[id].user, id, row)

(* README.md:55: the configured KEK version encrypts newly saved secrets,  *)
(* whether or not the settings had a password before.                      *)
NewSecretUnderConfiguredVersion ==
    \A r \in Requests :
        req[r].pc = "prepare" /\ validateKey(kekFile) /\ req[r].seen # NoRow =>
            LET q == req[r]
            IN  /\ OpenEnvelope(kekFile, q.seen.wrappedDEK, envelopeAAD(q.user, q.id))
                /\ q.seen.kekVersion = kekVersion

(* The forms ask for a "New password": a save with that field left empty   *)
(* does not change the password of the settings it overwrites.             *)
EmptyFieldKeepsPassword ==
    [][\A r \in Requests :
          LET q == req[r]
          IN  /\ q.pc = "save" /\ q.typed = Blank
              /\ settings' # settings /\ req'[r] # q
              /\ settings[q.proto][q.id] # NoRow
              => settings'[q.proto][q.id].password.plain
                    = settings[q.proto][q.id].password.plain]_vars
=============================================================================
