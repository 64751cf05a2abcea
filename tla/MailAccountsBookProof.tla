------------------------ MODULE MailAccountsBookProof -----------------------
(***************************************************************************)
(* Every step of the mail account pages is a step of the account book, or  *)
(* leaves the book as it is.  The invariant IInv makes every row decrypt,  *)
(* so the refinement mapping never meets Corrupt.                          *)
(***************************************************************************)
EXTENDS MailAccountsProofs

\* What a row that decrypts shows in the book.
Entry(row) == [config |-> row.config, password |-> row.password.plain]

(* A row whose ciphertext, DEK and AADs belong together maps to the        *)
(* password that was typed, never to Corrupt.                              *)
LEMMA GoodRowDecrypts ==
    ASSUME NEW p, NEW u, NEW id, NEW row \in Rows,
           row.wrappedDEK.aad = envelopeAAD(u, id),
           row.password.aad = fieldAAD(u, id, p),
           row.password.key = row.wrappedDEK.plain
    PROVE  PlainRow(p, u, id, row) = Entry(row)
  <1>1. /\ row.wrappedDEK.key \in KEKs /\ row.wrappedDEK.key # NoKey
        /\ row.wrappedDEK.plain # NoKey /\ row # NoRow
    BY ConstantsAssumption, NoRowAssumption
       DEF ConstantsAssumption, NoRowAssumption, Rows, Blobs
  <1>2. decryptPassword(p, row.wrappedDEK.key, u, id, row)
    BY <1>1 DEF decryptPassword, OpenEnvelope, DecryptWithAAD, decryptAESGCM, validateKey
  <1> QED
    BY <1>1, <1>2 DEF PlainRow, PlainPassword, Entry

(* The mapping, row by row and request by request, under the invariant.    *)
BookShown ==
    /\ \A id \in Ids :
          /\ mailAccounts[id] = NoAccount => bookAccounts[id] = None
          /\ mailAccounts[id] # NoAccount =>
                bookAccounts[id] = mailAccounts[id] /\ mailAccounts[id] \in Accounts
    /\ \A p \in Protocols, id \in Ids :
          /\ settings[p][id] = NoRow => bookCredentials[p][id] = None
          /\ settings[p][id] # NoRow =>
                bookCredentials[p][id] = Entry(settings[p][id])
    /\ \A r \in Requests :
          /\ req[r].pc = "idle" => bookPending[r] = None
          /\ req[r].pc = "insert" =>
                bookPending[r] = [user |-> req[r].user, email |-> req[r].email]
          /\ req[r].pc = "prepare" =>
                bookPending[r] = [proto |-> req[r].proto, user |-> req[r].user,
                                  id |-> req[r].id, entry |-> req[r].form]
          /\ req[r].pc = "save" =>
                bookPending[r] = [proto |-> req[r].proto, user |-> req[r].user,
                                  id |-> req[r].id, entry |-> Entry(req[r].row)]

(* The invariant makes that view exact.                                    *)
LEMMA BookView == IInv => BookShown
  <1> SUFFICES ASSUME IInv PROVE BookShown
    OBVIOUS
  <1>1. \A id \in Ids :
           /\ mailAccounts[id] = NoAccount => bookAccounts[id] = None
           /\ mailAccounts[id] # NoAccount =>
                 bookAccounts[id] = mailAccounts[id] /\ mailAccounts[id] \in Accounts
    BY DEF IInv, TypeOK, bookAccounts
  <1>2. ASSUME NEW p \in Protocols, NEW id \in Ids
        PROVE  /\ settings[p][id] = NoRow => bookCredentials[p][id] = None
               /\ settings[p][id] # NoRow =>
                     bookCredentials[p][id] = Entry(settings[p][id])
    <2>1. settings[p][id] = NoRow => bookCredentials[p][id] = None
      BY DEF bookCredentials, PlainRow
    <2>2. ASSUME settings[p][id] # NoRow
          PROVE  bookCredentials[p][id] = Entry(settings[p][id])
      <3>1. /\ mailAccounts[id] # NoAccount /\ settings[p][id] \in Rows
            /\ GoodRow(p, mailAccounts[id].user, id, settings[p][id])
        BY <2>2 DEF IInv, TypeOK, StoredGood
      <3>2. PlainRow(p, mailAccounts[id].user, id, settings[p][id])
              = Entry(settings[p][id])
        BY <3>1, GoodRowDecrypts DEF GoodRow
      <3> QED
        BY <3>1, <3>2 DEF bookCredentials
    <2> QED
      BY <2>1, <2>2
  <1>3. ASSUME NEW r \in Requests
        PROVE  /\ req[r].pc = "idle" => bookPending[r] = None
               /\ req[r].pc = "insert" =>
                     bookPending[r] = [user |-> req[r].user, email |-> req[r].email]
               /\ req[r].pc = "prepare" =>
                     bookPending[r] = [proto |-> req[r].proto, user |-> req[r].user,
                                       id |-> req[r].id, entry |-> req[r].form]
               /\ req[r].pc = "save" =>
                     bookPending[r] = [proto |-> req[r].proto, user |-> req[r].user,
                                       id |-> req[r].id, entry |-> Entry(req[r].row)]
    <2>1. bookPending[r] = PendingChange(req[r])
      BY DEF bookPending
    <2>2. req[r].pc = "save" =>
             PlainRow(req[r].proto, req[r].user, req[r].id, req[r].row) = Entry(req[r].row)
      BY RequestShape, GoodRowDecrypts DEF IInv, InFlightGood, GoodRow, SaveRequest
    <2> QED
      BY <2>1, <2>2 DEF PendingChange
  <1> QED
    BY <1>1, <1>2, <1>3 DEF BookShown

(* The empty database is the empty book.                                   *)
LEMMA BookInit == Init => Book!Init
  <1> SUFFICES ASSUME Init PROVE Book!Init
    OBVIOUS
  <1>1. IInv
    BY InitIInv
  <1>2. bookAccounts = [id \in Ids |-> None]
    BY DEF Init, StoreInit, bookAccounts
  <1>3. bookCredentials = [p \in Book!Protocols |-> [id \in Ids |-> None]]
    BY DEF Init, StoreInit, bookCredentials, PlainRow, Protocols, Book!Protocols
  <1>4. bookPending = [r \in Requests |-> None]
    BY DEF Init, bookPending, PendingChange, Idle
  <1> QED
    BY <1>2, <1>3, <1>4 DEF Book!Init

(* A step that replaces one request replaces one entry of bookPending.     *)
LEMMA PendingExcept ==
    ASSUME IInv, NEW r \in Requests, NEW x, req' = [req EXCEPT ![r] = x]
    PROVE  bookPending' = [bookPending EXCEPT ![r] = PendingChange(x)]
  <1>1. \A s \in Requests : req'[s] = IF s = r THEN x ELSE req[s]
    BY DEF IInv, TypeOK
  <1>2. \A s \in Requests :
           PendingChange(req'[s]) = IF s = r THEN PendingChange(x) ELSE PendingChange(req[s])
    BY <1>1
  <1>3. bookPending' = [s \in Requests |-> PendingChange(req'[s])]
    BY DEF bookPending, PendingChange, PlainRow, PlainPassword
  <1> HIDE DEF PendingChange
  <1> QED
    BY <1>2, <1>3 DEF bookPending

StoresRow(p, id, row) == settings' = [settings EXCEPT ![p][id] = row]
ShowsEntry(p, id, entry) ==
    bookCredentials' = [bookCredentials EXCEPT ![p][id] = entry]

(* A step that replaces one settings row replaces one entry of the book.   *)
LEMMA CredentialsExcept ==
    ASSUME IInv, NEW p \in Protocols, NEW id \in Ids, NEW row, StoresRow(p, id, row),
           UNCHANGED mailAccounts, mailAccounts[id] # NoAccount
    PROVE  ShowsEntry(p, id, PlainRow(p, mailAccounts[id].user, id, row))
  <1> DEFINE owner(i) == IF mailAccounts[i] = NoAccount THEN None ELSE mailAccounts[i].user
  <1>1. \A t \in Protocols, i \in Ids :
           settings'[t][i] = IF t = p /\ i = id THEN row ELSE settings[t][i]
    BY DEF IInv, TypeOK, StoresRow
  <1>2. bookCredentials' = [t \in Protocols |-> [i \in Ids |->
                               PlainRow(t, owner(i), i, settings'[t][i])]]
    BY DEF bookCredentials, PlainRow, PlainPassword
  <1>3. bookCredentials = [t \in Protocols |-> [i \in Ids |->
                              PlainRow(t, owner(i), i, settings[t][i])]]
    BY DEF bookCredentials
  <1>4. owner(id) = mailAccounts[id].user
    OBVIOUS
  <1> HIDE DEF owner
  <1> QED
    BY <1>1, <1>2, <1>3, <1>4, SMTT(30) DEF ShowsEntry

(* An address is registered in the tables exactly when it is in the book.  *)
LEMMA RegisteredAgrees ==
    ASSUME IInv, NEW u \in Users, NEW e \in Emails
    PROVE  Book!Registered(u, e) <=> ExistsByUserAndEmail(u, e)
  <1>1. [user |-> u, email |-> e] \in Accounts
    BY DEF Accounts
  <1> QED
    BY <1>1, RefinementAssumption, NoAccountAssumption, BookView
       DEF RefinementAssumption, NoAccountAssumption, BookShown,
           Book!Registered, ExistsByUserAndEmail

(* The WHERE user_id = u AND id = id of the store is ownership in the      *)
(* book.                                                                   *)
LEMMA OwnsAgrees ==
    ASSUME IInv, NEW u \in Users, NEW id \in Ids
    PROVE  Book!Belongs(id, u) <=> Owns(u, id)
  BY RefinementAssumption, BookView
     DEF RefinementAssumption, BookShown, Book!Belongs, Owns

(* A free request slot has nothing pending.                                *)
LEMMA IdleShown ==
    ASSUME NEW r \in Requests, req[r] = Idle
    PROVE  bookPending[r] = None
  BY DEF bookPending, PendingChange, Idle

(* The accounts of the book depend on mail_accounts only.                  *)
LEMMA AccountsUnchanged ==
    ASSUME UNCHANGED mailAccounts
    PROVE  bookAccounts' = bookAccounts
  BY DEF bookAccounts

(* The credentials of the book depend on the tables only: no change of the *)
(* key file or of a request shows in them.                                 *)
LEMMA CredentialsUnchanged ==
    ASSUME UNCHANGED <<mailAccounts, settings>>
    PROVE  bookCredentials' = bookCredentials
  BY DEF bookCredentials, PlainRow, PlainPassword

-----------------------------------------------------------------------------
(* Passing ExistsByUserAndEmail is the book's RequestAccount.              *)
LEMMA CheckIsRequestAccount ==
    ASSUME IInv, NEW r \in Requests, NEW u \in Users, NEW e \in Emails,
           CheckNewAddress(r, u, e)
    PROVE  Book!RequestAccount(r, u, e)
  <1>1. bookPending[r] = None
    BY IdleShown DEF CheckNewAddress
  <1>2. ~Book!Registered(u, e)
    BY RegisteredAgrees DEF CheckNewAddress
  <1>3. bookPending' = [bookPending EXCEPT ![r] = [user |-> u, email |-> e]]
    <2>1. PendingChange([pc |-> "insert", user |-> u, email |-> e])
            = [user |-> u, email |-> e]
      BY DEF PendingChange
    <2> QED
      BY <2>1, PendingExcept DEF CheckNewAddress
  <1>4. bookAccounts' = bookAccounts /\ bookCredentials' = bookCredentials
    BY AccountsUnchanged, CredentialsUnchanged DEF CheckNewAddress, storeVars
  <1> QED
    BY <1>1, <1>2, <1>3, <1>4 DEF Book!RequestAccount

(* The INSERT of insertMailAccount is the book's AddAccount.               *)
LEMMA InsertIsAddAccount ==
    ASSUME IInv, NEW r \in Requests, insertMailAccount(r)
    PROVE  \E u \in Users, e \in Emails, id \in Ids : Book!AddAccount(r, u, e, id)
  <1> DEFINE u == req[r].user
             e == req[r].email
  <1>1. u \in Users /\ e \in Emails
    BY RequestShape DEF IInv, insertMailAccount, InsertRequest
  <1>2. PICK id \in NewID :
              /\ ~ExistsByUserAndEmail(u, e)
              /\ mailAccounts' = [mailAccounts EXCEPT ![id] = [user |-> u, email |-> e]]
    BY DEF insertMailAccount, Insert, AddAccount
  <1>3. id \in Ids /\ mailAccounts[id] = NoAccount
    BY <1>2 DEF NewID, IInv, Drawn
  <1>4. [user |-> u, email |-> e] \in Accounts /\ [user |-> u, email |-> e] # NoAccount
    BY <1>1, NoAccountAssumption DEF Accounts, NoAccountAssumption
  <1>5. bookPending[r] = [user |-> u, email |-> e]
    BY BookView DEF BookShown, insertMailAccount
  <1>6. ~Book!Registered(u, e)
    BY <1>1, <1>2, RegisteredAgrees
  <1>7. bookAccounts[id] = None
    BY <1>3, BookView DEF BookShown
  <1>8. bookAccounts' = [bookAccounts EXCEPT ![id] = bookPending[r]]
    <2>1. \A i \in Ids : mailAccounts'[i] = IF i = id THEN [user |-> u, email |-> e]
                                            ELSE mailAccounts[i]
      BY <1>2 DEF IInv, TypeOK
    <2> HIDE DEF u, e
    <2> QED
      BY <1>3, <1>4, <1>5, <2>1 DEF bookAccounts
  <1>9. bookPending' = [bookPending EXCEPT ![r] = None]
    <2>1. PendingChange(Idle) = None
      BY DEF PendingChange, Idle
    <2> QED
      BY <2>1, PendingExcept DEF insertMailAccount
  <1>10. bookCredentials' = bookCredentials
    <2>1. UNCHANGED settings
      BY DEF insertMailAccount, Insert
    <2>2. \A p \in Protocols : settings[p][id] = NoRow
      BY <1>3 DEF IInv, StoredGood
    <2>3. \A p \in Protocols, i \in Ids : i # id => mailAccounts'[i] = mailAccounts[i]
      BY <1>2 DEF IInv, TypeOK
    <2> QED
      BY <2>1, <2>2, <2>3 DEF bookCredentials, PlainRow, PlainPassword
  <1> QED
    BY <1>1, <1>3, <1>5, <1>6, <1>7, <1>8, <1>9, <1>10 DEF Book!AddAccount

(* Get fixes the password the save will store: the one typed, or the       *)
(* current one.                                                            *)
LEMMA ReadIsRequestSave ==
    ASSUME IInv, NEW p \in Protocols, NEW r \in Requests, NEW u \in Users,
           NEW id \in Ids, NEW form \in Forms, ReadForSave(p, r, u, id, form)
    PROVE  Book!RequestSave(r, p, u, id, form.config, form.password)
  <1>1. bookPending[r] = None
    BY IdleShown DEF ReadForSave
  <1>2. Book!Belongs(id, u)
    BY OwnsAgrees DEF ReadForSave
  <1>3. form.password = Blank => bookCredentials[p][id] # None
    <2> SUFFICES ASSUME form.password = Blank PROVE bookCredentials[p][id] # None
      OBVIOUS
    <2>1. settings[p][id] \in Rows /\ settings[p][id] # NoRow
      BY DEF ReadForSave, KeepPassword, TypePassword, IInv, TypeOK
    <2>2. Entry(settings[p][id]) \in [config : Configs, password : Passwords \cup {Corrupt}]
      BY <2>1 DEF Entry, Rows, Blobs
    <2> QED
      BY <2>1, <2>2, RefinementAssumption, BookView DEF RefinementAssumption, BookShown
  <1>4. bookAccounts' = bookAccounts /\ bookCredentials' = bookCredentials
    BY AccountsUnchanged, CredentialsUnchanged DEF ReadForSave, storeVars
  <1> DEFINE password == IF form.password = Blank THEN bookCredentials[p][id].password
                         ELSE form.password
  <1>5. bookPending' = [bookPending EXCEPT ![r] =
                          [proto |-> p, user |-> u, id |-> id,
                           entry |-> [config |-> form.config, password |-> password]]]
    <2>1. CASE KeepPassword(p, r, u, id, form)
      <3> DEFINE old == settings[p][id]
                 row == [old EXCEPT !.config = form.config]
                 q == [pc |-> "save", proto |-> p, user |-> u, id |-> id,
                       typed |-> Blank, row |-> row]
      <3>1. /\ old \in Rows /\ old # NoRow /\ form.config \in Configs
            /\ GoodRow(p, u, id, old)
        BY <2>1 DEF KeepPassword, ReadForSave, Owns, IInv, TypeOK, StoredGood, Forms
      <3>2. /\ row \in Rows
            /\ row.config = form.config /\ row.password = old.password
            /\ row.wrappedDEK = old.wrappedDEK
        BY <3>1 DEF Rows
      <3>3. PlainRow(p, u, id, row) = Entry(row)
        <4> HIDE DEF row
        <4> QED
          BY <3>1, <3>2, GoodRowDecrypts DEF GoodRow
      <3>4. form.password = Blank /\ bookCredentials[p][id] = Entry(old)
        BY <2>1, <3>1, BookView DEF BookShown, KeepPassword
      <3>5. Entry(row) = [config |-> form.config, password |-> password]
        BY <3>2, <3>4 DEF Entry
      <3>6. PendingChange(q) = [proto |-> p, user |-> u, id |-> id, entry |-> Entry(row)]
        <4> HIDE DEF row
        <4> QED
          BY <3>3 DEF PendingChange
      <3>7. req' = [req EXCEPT ![r] = q]
        BY <2>1 DEF KeepPassword
      <3> HIDE DEF q, row, password
      <3> QED
        BY <3>5, <3>6, <3>7, PendingExcept
    <2>2. CASE TypePassword(p, r, u, id, form)
      <3> DEFINE q == [pc |-> "prepare", proto |-> p, user |-> u, id |-> id,
                       form |-> form, seen |-> settings[p][id]]
      <3>1. form = [config |-> form.config, password |-> form.password]
        BY DEF Forms
      <3>2. PendingChange(q) = [proto |-> p, user |-> u, id |-> id, entry |-> form]
        BY DEF PendingChange
      <3>3. req' = [req EXCEPT ![r] = q] /\ form.password # Blank
        BY <2>2 DEF TypePassword
      <3> HIDE DEF q
      <3> QED
        BY <3>1, <3>2, <3>3, PendingExcept
    <2> QED
      BY <2>1, <2>2 DEF ReadForSave
  <1> QED
    BY <1>1, <1>2, <1>3, <1>4, <1>5 DEF Book!RequestSave

(* Sealing is invisible: the row decrypts to what the form held.           *)
LEMMA SealIsStutter ==
    ASSUME IInv, IInv', NEW p \in Protocols, NEW r \in Requests, SealPassword(p, r)
    PROVE  UNCHANGED <<bookAccounts, bookCredentials, bookPending>>
  <1> DEFINE q == req[r]
  <1>1. bookAccounts' = bookAccounts /\ bookCredentials' = bookCredentials
    BY AccountsUnchanged, CredentialsUnchanged DEF SealPassword, storeVars
  <1>2. q.pc = "prepare" /\ q \in PrepareRequest
    BY RequestShape DEF SealPassword, IInv
  <1>3. PICK wrapped, version : HandToSave(r, SealedRow(q, wrapped, version))
    BY DEF SealPassword, SealUnderOldDEK, SealUnderNewDEK
  <1> DEFINE row == SealedRow(q, wrapped, version)
             s == [pc |-> "save", proto |-> q.proto, user |-> q.user,
                   id |-> q.id, typed |-> q.form.password, row |-> row]
  <1>4. Entry(row) = q.form
    BY <1>2 DEF PrepareRequest, Entry, SealedRow, EncryptWithAAD, encryptAESGCM
  <1> HIDE DEF row
  <1>5. req' = [req EXCEPT ![r] = s]
    BY <1>3 DEF HandToSave, row
  <1>6. req'[r] = s
    BY <1>5 DEF IInv, TypeOK
  <1>7. bookPending'[r] = [proto |-> q.proto, user |-> q.user, id |-> q.id,
                           entry |-> Entry(row)]
    <2>1. BookShown'
      BY BookView, PTL
    <2>2. /\ req'[r].pc = "save" /\ req'[r].proto = q.proto /\ req'[r].user = q.user
          /\ req'[r].id = q.id /\ req'[r].row = row
      BY <1>6
    <2> QED
      BY <2>1, <2>2 DEF BookShown, Entry
  <1>8. bookPending[r] = [proto |-> q.proto, user |-> q.user, id |-> q.id,
                          entry |-> q.form]
    BY <1>2, BookView DEF BookShown
  <1>9. bookPending' = [bookPending EXCEPT ![r] = PendingChange(s)]
    BY <1>5, PendingExcept
  <1>10. bookPending' = bookPending
    BY <1>4, <1>7, <1>8, <1>9 DEF bookPending
  <1> QED
    BY <1>1, <1>10

(* A commit stores the entry that was pending.                             *)
LEMMA CommitIsSave ==
    ASSUME IInv, NEW r \in Requests, NEW p \in Protocols,
           req[r].pc = "save", req[r].proto = p,
           SaveRow(p, req[r].user, req[r].id, req[r].row),
           req' = [req EXCEPT ![r] = Idle]
    PROVE  \E u \in Users, id \in Ids, entry \in Book!Entries :
              Book!Save(r, p, u, id, entry)
  <1> DEFINE q == req[r]
  <1>1. q.user \in Users /\ q.id \in Ids /\ q.row \in Rows
    BY RequestShape DEF IInv, SaveRequest
  <1>2. GoodRow(p, q.user, q.id, q.row)
    BY DEF IInv, InFlightGood
  <1>3. PlainRow(p, q.user, q.id, q.row) = Entry(q.row)
    BY <1>1, <1>2, GoodRowDecrypts DEF GoodRow
  <1>4. /\ Owns(q.user, q.id) /\ UNCHANGED mailAccounts
        /\ settings' = [settings EXCEPT ![p][q.id] = q.row]
    BY DEF SaveRow, touchMailAccount, StoredRow
  <1>5. bookCredentials' = [bookCredentials EXCEPT ![p][q.id] = Entry(q.row)]
    <2>1. mailAccounts[q.id] # NoAccount /\ mailAccounts[q.id].user = q.user
      BY <1>4 DEF Owns
    <2>2. StoresRow(p, q.id, q.row)
      BY <1>4 DEF StoresRow
    <2>3. ShowsEntry(p, q.id, PlainRow(p, mailAccounts[q.id].user, q.id, q.row))
      BY <1>1, <1>4, <2>1, <2>2, CredentialsExcept
    <2> QED
      BY <1>3, <2>1, <2>3 DEF ShowsEntry
  <1>6. bookPending' = [bookPending EXCEPT ![r] = None]
    <2>1. PendingChange(Idle) = None
      BY DEF PendingChange, Idle
    <2> QED
      BY <2>1, PendingExcept
  <1>7. Entry(q.row) \in Book!Entries
    BY <1>1 DEF Entry, Rows, Blobs, Book!Entries
  <1>8. bookPending[r] = [proto |-> p, user |-> q.user, id |-> q.id,
                          entry |-> Entry(q.row)]
    BY BookView DEF BookShown
  <1>9. Book!Belongs(q.id, q.user)
    BY <1>1, <1>4, OwnsAgrees
  <1>10. bookAccounts' = bookAccounts
    BY <1>4, AccountsUnchanged
  <1> QED
    BY <1>1, <1>5, <1>6, <1>7, <1>8, <1>9, <1>10 DEF Book!Save

(* DELETE with its cascade is the book's RemoveAccount.                    *)
LEMMA DeleteIsRemoveAccount ==
    ASSUME IInv, NEW u \in Users, NEW id \in Ids, handleDeleteMailAccount(u, id)
    PROVE  Book!RemoveAccount(u, id)
  <1>1. /\ Owns(u, id) /\ UNCHANGED req
        /\ mailAccounts' = [mailAccounts EXCEPT ![id] = NoAccount]
        /\ settings' = [p \in Protocols |-> [settings[p] EXCEPT ![id] = NoRow]]
    BY DEF handleDeleteMailAccount, Delete, Cascade
  <1>2. Book!Belongs(id, u)
    BY <1>1, OwnsAgrees
  <1>3. bookAccounts' = [bookAccounts EXCEPT ![id] = None]
    BY <1>1 DEF IInv, TypeOK, bookAccounts
  <1>4. bookCredentials' = [p \in Protocols |-> [bookCredentials[p] EXCEPT ![id] = None]]
    <2>1. \A p \in Protocols, i \in Ids :
             settings'[p][i] = IF i = id THEN NoRow ELSE settings[p][i]
      BY <1>1 DEF IInv, TypeOK
    <2>2. \A i \in Ids : mailAccounts'[i] = IF i = id THEN NoAccount ELSE mailAccounts[i]
      BY <1>1 DEF IInv, TypeOK
    <2>3. bookCredentials' = [p \in Protocols |-> [i \in Ids |->
             PlainRow(p, IF mailAccounts'[i] = NoAccount THEN None ELSE mailAccounts'[i].user,
                      i, settings'[p][i])]]
      BY DEF bookCredentials, PlainRow, PlainPassword
    <2>4. ASSUME NEW p \in Protocols, NEW i \in Ids
          PROVE  bookCredentials'[p][i] = IF i = id THEN None ELSE bookCredentials[p][i]
      <3>1. CASE i = id
        <4>1. settings'[p][i] = NoRow
          BY <2>1, <3>1
        <4> QED
          BY <2>3, <3>1, <4>1 DEF PlainRow
      <3>2. CASE i # id
        BY <2>1, <2>2, <2>3, <3>2 DEF bookCredentials
      <3> QED
        BY <3>1, <3>2
    <2>5. /\ bookCredentials' = [p \in Protocols |-> [i \in Ids |-> bookCredentials'[p][i]]]
          /\ bookCredentials = [p \in Protocols |-> [i \in Ids |-> bookCredentials[p][i]]]
      BY <2>3 DEF bookCredentials
    <2> QED
      BY <2>4, <2>5
  <1>5. bookPending' = bookPending
    BY <1>1 DEF bookPending, PendingChange, PlainRow, PlainPassword
  <1> QED
    BY <1>2, <1>3, <1>4, <1>5 DEF Book!RemoveAccount, Book!Protocols, Protocols

(* DeleteIMAP and DeleteSMTP are the book's RemoveSettings.                *)
LEMMA DeleteRowIsRemoveSettings ==
    ASSUME IInv, NEW p \in Protocols, NEW u \in Users, NEW id \in Ids,
           DeleteRow(p, u, id), UNCHANGED req
    PROVE  Book!RemoveSettings(p, u, id)
  <1>1. /\ Owns(u, id) /\ UNCHANGED mailAccounts
        /\ settings' = [settings EXCEPT ![p][id] = NoRow]
    BY DEF DeleteRow, touchMailAccount
  <1>2. Book!Belongs(id, u)
    BY <1>1, OwnsAgrees
  <1>3. bookCredentials' = [bookCredentials EXCEPT ![p][id] = None]
    <2>1. PlainRow(p, mailAccounts[id].user, id, NoRow) = None
      BY DEF PlainRow
    <2>2. StoresRow(p, id, NoRow) /\ mailAccounts[id] # NoAccount
      BY <1>1 DEF StoresRow, Owns
    <2> QED
      BY <1>1, <2>1, <2>2, CredentialsExcept DEF ShowsEntry
  <1>4. bookPending' = bookPending
    BY DEF bookPending, PendingChange, PlainRow, PlainPassword
  <1> QED
    BY <1>1, <1>2, <1>3, <1>4, AccountsUnchanged DEF Book!RemoveSettings

(* An error answer gives up one pending change.                            *)
LEMMA ErrorIsGiveUp ==
    ASSUME IInv, NEW r \in Requests, ErrorReturn(r)
    PROVE  Book!GiveUp({r})
  <1>1. PendingChange(Idle) = None
    BY DEF PendingChange, Idle
  <1>2. bookPending' = [bookPending EXCEPT ![r] = None]
    BY <1>1, PendingExcept DEF ErrorReturn
  <1>3. bookPending' = [s \in Requests |-> IF s \in {r} THEN None ELSE bookPending[s]]
    BY <1>2 DEF bookPending
  <1> QED
    BY <1>3, AccountsUnchanged, CredentialsUnchanged DEF ErrorReturn, storeVars, Book!GiveUp

(* A restart gives up every pending change.                                *)
LEMMA RestartIsGiveUp ==
    ASSUME IInv, NEW v \in Versions, Restart(v)
    PROVE  Book!GiveUp(Requests)
  <1>1. PendingChange(Idle) = None
    BY DEF PendingChange, Idle
  <1>2. bookPending' = [s \in Requests |-> None]
    BY <1>1 DEF Restart, bookPending, PendingChange, PlainRow, PlainPassword, Idle
  <1> QED
    BY <1>2, AccountsUnchanged, CredentialsUnchanged DEF Restart, storeVars, Book!GiveUp

(* A step that leaves tables and requests alone leaves the book alone.     *)
LEMMA BookUnchanged ==
    ASSUME UNCHANGED <<mailAccounts, settings, req>>
    PROVE  UNCHANGED <<bookAccounts, bookCredentials, bookPending>>
  BY AccountsUnchanged, CredentialsUnchanged
     DEF bookPending, PendingChange, PlainRow, PlainPassword

(* Every step of the pages is a step of the book or a stutter.             *)
LEMMA StepRefines == IInv /\ IInv' /\ [Next]_vars => [Book!Next]_Book!vars
  <1> SUFFICES ASSUME IInv, IInv', [Next]_vars PROVE [Book!Next]_Book!vars
    OBVIOUS
  <1> USE DEF Book!Next
  <1>0. Protocols = Book!Protocols /\ "imap" \in Protocols /\ "smtp" \in Protocols
    BY DEF Protocols, Book!Protocols
  <1>1. ASSUME NEW r \in Requests, handleCreateMailAccount(r) PROVE Book!Next
    BY <1>1, CheckIsRequestAccount, InsertIsAddAccount DEF handleCreateMailAccount
  <1>2. ASSUME NEW p \in Protocols, NEW r \in Requests, NEW u \in Users, NEW id \in Ids,
               NEW form \in Forms, ReadForSave(p, r, u, id, form)
        PROVE  Book!Next
    <2>1. form.config \in Configs /\ form.password \in Passwords \cup {Blank}
      BY DEF Forms
    <2> QED
      BY <1>0, <1>2, <2>1, ReadIsRequestSave
  <1>3. ASSUME NEW p \in Protocols, NEW r \in Requests, SealPassword(p, r)
        PROVE  UNCHANGED Book!vars
    BY <1>3, SealIsStutter DEF Book!vars
  <1>4. ASSUME NEW r \in Requests, CommitIMAP(r) \/ CommitSMTP(r) PROVE Book!Next
    <2>1. \E p \in Protocols, u \in Users, id \in Ids, entry \in Book!Entries :
             Book!Save(r, p, u, id, entry)
      BY <1>0, <1>4, CommitIsSave DEF CommitIMAP, CommitSMTP, SaveIMAP, SaveSMTP
    <2> QED
      BY <1>0, <2>1
  <1>5. ASSUME NEW u \in Users, NEW id \in Ids,
               \/ handleDeleteMailAccount(u, id)
               \/ handleDeleteIMAPAccount(u, id)
               \/ handleDeleteSMTPAccount(u, id)
        PROVE  Book!Next
    BY <1>0, <1>5, DeleteIsRemoveAccount, DeleteRowIsRemoveSettings
       DEF handleDeleteIMAPAccount, handleDeleteSMTPAccount, DeleteIMAP, DeleteSMTP
  <1>6. ASSUME NEW r \in Requests, ErrorReturn(r) PROVE Book!Next
    BY <1>6, ErrorIsGiveUp
  <1>7. ASSUME NEW v \in Versions, Restart(v) PROVE Book!Next
    BY <1>7, RestartIsGiveUp
  <1>8. ASSUME NEW k \in KEKs \cup {NoKey}, ReplaceKEKFile(k) PROVE UNCHANGED Book!vars
    BY <1>8, BookUnchanged DEF ReplaceKEKFile, storeVars, Book!vars
  <1>9. CASE UNCHANGED vars
    BY <1>9, BookUnchanged DEF vars, Book!vars
  <1> QED
    BY <1>1, <1>2, <1>3, <1>4, <1>5, <1>6, <1>7, <1>8, <1>9
       DEF Next, handleSaveIMAPAccount, handleSaveSMTPAccount, Protocols

(* The mail account pages implement the account book.                      *)
THEOREM PagesImplementBook == Spec => ImplementsBook
  BY BookInit, StepRefines, Invariance, PTL DEF Spec, ImplementsBook, Book!Spec
=============================================================================
