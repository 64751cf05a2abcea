------------------------- MODULE MailAccountsProofs -------------------------
(***************************************************************************)
(* Theorems about the mail account pages, for every number of users,       *)
(* accounts, requests, keys and passwords.                                 *)
(*                                                                         *)
(* The invariants a reader cares about speak of stored rows only, and are  *)
(* not inductive: what a save stores is what it read and sealed earlier.   *)
(* IInv says the same of the rows that requests carry (InFlightGood), that *)
(* a data key belongs to the settings it was drawn for, in the tables as   *)
(* in the requests, and that an id is never drawn twice (Drawn).           *)
(***************************************************************************)
EXTENDS MailAccountsRefinement, TLAPS

\* A row that decrypts for user u, account id and protocol p, under its own DEK.
GoodRow(p, u, id, row) ==
    /\ row.wrappedDEK.aad = envelopeAAD(u, id)
    /\ row.password.aad = fieldAAD(u, id, p)
    /\ row.password.key = row.wrappedDEK.plain
    /\ issued[row.wrappedDEK.plain] = <<p, id>>
    /\ HotSwap = FALSE => row.wrappedDEK.key = KEKOf[row.kekVersion]

Drawn ==
    /\ \A id \in Ids : mailAccounts[id] # NoAccount => id \in drawnIds
    /\ \A r \in Requests : req[r].pc \in {"prepare", "save"} =>
          /\ req[r].id \in drawnIds
          /\ Owns(req[r].user, req[r].id) \/ mailAccounts[req[r].id] = NoAccount

StoredGood ==
    \A p \in Protocols, id \in Ids : settings[p][id] # NoRow =>
        /\ mailAccounts[id] # NoAccount
        /\ GoodRow(p, mailAccounts[id].user, id, settings[p][id])

InFlightGood ==
    \A r \in Requests :
        /\ req[r].pc = "prepare" /\ req[r].seen # NoRow =>
              GoodRow(req[r].proto, req[r].user, req[r].id, req[r].seen)
        /\ req[r].pc = "save" =>
              GoodRow(req[r].proto, req[r].user, req[r].id, req[r].row)

KeyDeployed == HotSwap = FALSE => kekFile \in {NoKey, KEKOf[kekVersion]}

IInv ==
    /\ TypeOK
    /\ Drawn
    /\ StoredGood
    /\ InFlightGood
    /\ KeyDeployed
    /\ UniqueEmail

-----------------------------------------------------------------------------
(* What a request holds, by its step.                                      *)
LEMMA RequestShape ==
    ASSUME TypeOK, NEW r \in Requests
    PROVE  /\ req[r].pc \in {"idle", "insert", "prepare", "save"}
           /\ req[r] = Idle <=> req[r].pc = "idle"
           /\ req[r].pc = "insert" => req[r] \in InsertRequest
           /\ req[r].pc = "prepare" => req[r] \in PrepareRequest
           /\ req[r].pc = "save" => req[r] \in SaveRequest
  <1>1. req[r] \in IdleRequest \cup InsertRequest \cup PrepareRequest \cup SaveRequest
    BY DEF TypeOK
  <1>2. req[r] \in IdleRequest => req[r] = Idle
    BY DEF IdleRequest, Idle
  <1> QED
    BY <1>1, <1>2 DEF IdleRequest, InsertRequest, PrepareRequest, SaveRequest, Idle

(* The empty tables of a fresh database satisfy the invariant.             *)
LEMMA InitIInv == Init => IInv
  <1> SUFFICES ASSUME Init PROVE IInv
    OBVIOUS
  <1> USE DEF Init, StoreInit, Idle
  <1>1. TypeOK
    BY ConstantsAssumption DEF ConstantsAssumption, TypeOK, IdleRequest
  <1>2. Drawn
    BY DEF Drawn
  <1>3. StoredGood
    BY DEF StoredGood
  <1>4. InFlightGood
    BY DEF InFlightGood
  <1>5. KeyDeployed
    BY DEF KeyDeployed
  <1>6. UniqueEmail
    BY DEF UniqueEmail
  <1> QED
    BY <1>1, <1>2, <1>3, <1>4, <1>5, <1>6 DEF IInv

(* A step that only clears requests keeps the invariant.                   *)
LEMMA ClearRequests ==
    ASSUME IInv,
           UNCHANGED <<mailAccounts, settings, drawnIds, kekFile, kekVersion, issued>>,
           req' \in [Requests -> IdleRequest \cup InsertRequest
                                   \cup PrepareRequest \cup SaveRequest],
           \A r \in Requests : req'[r] = req[r] \/ req'[r].pc \in {"idle", "insert"}
    PROVE  IInv'
  <1>1. TypeOK'
    BY DEF IInv, TypeOK
  <1>2. Drawn'
    BY DEF IInv, Drawn, Owns
  <1>3. StoredGood'
    BY DEF IInv, StoredGood, GoodRow
  <1>4. InFlightGood'
    <2> SUFFICES ASSUME NEW r \in Requests, req'[r] = req[r]
                 PROVE  /\ req[r].pc = "prepare" /\ req[r].seen # NoRow =>
                              GoodRow(req[r].proto, req[r].user, req[r].id, req[r].seen)'
                        /\ req[r].pc = "save" =>
                              GoodRow(req[r].proto, req[r].user, req[r].id, req[r].row)'
      BY DEF InFlightGood
    <2>1. /\ req[r].pc = "prepare" /\ req[r].seen # NoRow =>
                GoodRow(req[r].proto, req[r].user, req[r].id, req[r].seen)
          /\ req[r].pc = "save" =>
                GoodRow(req[r].proto, req[r].user, req[r].id, req[r].row)
      BY DEF IInv, InFlightGood
    <2> QED
      BY <2>1 DEF GoodRow
  <1>5. KeyDeployed' /\ UniqueEmail'
    BY DEF IInv, KeyDeployed, UniqueEmail
  <1> QED
    BY <1>1, <1>2, <1>3, <1>4, <1>5 DEF IInv

(* A new account takes an id never drawn before and an address its user    *)
(* does not have: the INSERT keeps the invariant.                          *)
LEMMA InsertStep ==
    ASSUME IInv, NEW r \in Requests, insertMailAccount(r)
    PROVE  IInv'
  <1> DEFINE u == req[r].user
             e == req[r].email
  <1>1. u \in Users /\ e \in Emails
    BY RequestShape DEF IInv, insertMailAccount, InsertRequest
  <1>2. PICK id \in NewID :
              /\ ~ExistsByUserAndEmail(u, e)
              /\ mailAccounts' = [mailAccounts EXCEPT ![id] = [user |-> u, email |-> e]]
              /\ drawnIds' = drawnIds \cup {id}
    BY DEF insertMailAccount, Insert, AddAccount
  <1>3. id \in Ids /\ id \notin drawnIds /\ mailAccounts[id] = NoAccount
    BY <1>2 DEF NewID, IInv, Drawn
  <1>4. /\ req' = [req EXCEPT ![r] = Idle]
        /\ UNCHANGED <<settings, kekFile, kekVersion, issued>>
    BY DEF insertMailAccount, Insert, environment
  <1>5. mailAccounts \in [Ids -> Accounts \cup {NoAccount}]
    BY DEF IInv, TypeOK
  <1>6. TypeOK'
    <2>1. mailAccounts' \in [Ids -> Accounts \cup {NoAccount}]
      BY <1>1, <1>2, <1>5 DEF Accounts
    <2>2. drawnIds' \subseteq Ids
      BY <1>2, <1>3 DEF IInv, TypeOK
    <2> QED
      BY <1>4, <2>1, <2>2 DEF IInv, TypeOK, IdleRequest, Idle
  <1>7. Drawn'
    <2>1. \A i \in Ids : mailAccounts'[i] # NoAccount => i \in drawnIds'
      BY <1>2, <1>3, <1>5 DEF IInv, Drawn
    <2>2. ASSUME NEW s \in Requests, req'[s].pc \in {"prepare", "save"}
          PROVE  /\ req'[s].id \in drawnIds'
                 /\ \/ Owns(req[s].user, req[s].id)'
                    \/ mailAccounts'[req'[s].id] = NoAccount
      <3>1. s # r /\ req'[s] = req[s]
        BY <1>4, <2>2 DEF IInv, TypeOK, Idle
      <3>2. req[s].id \in drawnIds /\ req[s].id # id
        BY <1>3, <2>2, <3>1 DEF IInv, Drawn
      <3>3. mailAccounts'[req[s].id] = mailAccounts[req[s].id]
        BY <1>2, <1>5, <3>2 DEF IInv, TypeOK
      <3> QED
        BY <1>2, <2>2, <3>1, <3>2, <3>3 DEF IInv, Drawn, Owns
    <2> QED
      BY <2>1, <2>2 DEF Drawn, Owns
  <1>8. StoredGood'
    BY <1>2, <1>3, <1>4, <1>5, ZenonT(30) DEF IInv, StoredGood, GoodRow
  <1>9. InFlightGood'
    BY <1>4 DEF IInv, TypeOK, InFlightGood, GoodRow, Idle
  <1>10. KeyDeployed'
    BY <1>4 DEF IInv, KeyDeployed
  <1>11. UniqueEmail'
    BY <1>2, <1>3, <1>5 DEF IInv, UniqueEmail, ExistsByUserAndEmail
  <1> QED
    BY <1>6, <1>7, <1>8, <1>9, <1>10, <1>11 DEF IInv

(* The row a save stores is the row it carried; nothing else in the tables *)
(* changes.                                                                *)
LEMMA CommitStep ==
    ASSUME IInv, NEW r \in Requests, NEW p \in Protocols,
           req[r].pc = "save", req[r].proto = p,
           SaveRow(p, req[r].user, req[r].id, req[r].row),
           req' = [req EXCEPT ![r] = Idle],
           UNCHANGED <<environment, issued>>
    PROVE  IInv'
  <1> DEFINE q == req[r]
  <1>1. q.user \in Users /\ q.id \in Ids /\ q.row \in Rows
    BY RequestShape DEF IInv, SaveRequest
  <1>2. /\ Owns(q.user, q.id)
        /\ settings' = [settings EXCEPT ![p][q.id] = q.row]
        /\ UNCHANGED <<mailAccounts, drawnIds, kekFile, kekVersion, issued>>
    BY DEF SaveRow, touchMailAccount, StoredRow, environment
  <1>3. TypeOK'
    BY <1>1, <1>2 DEF IInv, TypeOK, IdleRequest, Idle
  <1>4. Drawn'
    BY <1>2 DEF IInv, TypeOK, Drawn, Owns, Idle
  <1>5. StoredGood'
    <2>1. GoodRow(p, q.user, q.id, q.row)
      BY DEF IInv, InFlightGood
    <2> SUFFICES ASSUME NEW t \in Protocols, NEW id \in Ids, settings'[t][id] # NoRow
                 PROVE  /\ mailAccounts'[id] # NoAccount
                        /\ GoodRow(t, mailAccounts[id].user, id, settings[t][id])'
      BY DEF StoredGood
    <2>2. CASE t = p /\ id = q.id
      <3>1. settings'[t][id] = q.row
        BY <1>1, <1>2, <2>2 DEF IInv, TypeOK
      <3>2. mailAccounts'[id] # NoAccount /\ mailAccounts'[id].user = q.user
        BY <1>2, <2>2 DEF Owns
      <3> QED
        BY <1>2, <2>1, <2>2, <3>1, <3>2 DEF GoodRow
    <2>3. CASE ~(t = p /\ id = q.id)
      <3>1. settings'[t][id] = settings[t][id]
        BY <1>1, <1>2, <2>3 DEF IInv, TypeOK
      <3>2. mailAccounts[id] # NoAccount /\ GoodRow(t, mailAccounts[id].user, id, settings[t][id])
        BY <3>1 DEF IInv, StoredGood
      <3> QED
        BY <1>2, <3>1, <3>2 DEF GoodRow
    <2> QED
      BY <2>2, <2>3
  <1>6. InFlightGood'
    BY <1>2, ZenonT(30) DEF IInv, TypeOK, InFlightGood, GoodRow, Idle
  <1>7. KeyDeployed' /\ UniqueEmail'
    BY <1>2 DEF IInv, KeyDeployed, UniqueEmail
  <1> QED
    BY <1>3, <1>4, <1>5, <1>6, <1>7 DEF IInv

(* Deletes only ever take rows away.                                       *)
LEMMA DeleteStep ==
    ASSUME IInv, NEW u \in Users, NEW id \in Ids, handleDeleteMailAccount(u, id)
    PROVE  IInv'
  <1>1. /\ mailAccounts' = [mailAccounts EXCEPT ![id] = NoAccount]
        /\ settings' = [p \in Protocols |-> [settings[p] EXCEPT ![id] = NoRow]]
        /\ UNCHANGED <<drawnIds, kekFile, kekVersion, issued, req>>
    BY DEF handleDeleteMailAccount, Delete, Cascade, environment
  <1>2. TypeOK'
    BY <1>1 DEF IInv, TypeOK
  <1>3. Drawn'
    BY <1>1 DEF IInv, TypeOK, Drawn, Owns
  <1>4. StoredGood'
    BY <1>1 DEF IInv, TypeOK, StoredGood, GoodRow
  <1>5. InFlightGood'
    BY <1>1 DEF IInv, InFlightGood, GoodRow
  <1>6. KeyDeployed' /\ UniqueEmail'
    BY <1>1 DEF IInv, TypeOK, KeyDeployed, UniqueEmail
  <1> QED
    BY <1>2, <1>3, <1>4, <1>5, <1>6 DEF IInv

(* Deleting the settings of one protocol takes one row away and touches    *)
(* nothing else.                                                           *)
LEMMA DeleteRowStep ==
    ASSUME IInv, NEW p \in Protocols, NEW u \in Users, NEW id \in Ids,
           DeleteRow(p, u, id), UNCHANGED <<environment, issued, req>>
    PROVE  IInv'
  <1>1. /\ settings' = [settings EXCEPT ![p][id] = NoRow]
        /\ UNCHANGED <<mailAccounts, drawnIds, kekFile, kekVersion, issued, req>>
    BY DEF DeleteRow, environment
  <1>2. TypeOK'
    BY <1>1 DEF IInv, TypeOK
  <1>3. Drawn'
    BY <1>1 DEF IInv, Drawn, Owns
  <1>4. StoredGood'
    <2> SUFFICES ASSUME NEW t \in Protocols, NEW i \in Ids, settings'[t][i] # NoRow
                 PROVE  /\ mailAccounts'[i] # NoAccount
                        /\ GoodRow(t, mailAccounts[i].user, i, settings[t][i])'
      BY DEF StoredGood
    <2>1. settings'[t][i] = settings[t][i]
      BY <1>1 DEF IInv, TypeOK
    <2>2. /\ mailAccounts[i] # NoAccount
          /\ GoodRow(t, mailAccounts[i].user, i, settings[t][i])
      BY <2>1 DEF IInv, StoredGood
    <2> QED
      BY <1>1, <2>1, <2>2 DEF GoodRow
  <1>5. InFlightGood'
    BY <1>1, SMTT(30) DEF IInv, InFlightGood, GoodRow
  <1>6. KeyDeployed' /\ UniqueEmail'
    BY <1>1 DEF IInv, KeyDeployed, UniqueEmail
  <1> QED
    BY <1>2, <1>3, <1>4, <1>5, <1>6 DEF IInv

(* What Get returned is what is stored, and is good.                       *)
LEMMA ReadStep ==
    ASSUME IInv, NEW p \in Protocols, NEW r \in Requests, NEW u \in Users,
           NEW id \in Ids, NEW form \in Forms, ReadForSave(p, r, u, id, form)
    PROVE  IInv'
  <1>1. /\ Owns(u, id)
        /\ UNCHANGED <<mailAccounts, settings, drawnIds, kekFile, kekVersion, issued>>
    BY DEF ReadForSave, storeVars, environment
  <1>2. id \in drawnIds
    BY <1>1 DEF IInv, Drawn, Owns
  <1>3. settings[p][id] \in Rows \cup {NoRow}
    BY DEF IInv, TypeOK
  <1>4. settings[p][id] # NoRow => GoodRow(p, u, id, settings[p][id])
    BY <1>1 DEF IInv, StoredGood, Owns
  <1>5. CASE KeepPassword(p, r, u, id, form)
    <2> DEFINE row == [settings[p][id] EXCEPT !.config = form.config]
               q == [pc |-> "save", proto |-> p, user |-> u, id |-> id,
                     typed |-> Blank, row |-> row]
    <2>1. settings[p][id] \in Rows /\ settings[p][id] # NoRow
      BY <1>3, <1>5 DEF KeepPassword
    <2>2. form.config \in Configs
      BY DEF Forms
    <2>3. row \in Rows
      BY <2>1, <2>2 DEF Rows
    <2>4. GoodRow(p, u, id, row)
      BY <1>4, <2>1 DEF GoodRow, Rows
    <2>5. req' = [req EXCEPT ![r] = q]
      BY <1>5 DEF KeepPassword
    <2>6. q \in SaveRequest
      BY <2>3 DEF SaveRequest
    <2> HIDE DEF row
    <2>7. TypeOK'
      BY <1>1, <2>5, <2>6 DEF IInv, TypeOK
    <2>8. Drawn'
      BY <1>1, <1>2, <2>5 DEF IInv, TypeOK, Drawn, Owns
    <2>9. InFlightGood'
      BY <1>1, <2>4, <2>5, ZenonT(30) DEF IInv, TypeOK, InFlightGood, GoodRow
    <2>10. StoredGood' /\ KeyDeployed' /\ UniqueEmail'
      BY <1>1 DEF IInv, StoredGood, GoodRow, KeyDeployed, UniqueEmail
    <2> QED
      BY <2>7, <2>8, <2>9, <2>10 DEF IInv
  <1>6. CASE TypePassword(p, r, u, id, form)
    <2> DEFINE q == [pc |-> "prepare", proto |-> p, user |-> u, id |-> id,
                     form |-> form, seen |-> settings[p][id]]
    <2>1. form \in [config : Configs, password : Passwords]
      BY <1>6 DEF TypePassword, Forms
    <2>2. req' = [req EXCEPT ![r] = q]
      BY <1>6 DEF TypePassword
    <2>3. q \in PrepareRequest
      BY <1>3, <2>1 DEF PrepareRequest
    <2>4. TypeOK'
      BY <1>1, <2>2, <2>3 DEF IInv, TypeOK
    <2>5. Drawn'
      BY <1>1, <1>2, <2>2 DEF IInv, TypeOK, Drawn, Owns
    <2>6. InFlightGood'
      BY <1>1, <1>4, <2>2 DEF IInv, TypeOK, InFlightGood, GoodRow
    <2>7. StoredGood' /\ KeyDeployed' /\ UniqueEmail'
      BY <1>1 DEF IInv, StoredGood, GoodRow, KeyDeployed, UniqueEmail
    <2> QED
      BY <2>4, <2>5, <2>6, <2>7 DEF IInv
  <1> QED
    BY <1>5, <1>6 DEF ReadForSave

(* Sealing: under the DEK of the row that was read, or under a fresh one   *)
(* that then belongs to these settings.                                    *)
LEMMA SealStep ==
    ASSUME IInv, NEW p \in Protocols, NEW r \in Requests, SealPassword(p, r)
    PROVE  IInv'
  <1> DEFINE q == req[r]
  <1>1. /\ q.pc = "prepare" /\ q.proto = p
        /\ UNCHANGED <<mailAccounts, settings, drawnIds, kekFile, kekVersion>>
    BY DEF SealPassword, storeVars, environment
  <1>2. q \in PrepareRequest
    BY <1>1, RequestShape DEF IInv
  <1>3. SUFFICES ASSUME NEW wrapped, NEW version,
                        LET row == SealedRow(q, wrapped, version)
                        IN  /\ wrapped \in Blobs(KEKs, DEKs, Users \X Ids)
                            /\ version \in Versions
                            /\ wrapped.aad = envelopeAAD(q.user, q.id)
                            /\ HotSwap = FALSE => wrapped.key = KEKOf[version]
                            /\ HandToSave(r, row)
                            /\ issued[wrapped.plain] \in {Fresh, <<q.proto, q.id>>}
                            /\ issued' = [issued EXCEPT ![wrapped.plain] = <<q.proto, q.id>>]
                 PROVE  IInv'
    <2>1. CASE SealUnderOldDEK(r)
      <3>1. q.seen \in Rows /\ GoodRow(q.proto, q.user, q.id, q.seen)
        BY <1>1, <1>2, <2>1 DEF SealUnderOldDEK, PrepareRequest, IInv, InFlightGood
      <3>2. issued' = [issued EXCEPT ![q.seen.wrappedDEK.plain] = <<q.proto, q.id>>]
        BY <2>1, <3>1 DEF SealUnderOldDEK, GoodRow, IInv, TypeOK, Rows, Blobs
      <3> QED
        BY <1>3, <2>1, <3>1, <3>2 DEF SealUnderOldDEK, GoodRow, Rows
    <2>2. CASE SealUnderNewDEK(r)
      <3>1. PICK d \in DEKs :
              LET e == NewEnvelope(kekFile, kekVersion, d, envelopeAAD(q.user, q.id))
              IN  /\ issued[d] = Fresh
                  /\ HandToSave(r, SealedRow(q, e.wrappedDEK, e.kekVersion))
                  /\ issued' = [issued EXCEPT ![d] = <<q.proto, q.id>>]
        BY <2>2 DEF SealUnderNewDEK
      <3> DEFINE w == encryptAESGCM(kekFile, d, envelopeAAD(q.user, q.id))
      <3>2. kekFile \in KEKs /\ (HotSwap = FALSE => kekFile = KEKOf[kekVersion])
        BY <2>2 DEF SealUnderNewDEK, validateKey, IInv, TypeOK, KeyDeployed
      <3>3. w \in Blobs(KEKs, DEKs, Users \X Ids)
        BY <1>2, <3>2 DEF PrepareRequest, encryptAESGCM, Blobs, envelopeAAD
      <3>4. /\ w.key = kekFile /\ w.plain = d
            /\ w.aad = envelopeAAD(q.user, q.id)
        BY DEF encryptAESGCM
      <3>5. HandToSave(r, SealedRow(q, w, kekVersion))
        BY <3>1 DEF NewEnvelope
      <3>6. kekVersion \in Versions
        BY DEF IInv, TypeOK
      <3> QED
        BY <1>3, <3>1, <3>2, <3>3, <3>4, <3>5, <3>6
    <2> QED
      BY <2>1, <2>2 DEF SealPassword
  <1> DEFINE row == SealedRow(q, wrapped, version)
             s == [pc |-> "save", proto |-> q.proto, user |-> q.user,
                   id |-> q.id, typed |-> q.form.password, row |-> row]
  <1>4. row \in Rows /\ row.wrappedDEK = wrapped /\ row.kekVersion = version
    BY <1>2, <1>3 DEF SealedRow, Rows, Blobs, PrepareRequest, EncryptWithAAD,
                      encryptAESGCM, fieldAAD
  <1>5. /\ row.password.aad = fieldAAD(q.user, q.id, q.proto)
        /\ row.password.key = wrapped.plain
    BY DEF SealedRow, EncryptWithAAD, encryptAESGCM
  <1>6. s \in SaveRequest
    BY <1>2, <1>4 DEF SaveRequest, PrepareRequest
  <1> HIDE DEF row
  <1>7. req' = [req EXCEPT ![r] = s]
    BY <1>3 DEF HandToSave, row
  <1>8. wrapped.plain \in DEKs
    BY <1>3 DEF Blobs
  <1>9. \A d \in DEKs : issued[d] # Fresh => issued'[d] = issued[d]
    BY <1>3, <1>8 DEF IInv, TypeOK
  <1>10. \A t \in Protocols, u \in Users, id \in Ids, w \in Rows :
            GoodRow(t, u, id, w) =>
              /\ w.wrappedDEK.aad = envelopeAAD(u, id)
              /\ w.password.aad = fieldAAD(u, id, t)
              /\ w.password.key = w.wrappedDEK.plain
              /\ issued'[w.wrappedDEK.plain] = <<t, id>>
              /\ HotSwap = FALSE => w.wrappedDEK.key = KEKOf[w.kekVersion]
    <2> SUFFICES ASSUME NEW t \in Protocols, NEW u \in Users, NEW id \in Ids,
                        NEW w \in Rows, GoodRow(t, u, id, w)
                 PROVE  issued'[w.wrappedDEK.plain] = <<t, id>>
      BY ZenonT(30) DEF GoodRow
    <2>1. <<t, id>> \in Protocols \X Ids
      OBVIOUS
    <2>2. <<t, id>> # Fresh
      BY <2>1, ConstantsAssumption DEF ConstantsAssumption
    <2> QED
      BY <1>9, <2>2 DEF GoodRow, Rows, Blobs
  <1>11. TypeOK'
    BY <1>1, <1>2, <1>3, <1>6, <1>7, <1>8 DEF IInv, TypeOK, PrepareRequest
  <1>12. Drawn'
    BY <1>1, <1>7 DEF IInv, TypeOK, Drawn, Owns
  <1>13. StoredGood'
    <2> SUFFICES ASSUME NEW t \in Protocols, NEW id \in Ids, settings[t][id] # NoRow
                 PROVE  /\ mailAccounts[id] # NoAccount
                        /\ GoodRow(t, mailAccounts[id].user, id, settings[t][id])'
      BY <1>1 DEF StoredGood
    <2>1. /\ mailAccounts[id] # NoAccount
          /\ GoodRow(t, mailAccounts[id].user, id, settings[t][id])
      BY DEF IInv, StoredGood
    <2>2. settings[t][id] \in Rows /\ mailAccounts[id].user \in Users
      BY <2>1 DEF IInv, TypeOK, Accounts
    <2> QED
      BY <1>1, <1>10, <2>1, <2>2 DEF GoodRow
  <1>14. InFlightGood'
    <2> SUFFICES ASSUME NEW t \in Requests
                 PROVE  /\ req'[t].pc = "prepare" /\ req'[t].seen # NoRow =>
                              GoodRow(req[t].proto, req[t].user, req[t].id, req[t].seen)'
                        /\ req'[t].pc = "save" =>
                              GoodRow(req[t].proto, req[t].user, req[t].id, req[t].row)'
      BY DEF InFlightGood
    <2>1. CASE t = r
      <3>1. req'[t] = s
        BY <1>7, <2>1 DEF IInv, TypeOK
      <3>2. issued'[wrapped.plain] = <<q.proto, q.id>>
        BY <1>3, <1>8 DEF IInv, TypeOK
      <3> QED
        BY <1>3, <1>4, <1>5, <3>1, <3>2 DEF GoodRow
    <2>2. CASE t # r
      <3>1. req'[t] = req[t]
        BY <1>7, <2>2 DEF IInv, TypeOK
      <3>2. /\ req[t].pc = "prepare" /\ req[t].seen # NoRow =>
                  GoodRow(req[t].proto, req[t].user, req[t].id, req[t].seen)
            /\ req[t].pc = "save" =>
                  GoodRow(req[t].proto, req[t].user, req[t].id, req[t].row)
        BY DEF IInv, InFlightGood
      <3>3. /\ req[t].pc = "prepare" => req[t] \in PrepareRequest
            /\ req[t].pc = "save" => req[t] \in SaveRequest
        BY RequestShape DEF IInv
      <3>4. ASSUME req[t].pc = "prepare", req[t].seen # NoRow
            PROVE  GoodRow(req[t].proto, req[t].user, req[t].id, req[t].seen)'
        <4>1. /\ req[t].proto \in Protocols /\ req[t].user \in Users
              /\ req[t].id \in Ids /\ req[t].seen \in Rows
          BY <3>3, <3>4 DEF PrepareRequest
        <4>2. LET w == req[t].seen
              IN  /\ w.wrappedDEK.aad = envelopeAAD(req[t].user, req[t].id)
                  /\ w.password.aad = fieldAAD(req[t].user, req[t].id, req[t].proto)
                  /\ w.password.key = w.wrappedDEK.plain
                  /\ issued'[w.wrappedDEK.plain] = <<req[t].proto, req[t].id>>
                  /\ HotSwap = FALSE => w.wrappedDEK.key = KEKOf[w.kekVersion]
          BY <1>10, <3>2, <3>4, <4>1
        <4> QED
          BY <3>1, <4>2 DEF GoodRow, envelopeAAD, fieldAAD
      <3>5. ASSUME req[t].pc = "save"
            PROVE  GoodRow(req[t].proto, req[t].user, req[t].id, req[t].row)'
        <4>1. /\ req[t].proto \in Protocols /\ req[t].user \in Users
              /\ req[t].id \in Ids /\ req[t].row \in Rows
          BY <3>3, <3>5 DEF SaveRequest
        <4>2. LET w == req[t].row
              IN  /\ w.wrappedDEK.aad = envelopeAAD(req[t].user, req[t].id)
                  /\ w.password.aad = fieldAAD(req[t].user, req[t].id, req[t].proto)
                  /\ w.password.key = w.wrappedDEK.plain
                  /\ issued'[w.wrappedDEK.plain] = <<req[t].proto, req[t].id>>
                  /\ HotSwap = FALSE => w.wrappedDEK.key = KEKOf[w.kekVersion]
          BY <1>10, <3>2, <3>5, <4>1
        <4> QED
          BY <3>1, <4>2 DEF GoodRow, envelopeAAD, fieldAAD
      <3> QED
        BY <3>1, <3>4, <3>5
    <2> QED
      BY <2>1, <2>2
  <1>15. KeyDeployed' /\ UniqueEmail'
    BY <1>1 DEF IInv, KeyDeployed, UniqueEmail
  <1> QED
    BY <1>11, <1>12, <1>13, <1>14, <1>15 DEF IInv

(* A restart deploys a version with its key and loses the requests.        *)
LEMMA RestartStep ==
    ASSUME IInv, NEW v \in Versions, Restart(v)
    PROVE  IInv'
  <1>1. /\ kekVersion' = v /\ kekFile' = KEKOf[v]
        /\ req' = [r \in Requests |-> Idle]
        /\ UNCHANGED <<mailAccounts, settings, drawnIds, issued>>
    BY DEF Restart, storeVars
  <1>2. TypeOK'
    BY <1>1, ConstantsAssumption DEF ConstantsAssumption, IInv, TypeOK, IdleRequest, Idle
  <1>3. Drawn' /\ InFlightGood'
    BY <1>1 DEF IInv, Drawn, InFlightGood, Idle
  <1>4. StoredGood' /\ KeyDeployed' /\ UniqueEmail'
    BY <1>1 DEF IInv, StoredGood, GoodRow, KeyDeployed, UniqueEmail
  <1> QED
    BY <1>2, <1>3, <1>4 DEF IInv

(* Replacing the key file changes no row: without HotSwap it holds the     *)
(* deployed key or none.                                                   *)
LEMMA ReplaceKEKFileStep ==
    ASSUME IInv, NEW k \in KEKs \cup {NoKey}, ReplaceKEKFile(k)
    PROVE  IInv'
  <1>1. /\ kekFile' = k /\ (HotSwap \/ k \in {NoKey, KEKOf[kekVersion]})
        /\ UNCHANGED <<mailAccounts, settings, drawnIds, issued, kekVersion, req>>
    BY DEF ReplaceKEKFile, storeVars
  <1>2. TypeOK' /\ Drawn'
    BY <1>1 DEF IInv, TypeOK, Drawn, Owns
  <1>3. StoredGood' /\ UniqueEmail'
    BY <1>1 DEF IInv, StoredGood, GoodRow, UniqueEmail
  <1>4. InFlightGood'
    BY <1>1 DEF IInv, InFlightGood, GoodRow
  <1>5. KeyDeployed'
    BY <1>1 DEF KeyDeployed
  <1> QED
    BY <1>2, <1>3, <1>4, <1>5 DEF IInv

(* Every step of the pages and of their environment keeps the invariant.   *)
LEMMA StepIInv == IInv /\ [Next]_vars => IInv'
  <1> SUFFICES ASSUME IInv, [Next]_vars PROVE IInv'
    OBVIOUS
  <1>1. ASSUME NEW r \in Requests, handleCreateMailAccount(r) PROVE IInv'
    <2>1. ASSUME NEW u \in Users, NEW e \in Emails, CheckNewAddress(r, u, e)
          PROVE  IInv'
      <3>1. [pc |-> "insert", user |-> u, email |-> e] \in InsertRequest
        BY DEF InsertRequest
      <3> QED
        BY <2>1, <3>1, ClearRequests
           DEF CheckNewAddress, IInv, TypeOK, storeVars, environment
    <2> QED
      BY <1>1, <2>1, InsertStep DEF handleCreateMailAccount
  <1>2. ASSUME NEW r \in Requests, handleSaveIMAPAccount(r) PROVE IInv'
    <2>1. "imap" \in Protocols
      BY DEF Protocols
    <2>2. CASE CommitIMAP(r)
      BY <2>1, <2>2, CommitStep DEF CommitIMAP, SaveIMAP
    <2> QED
      BY <1>2, <2>1, <2>2, ReadStep, SealStep DEF handleSaveIMAPAccount
  <1>3. ASSUME NEW r \in Requests, handleSaveSMTPAccount(r) PROVE IInv'
    <2>1. "smtp" \in Protocols
      BY DEF Protocols
    <2>2. CASE CommitSMTP(r)
      BY <2>1, <2>2, CommitStep DEF CommitSMTP, SaveSMTP
    <2> QED
      BY <1>3, <2>1, <2>2, ReadStep, SealStep DEF handleSaveSMTPAccount
  <1>4. ASSUME NEW r \in Requests, ErrorReturn(r) PROVE IInv'
    <2>1. Idle \in IdleRequest /\ Idle.pc = "idle"
      BY DEF IdleRequest, Idle
    <2> QED
      BY <1>4, <2>1, ClearRequests DEF ErrorReturn, IInv, TypeOK, storeVars, environment
  <1>5. ASSUME NEW u \in Users, NEW id \in Ids,
               \/ handleDeleteMailAccount(u, id)
               \/ handleDeleteIMAPAccount(u, id)
               \/ handleDeleteSMTPAccount(u, id)
        PROVE  IInv'
    <2>1. CASE handleDeleteMailAccount(u, id)
      BY <2>1, DeleteStep
    <2>2. CASE handleDeleteIMAPAccount(u, id)
      BY <2>2, DeleteRowStep DEF handleDeleteIMAPAccount, DeleteIMAP, Protocols
    <2>3. CASE handleDeleteSMTPAccount(u, id)
      BY <2>3, DeleteRowStep DEF handleDeleteSMTPAccount, DeleteSMTP, Protocols
    <2> QED
      BY <1>5, <2>1, <2>2, <2>3
  <1>6. CASE UNCHANGED vars
    BY <1>6, ClearRequests DEF vars, IInv, TypeOK
  <1> QED
    BY <1>1, <1>2, <1>3, <1>4, <1>5, <1>6, RestartStep, ReplaceKEKFileStep DEF Next

(* The strengthened invariant.                                             *)
THEOREM Invariance == Spec => []IInv
  BY InitIInv, StepIInv, PTL DEF Spec

(* Type correctness.                                                       *)
THEOREM TypeCorrect == Spec => []TypeOK
  <1>1. IInv => TypeOK
    BY DEF IInv
  <1> QED
    BY <1>1, Invariance, PTL

(* What a user saved can always be read back with the KEK it was saved     *)
(* under.                                                                  *)
THEOREM StoredPasswordsOpen == Spec => []EnvelopeIntact
  <1>1. IInv => EnvelopeIntact
    <2> SUFFICES ASSUME IInv, NEW p \in Protocols, NEW id \in Ids, settings[p][id] # NoRow
                 PROVE  \E kek \in KEKs :
                           decryptPassword(p, kek, mailAccounts[id].user, id, settings[p][id])
      BY DEF EnvelopeIntact
    <2> DEFINE row == settings[p][id]
    <2>1. row \in Rows /\ GoodRow(p, mailAccounts[id].user, id, row)
      BY DEF IInv, TypeOK, StoredGood
    <2>2. /\ row.wrappedDEK.key \in KEKs /\ row.wrappedDEK.key # NoKey
          /\ row.wrappedDEK.plain # NoKey
      BY <2>1, ConstantsAssumption DEF ConstantsAssumption, Rows, Blobs
    <2>3. decryptPassword(p, row.wrappedDEK.key, mailAccounts[id].user, id, row)
      BY <2>1, <2>2 DEF decryptPassword, OpenEnvelope, DecryptWithAAD, decryptAESGCM,
                        validateKey, GoodRow
    <2> QED
      BY <2>2, <2>3
  <1> QED
    BY <1>1, Invariance, PTL

(* No two settings records share a data key.                               *)
THEOREM DataKeysNotShared == Spec => []OwnDEK
  <1>1. IInv => OwnDEK
    BY DEF IInv, StoredGood, GoodRow, OwnDEK
  <1> QED
    BY <1>1, Invariance, PTL

(* One registration of an address per user, whatever the interleaving.     *)
THEOREM AddressesUnique == Spec => []UniqueEmail
  <1>1. IInv => UniqueEmail
    BY DEF IInv
  <1> QED
    BY <1>1, Invariance, PTL

(* Deleting an account leaves no settings, and none come back.             *)
THEOREM SettingsHaveAccounts == Spec => []NoOrphanSettings
  <1>1. IInv => NoOrphanSettings
    BY DEF IInv, StoredGood, NoOrphanSettings
  <1> QED
    BY <1>1, Invariance, PTL

(* Settings of the loaded version open under the deployed key.             *)
THEOREM LabelsAreRight == Spec => []ReadableAtItsVersion
  <1>1. IInv => ReadableAtItsVersion
    <2> SUFFICES ASSUME IInv, HotSwap = FALSE, NEW p \in Protocols, NEW id \in Ids,
                        settings[p][id] # NoRow, settings[p][id].kekVersion = kekVersion,
                        validateKey(kekFile)
                 PROVE  decryptPassword(p, kekFile, mailAccounts[id].user, id, settings[p][id])
      BY DEF ReadableAtItsVersion
    <2> DEFINE row == settings[p][id]
    <2>1. row \in Rows /\ GoodRow(p, mailAccounts[id].user, id, row)
      BY DEF IInv, TypeOK, StoredGood
    <2>2. kekFile = row.wrappedDEK.key
      BY <2>1 DEF IInv, KeyDeployed, GoodRow, validateKey
    <2>3. row.wrappedDEK.plain # NoKey
      BY <2>1, ConstantsAssumption DEF ConstantsAssumption, Rows, Blobs
    <2> QED
      BY <2>1, <2>2, <2>3 DEF decryptPassword, OpenEnvelope, DecryptWithAAD,
                              decryptAESGCM, validateKey, GoodRow
  <1> QED
    BY <1>1, Invariance, PTL
=============================================================================
