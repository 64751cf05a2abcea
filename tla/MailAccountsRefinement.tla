----------------------- MODULE MailAccountsRefinement -----------------------
(***************************************************************************)
(* MailAccounts implements AccountBook.  Decrypting every row, stored or   *)
(* in flight, yields the book; a row that did not decrypt would map to     *)
(* Corrupt, which no password of the book is.                              *)
(***************************************************************************)
EXTENDS MailAccounts

CONSTANTS None, Corrupt

RefinementAssumption ==
    /\ Corrupt \notin Passwords
    /\ None \notin Accounts
    /\ None \notin [config : Configs, password : Passwords \cup {Corrupt}]
ASSUME RefinementAssumption

PlainPassword(p, u, id, row) ==
    IF \E kek \in KEKs : decryptPassword(p, kek, u, id, row)
    THEN row.password.plain ELSE Corrupt

PlainRow(p, u, id, row) ==
    IF row = NoRow THEN None
    ELSE [config |-> row.config, password |-> PlainPassword(p, u, id, row)]

PendingChange(q) ==
    CASE q.pc = "idle" -> None
      [] q.pc = "insert" -> [user |-> q.user, email |-> q.email]
      [] q.pc = "prepare" ->
            [proto |-> q.proto, user |-> q.user, id |-> q.id, entry |-> q.form]
      [] q.pc = "save" ->
            [proto |-> q.proto, user |-> q.user, id |-> q.id,
             entry |-> PlainRow(q.proto, q.user, q.id, q.row)]

bookAccounts ==
    [id \in Ids |-> IF mailAccounts[id] = NoAccount THEN None ELSE mailAccounts[id]]

\* Settings without an account would have no owner to decrypt them.
bookCredentials ==
    [p \in Protocols |-> [id \in Ids |->
        PlainRow(p, IF mailAccounts[id] = NoAccount THEN None ELSE mailAccounts[id].user,
                 id, settings[p][id])]]

bookPending == [r \in Requests |-> PendingChange(req[r])]

Book == INSTANCE AccountBook WITH
    accounts <- bookAccounts, credentials <- bookCredentials, pending <- bookPending

(* The pages implement the account book: encryption, the handlers that     *)
(* take several steps and every change of keys are invisible in it.        *)
ImplementsBook == Book!Spec
=============================================================================
