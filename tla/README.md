# Shiroyagi in TLA+

Models, model-checking configurations and machine-checked proofs of
[Shiroyagi](../src/README.md), a webmail server in Go. Paths below are relative
to `src/`. `PROJECT.json` maps every definition of a module to the lines it
stands for, lists each run with its properties, the hazards of the code and the
findings.

## 1. The system

One Go process serves HTML pages. Users sign in at an OpenID Connect provider
(Keycloak), register mail accounts with IMAP and SMTP settings, read mail over
IMAP and send it over SMTP. PostgreSQL keeps the accounts; mail passwords in it
are encrypted under keys wrapped with a key read from a file. `net/http` runs
every request on a goroutine of its own, and no handler takes a lock: every
interaction below is between concurrent handlers, or between one of them and a server.

| Component | State | Operations | Interacts with |
|---|---|---|---|
| Mail account store (`internal/mailaccount`) | tables `mail_accounts`, `imap_accounts`, `smtp_accounts` | `Get`, `ExistsByUserAndEmail`, `Insert`, `SaveIMAP`, `SaveSMTP`, `Delete`, `DeleteIMAP`, `DeleteSMTP` | PostgreSQL: constraints, cascades, row locks |
| Mail account pages (`internal/http/mail_account.go`, `imap_account.go`, `smtp_account.go`) | what a handler holds between reading and saving | create, delete, save and delete of the settings of each protocol | the store, the envelope encryption, the key file |
| Envelope encryption (`internal/crypto`) | none (keys live in a file and in wrapped form in rows) | new / open envelope, encrypt / decrypt with AAD | the pages, the mail clients |
| Compose and send (`internal/http/smtp_send.go`, `smtp_reply.go`, `smtp_forward.go`) | the form in the browser, the handler's snapshot of account and original | forms for new, reply, forward; `handleSendMessage` with its side effect | the store, both mail clients, other tabs and mail programs |
| IMAP client (`internal/imap`) | one connection per operation | list mailboxes and messages, `GetMessage`, `MarkAnswered`, `MarkForwarded` | the account's IMAP server |
| SMTP client (`internal/smtp`) | one connection per message | `Send` | the account's SMTP server |
| Sessions (`internal/auth/session.go`, `internal/http/auth.go`, `session.go`) | maps `sessions` and `reauthAfter`, browser cookies | login, callback, logout | the OIDC client, the provider's single sign-on (SSO) sessions |
| OIDC client (`internal/auth/client.go`) | provider metadata | discovery with retries, `AuthCodeURL`, `ExchangeCode` | the provider |
| Startup (`internal/db`, `cmd/shiroyagi`) | table of applied migrations | wait for the database, migrate, discover, serve | PostgreSQL, provider, other processes |
| Reply and forward helpers (`smtp_reply.go`, `smtp_forward.go`) | none | recipients, subjects, references, quoted text | Compose |
| Mailbox and message pages (`mailbox.go`) | none | list a mailbox, show a message | the store and the IMAP client |
| Configuration, routes, version | none | read once at startup, or constant | everything |

### What is hard, and what must hold

**Accounts.** A save reads the account, reads the key file, encrypts, and writes
in a later transaction; between the steps the account or its settings may be
deleted or replaced, the key file exchanged, the server restarted. What must
hold: an address is registered once per user; settings never outlive their
account; a stored row always decrypts for its owner (ciphertext, wrapped DEK,
both AADs and the protocol belong together); no two settings share a DEK; the
version label names the key; all of this amounts to an account book in which
encryption and intermediate steps are invisible.

**Compose.** The form names its original by server UID only; the handler reads
the account once, loads the original again, sends, and flags over another
connection. Meanwhile the account may be edited, the mailbox changed by other
clients or renumbered, the form submitted again, the server stopped. What must
hold: keywords only go to messages that were really answered or forwarded; the
page after a send tells the truth; threading headers belong to the message that
was quoted; a message that was sent ends flagged or with a warning.

**Mail clients.** A dialogue can be refused or broken at any command, and what
was done before cannot be taken back: a recipient that was named, data that was
taken, a flag that was set. One connection serves one call and is closed by two
deferred calls whose order matters; go-imap hands messages over through a
bounded channel filled by another goroutine. What must hold: all recipients or
none; the list shows the newest messages; a handler ends; no connection stays
open; no password goes out in clear; nothing is deleted.

**Startup.** Several processes, of different binaries, may start on one database
at the same time, end anywhere, and find the database or the provider down.
What must hold: a migration is applied once, in order, and recorded exactly when
it is applied; a process serves only when it is ready; in the end it serves.

**Sessions.** The store's methods lock separately, so a callback checks, clears
and stores in three steps and a logout reads, records and deletes in three.
Cookies expire on their own clocks; the provider keeps SSO sessions the
application does not see. What must hold: the callback after a logout needs an
authentication since then; a browser that keeps trying gets in, whatever a
restart took from the store and whatever cookie it still has.

## 2. Modules and the code

| Module | Models | Composition |
|---|---|---|
| `Envelope` | `internal/crypto/envelope.go` | operators only |
| `MailAccountStore` | the store's writing operations over the schema | state machine pieces |
| `MailAccounts` | the pages' handlers over both | EXTENDS the two above |
| `AccountBook` | what the pages promise (abstract) | stands alone |
| `MailAccountsRefinement` | the refinement mapping from `MailAccounts` to `AccountBook` | INSTANCE ... WITH |
| `MailAccountsProofs`, `MailAccountsBookProof` | theorems | EXTEND the refinement and TLAPS |
| `MailServer` | IMAP servers as `internal/imap` sees them (external), the effect of `GetMessage` and `markMessageFlag` | state machine pieces |
| `Compose` | forms and `handleSendMessage`, each mail client call in one or two steps | EXTENDS `MailServer` |
| `Replies` | recipients of answers, formatting and parsing of address lists | operators only |
| `ImapClient` | `internal/imap` command by command | EXTENDS `MailServer` |
| `SmtpClient` | `internal/smtp` command by command | EXTENDS `Replies` |
| `MailClients` | the pages and handlers of one tab over both clients | EXTENDS the two above |
| `MailClientsRefinement` | the mapping from `MailClients` to `Compose` | INSTANCE ... WITH |
| `MailFacts` | lemmas about the operators of `Replies` and `ImapClient` | EXTENDS both and TLAPS |
| `MailClientsRefinementProof` | that the mapping is a refinement | EXTENDS `MailClientsProofs` and the mapping |
| `Sessions` | login, callback, logout, session store, cookies, provider | stands alone |
| `Startup` | `main` up to `ListenAndServe`, migrations, discovery | stands alone |
| `ComposeProofs`, `SessionsProofs`, `MailClientsProofs`, `StartupProofs` | theorems | EXTEND the module and TLAPS (`MailClientsProofs` through `MailFacts`) |
| `MCMailAccounts`, `MCCompose`, `MCMailClients`, `MCSessions`, `MCStartup` | instances for TLC | |

**MailAccounts.** `mailAccounts` and `settings` are the tables, `kekFile` and
`kekVersion` the two pieces of key configuration (the file is read at every use,
the version once by `config.Load`), and `req[r]` what a handler holds before its
next step. A create is `CheckNewAddress` then `insertMailAccount`; a save is
`ReadForSave` (`store.Get` and, for an empty password field, the row to write
back), `SealPassword` (key file, envelope, encryption; only when a password was
typed) and `CommitIMAP` / `CommitSMTP` (the transaction). Store transactions are
single actions because each first writes the parent row and so holds its lock,
and a deferred `Rollback` leaves nothing of a failed one. `ErrorReturn` is every
error return of every handler: in each the request ends and nothing changes.
Deleting handlers touch the database once and keep nothing between, so they need
no slot in `req`. `issued` is history: which settings a DEK was drawn for.

**Envelope.** AES-256-GCM is abstracted to exact matching: a blob opens under
the key and AAD it was sealed with and nothing else. Lengths matter only as
"a key or no key" (`NoKey`). The joined AAD strings are tuples because an
account id is a UUID without ":".

**Compose.** `tab[t]` is what a browser tab shows or the step its handler is
about to take: `opening`, `form`, `load`, `send`, `flag`, and the pages `sent`,
`warned`, `failed`, `lost` (no answer: the server stopped). `server` in it is
the snapshot of the account the handler works with, `original` the message it
loaded. Fields `about` and `from` of a form are history (what the form quotes
and where it was read); the program does not post them. `accepted` is history
too: which message the SMTP server took an answer to. A send is `Accept` (the server
takes the message) and then `Sent` or `SentWithError` (a lost answer, or a
failed QUIT), or `NotSent` before it; a flag is `StoreFlag` and then `Marked`
or, before or after it, `MarkFails`. A restart falls between any two. Reply-all
is `reply` here: they differ only in the proposed recipients.

**ImapClient.** `imap` is the one call under way: the command it waits for
(`at`), what the server holds of the connection (`conn`), the FETCH responses
still to come, those in the channel and those received (`todo`, `chan`, `out`),
what `client.Fetch` sent to `done`, the result and the deferred calls left to
run. `fetchMessages` and `uidFetchMessages` are `Fetch`, `Receive` and
`Fetched`; go-imap's goroutine is `Deliver`, `DeliverUnasked` (a response nobody
asked for) and `FetchReturns`. go-imap (external) has its documented behaviour:
`Fetch` closes the channel when it returns, `Close` is the CLOSE command, which
go-imap refuses outside a selected mailbox, and LOGOUT ends the connection.
`leftOpen` and `imapClear` are history.

**SmtpClient.** `smtp` is the Send under way: the command it waits for, TLS or
not, the recipients the server has accepted (`named`), and whether it took the
message. Every error return is `SmtpFails`: the deferred `Close` drops the
connection and the server what was begun on it. `delivered` and `smtpClear` are
history.

**Replies.** An address is its lower-case form, the way it is written and a
display name; what net/mail cannot parse is `Garbled`. The folds are those of
the loops in `smtp_reply.go`.

**MailClients.** `page` is what the tab shows or the call its handler waits for.
An account is there throughout (what happens otherwise is in `Compose`), with
one of several settings (`Scenarios`): the security modes, allowed or not, local
or not.

**Startup.** `proc[p].at` is the call of `main` a process is about to make, `m`
the migration it is at, `ticks` the retries used of the current deadline. One
transaction of `applyMigration` is `Check`, `Apply`, `Record`, `Commit`:
`Apply` and `Record` only add to what the open transaction holds (`HaveApplied`,
`HaveInserted`), and `Commit` makes it visible. PostgreSQL (external) lets an
INSERT of a key wait for another transaction's, and fail after its commit, and
does not make CREATE TABLE IF NOT EXISTS atomic.

**Sessions.** `sessions` and `reauthAfter` are the two maps, `jar` the cookies,
`sso` the provider's sessions. The state and nonce cookies are one value
(`login`): one response always sets both and one deletes both. Every access to
the store is its own action. The provider's answer (`Redirect`) carries
`auth_time` or not: OpenID Connect makes it a must only when the request had
max_age. Without it `session.AuthTime` is 0 (`AuthTime`), which `FreshEnough`
refuses while a requirement stands; the claims keep the time of the
authentication all the same, as history that `NextSignInIsFresh` compares.
`SignedIn` is `currentSession`: after a restart a browser has a cookie the store
does not know. Of a stored session only the subject is kept, because nothing
reads its times. A session that no cookie names can never be used again; its
slot then stands for the next random id. `owed`, `raced` and `leftAt` are
history. A subject is in `raced` from one of two interleavings, recorded by
`Races`, to the next restart: a logout is recorded while a callback of the
subject is past its check (`Passed`), or after a logout that read a later clock.

## 3. Runs

| Run | Instance | Shows |
|---|---|---|
| `accounts_core` | 2 users, 2 ids, 1 address, 2 requests, 3 DEKs, key file replaced at will | type correctness; every row opens (`EnvelopeIntact`); DEKs unshared (`OwnDEK`); addresses unique; no orphan settings |
| `accounts_rotation` | 1 account, 2 requests, 2 passwords, 2 versions with a key each | version labels right (`ReadableAtItsVersion`); the pages implement `AccountBook` (`ImplementsBook`) |
| `accounts_empty_field` | violation | a save with an empty password field brings back an older password |
| `accounts_new_secret` | violation | a new password for existing settings is not saved under the configured version |
| `compose_moving` | 1 tab, 2 servers, 2 messages, 2 UIDs, 2 submits | flags and headers concern the right message; the page tells the truth also when the account is edited between submit and flag (`SentPageHolds`) |
| `compose_tabs` | 2 tabs, 1 message, 3 submits | the page tells the truth; a sent answer settles (liveness) |
| `mail_clients` | 1 tab, 2 messages, 2 UIDs, channel of 1, 4 combinations of security settings, one look then one submit | dialogues refused or broken at any command implement `Compose` (`ImplementsCompose`); recipients all or none, and the right ones; the list is the newest; nothing deleted; connections, passwords; handlers end (liveness) |
| `startup` | 3 processes of 2 binaries, 2 migrations (one repeatable), 1 retry, 1 outage, 1 crash | migrations once, in order, with their record; no serving before all is ready; all serve in the end (liveness) |
| `compose_error_page` | violation; 1 message, a reply | a reply that was taken is reported as not sent and its original is not flagged |
| `sessions_signin` | 1 browser, 2 sign-ins, 2 ids, 2 times, tokens with and without `auth_time`; SSO sessions end | a callback after a logout is fresh unless raced; signing in succeeds or a token without `auth_time` is refused (liveness) |
| `sessions_locked_out` | violation; SSO sessions last | once `force_login` has expired every sign-in answers 401 |
| `sessions_two_browsers` | violation; 2 browsers | the demand one browser's logout made is used up by another's sign-in |

**Bounds, and why they are enough.**
`Requests` has two slots because the hazards of the pages are races between two
handlers on one account; a third adds no new kind of step, and the proofs cover
every number. Deletes are not in a slot, so three requests do meet. Two users
and two ids let one user's request meet the other's account and let an address
be registered again under a new id after a delete; ids are never reused
(`drawnIds`), so two are also the number of accounts ever created. Three DEKs
allow a second first save of a pair of settings. In `compose_moving` two UIDs
and two messages make it possible that a UID names another message (after a move
or a renumbering; each server is renumbered at most once), `MaxSubmits` 2 allows
a retry; `compose_tabs` has a third submit so that a retry of one tab meets
the other tab's. Only one message has a Message-ID (`Identified`), so both
branches of `Threadable` occur. In `Sessions` times are counted in units longer
than the 300 seconds of the cookies: what matters is only whether a logout and
an authentication fall in the same unit or not, and two values give both.
In `mail_clients` two messages make a mailbox of 0, 1 and 2, which is limit - 1,
limit and limit + 1 for limits 1 and 2; a channel of one (128 and 16 in the
code) is full after one message, so the reader blocks with two; `MaxLooks` and
`MaxSubmits` 1 make a session of one page or form and one submit, after which
the client state is back where it began; several submits and tabs meet in
`Compose`, which this run shows to be implemented. In `startup` one retry
(60 for the database and 120 for discovery in the code) reaches the deadline as
well as a success before it, three processes let two of one binary race and one
of an older binary go before or after them, and the one crash and the one outage
can fall at every step; the proofs of safety hold for any number of each.

**Symmetry** is used only where no liveness property is checked (a refinement
without fairness is a safety property), over sets whose members the
configuration does not name.

**Deadlock** is checked in every run but `startup`: in each of these models some
environment or user step is always possible, so it only shows that the models do
not get stuck. In `startup` nothing more happens once every process serves and
the bounded outages are over.

**Fairness.** `Compose`: a handler that has begun takes its next step
(`WF_vars(handleSendMessage(t))`). `net/http` runs a handler to its end, but the
mail clients set no deadline once connected, so this assumes mail servers that
answer or drop the connection. Users, other clients and restarts have no
fairness. `MailClients`: the handler, its goroutine and the servers take a step
as long as one is possible (`WF_vars(Handler)`), the same assumption one level
down. `Startup`: `main` runs on, ended processes are started again, and what is
down or misconfigured is repaired; `main(p)` is disabled while PostgreSQL makes
it wait for another process's transaction, which is the only wait without a
deadline. `Sessions`: handlers finish (one weak fairness condition for each),
and from some moment on there are only `CalmStep`s (`<>[][CalmStep]_vars`):
the user finishes a sign-in before starting another, does not sign out again or
lose cookies, and the server stays up. Without it `SignInSucceeds` would fail for
a user who always closes the tab. `SsoEnds` says whether the provider's SSO
sessions end one day; it is the assumption that separates `sessions_signin`
from `sessions_locked_out`.

Every property of a passing run has a mutant: a change of one definition as a
slip in the code would make (a column missing from an upsert, a copied AAD
field, a missing cascade, a swapped comparison ...) under which TLC finds the
property violated.

### What the passing runs do not promise

- `FlagsTellWhatWasSent`, `SentPageHolds` and `RepliesToWhatItQuotes` hold for
  mailboxes whose UIDVALIDITY did not change and, the last, for an account that
  was not moved between form and submit. The code compares neither; the
  conditions are in the properties because without them they are false.
- `AnswersReachEveryone` speaks of originals whose headers parse. `formatAddress`
  writes display names without quotes (`internal/imap/client.go:382`): one with
  a comma spoils the whole header, which a reply to all then leaves out.
- `ListIsNewest` speaks of rows that stand for a message and skips the others: a
  flag changed by another client during the FETCH is listed as one more row with
  UID 0.
- `OnlyRefusedLoginsLinger` allows what the code does after a refused login: the
  connection stays open until the server ends it.
- `EventuallyServes` needs somebody to start a process again: the loser of a race
  for a migration or for the table of versions ends with an error
  (`compose.yaml` has no restart policy).
- `NextSignInIsFresh` leaves out exactly the two interleavings of `raced`, because
  it is false there: a logout recorded between `ReauthAfterTime` and
  `ClearReauthAfter`, or before `Put`, does not concern that callback any more, and
  of two concurrent logouts the older time may be stored last. It compares with "at or after", as
  `docs/oidc.md:63` does, so an authentication earlier in the second of the logout
  counts as fresh. What is recorded is lost at a restart, and owed no more.
- `SignInSucceeds` has one exception, `RefusesUntimed`. With a provider that sends
  `auth_time` only when it was asked with max_age, a user whose `force_login`
  cookie has expired is answered 401 at every sign-in (until a restart, or another
  request to `/auth/logout`, which sets the cookie again), also after the SSO
  session has ended and with credentials typed: `auth.go:70` refuses a
  token without `auth_time` while a requirement stands, and nothing makes the next
  `/auth/login` ask for one. This is a second way to be locked out beside finding
  4. The exception does not end the promise: after a refusal the browser is still
  not signed in, so either another refusal follows or it gets in.
- `ReadableAtItsVersion` is checked and proved for key files that change only with
  the version and a restart (`HotSwap = FALSE`).

## 4. Findings

1. *A save with the password field empty may undo a password change.*
   `imap_account.go:127` and `smtp_account.go:129` write back the ciphertext,
   wrapped DEK and version that `Get` returned before the transaction; a save
   committed in between is reverted (run `accounts_empty_field`).
2. *`MAIL_ACCOUNT_KEK_VERSION` does not select the version for all newly saved
   secrets* (`README.md:55`): settings that exist keep their old envelope, and
   with a new key the save is refused (run `accounts_new_secret`).
3. *"Could not send reply" for a reply that was sent, and no `\Answered`*: an
   error of QUIT, or a lost answer to the data, is returned as a failure of `Send`
   (`internal/smtp/client.go:101-106`), and the handler returns before it flags
   the original (`smtp_send.go:114-118`). `docs/imap.md:15` says that "`\Answered`
   is added to the original message after a successful reply", and `README.md:155`
   that after a reply is sent "Shiroyagi attempts to add" it (run
   `compose_error_page`).
4. *Locked out after five minutes*: the re-authentication requirement outlives
   the cookie that makes the provider meet it (`auth.go:97`, against
   `docs/oidc.md:53-55`, run `sessions_locked_out`).
5. *One requirement per subject, deleted by any callback that meets it*: a
   browser that signed out can be signed in by its SSO session alone after a
   sign-in elsewhere (`auth.go:74`, run `sessions_two_browsers`).

## 5. Proofs

TLAPS checks these for every value of the constants:

| Module | Theorem | States |
|---|---|---|
| `MailAccountsProofs` | `TypeCorrect` | `Spec => []TypeOK` |
| | `StoredPasswordsOpen` | `Spec => []EnvelopeIntact` |
| | `DataKeysNotShared` | `Spec => []OwnDEK` |
| | `AddressesUnique` | `Spec => []UniqueEmail` |
| | `SettingsHaveAccounts` | `Spec => []NoOrphanSettings` |
| | `LabelsAreRight` | `Spec => []ReadableAtItsVersion` |
| `MailAccountsBookProof` | `PagesImplementBook` | `Spec => ImplementsBook` |
| `ComposeProofs` | `TypeCorrect` | `SafetySpec => []TypeOK` |
| | `FlagsAreTrue` | `SafetySpec => []FlagsTellWhatWasSent` |
| | `SentPagesAreTrue` | `SafetySpec => []SentPageHolds` |
| | `AnswersAreOfOneMessage` | `SafetySpec => []RepliesToWhatItQuotes` |
| `MailClientsProofs` | `TypeCorrect` | `Spec => []TypeOK` |
| | `EveryRecipient` | `Spec => []AllRecipientsOrNone` |
| | `AnswersReach` | `Spec => []AnswersReachEveryone` |
| | `ListNewest` | `Spec => []ListIsNewest` |
| | `ConnectionsEnd` | `Spec => []OnlyRefusedLoginsLinger` |
| | `PasswordsProtected` | `Spec => []NoPasswordInClear` |
| | `MessagesStay` | `Spec => NothingExpunged` |
| `MailClientsRefinementProof` | `ClientsImplementCompose` | `Spec => ImplementsCompose` |
| `SessionsProofs` | `TypeCorrect` | `Spec => []TypeOK` |
| | `NextSignInAfterLogout` | `Spec => []NextSignInIsFresh` |
| `StartupProofs` | `TypeCorrect` | `Spec => []TypeOK` |
| | `MigrationsAppliedOnce` | `Spec => []AppliedOnce` |
| | `RecordMatchesContent` | `Spec => []RecordedIffApplied` |
| | `ReadyBeforeServing` | `Spec => []ServesWhenReady` |
| | `OrderOfMigrations` | `Spec => AppliedInOrder` |

**Assumptions**: the named ASSUMEs of the modules. They say that marker values
differ from data, that no key is `NoKey`, that `KEKOf` gives every version a
key, that migrations are positive numbers, that `Garbled` is no list of
addresses, that a list page has a positive limit, that what users type and
what headers hold are lists of addresses (`MailClientsAssumption`), that
`Identified` is a set of messages, and that bounds are natural numbers. None bounds a set; TLC evaluates each in the runs
of its module.

**Accounts.** The invariants speak of stored rows and are not inductive: what a
save stores is what it sealed steps earlier. `IInv` therefore says of the row
each request carries what it says of the stored ones (`InFlightGood`,
`StoredGood`): its two AADs name its owner, account and protocol, the ciphertext
is under its own DEK, and that DEK was drawn for exactly these settings
(`issued`). That a request may commit a row it built from an older snapshot
needs `Drawn`: ids are never drawn twice, so an account a request has seen is
either still its user's or gone for good. `KeyDeployed` (the key file is the
deployed key or unreadable) carries `LabelsAreRight`; it and the label part of
`GoodRow` only hold with `HotSwap = FALSE`. `StepIInv` has one lemma per action.

For the refinement, the mapping decrypts every row, stored or in flight;
`GoodRowDecrypts` shows that under `IInv` it never meets `Corrupt`. One lemma
per action then shows which step of the book it is: reading is `RequestSave`,
the transaction is `Save`, sealing is a stutter, every error and every restart
is `GiveUp`.

**Compose.** What a handler loaded need not be in the mailbox any more when it
sets the flag. The invariant is that a UID, once seen, stays that of one message
(`Known`): it was handed out, and whatever has it now is that message, unless
the mailbox was renumbered. `Numbered` says so of every placed message,
`TabGood` of the message each form quotes and each handler loaded, and with it
that a handler past `Accept` finds its answer in `accepted`. Other clients
preserve `Known` because arrivals take fresh UIDs; `NotFlaggedBeforeArrival`
keeps an arriving message from bringing flags along. The theorems are about
`SafetySpec`, which `Spec` implies.

**Mail clients.** Four invariants, each proved from the ones before.

`IInv` is about connections. `CallGood` says which deferred calls a call still
has at each step and what the connection then is: from a successful login on
both are registered, and past LOGOUT the connection is closed. So a return
leaves nothing open unless the login failed, and CLOSE is only called on a
connection that is closed, where nothing can be expunged; swapping the two
breaks the proof as it breaks the run.

`PInv` is about pages: which call a page waits for (`CallOf`), that UIDs stay
unique (`Numbered`), that a FETCH by UID has at most one message on its way
(`AtMostOne`), and whom the SMTP server knows of a message (`SendGood`). The
last is what `AllRecipientsOrNone` needs: before DATA the accepted recipients
are a beginning of To and Cc, and DATA is sent only when they are all of it. A
delivered message keeps the form it was sent from (`DeliveredGood`), and an
answer's form has the recipients proposed for it (`IsAnswer`); what those are
is `AnswersReachEveryone`.

`LInv` is about lists: the rows received, those in the channel and those still
to come, read in that order, are the newest part of the mailbox as selected,
oldest first (`InOrder`), whatever other clients do meanwhile. Two facts carry
it: messages of a selected mailbox stay or are expunged but never change places
(`CountedStays`), and `ListMessages` reverses at the end what came in order.

`RInv` is what the refinement needs: a call is about the UID and the flag of
its page, and knows whether its STORE was done; a `Send` knows whether the
server took its message.

`MailFacts` has what these proofs say of operators: the folds of
`replyAllRecipients` yield everyone once (`ReplyAllReaches`), for lists of any
length and any way of writing an address; `Ascending` sorts a finite set; the
window of the newest is what it should be (`AskedForList`). The induction
theorems of the library are out of reach, so an induction over the length of a
list takes the least number for which a fact fails (`LeastNumber`,
`AllNumbers`), and the functions that a fold defines are shown to exist that way
(`RoundsExist`).

For the refinement there is one lemma for each kind of page and of call. A load
is the moment the server has read a message for FETCH, and then
`Fetching` (to come, in the channel, received) keeps it whatever the reader and
the goroutine do (`FetchingStays`); a send is the moment the data is taken, a
flag the moment of the STORE. Before that moment a failure is the one that
Compose has before its step, after it the one it has after it; all other
commands are stutters, and a return shows the page that Compose shows
(`OriginalLoaded`, `SendOver`, `FlagOver`). `ComposeAssumed` shows that what
`Compose` assumes of its constants holds of what is substituted for them.

**Sessions.** `Settled` says of a subject outside `raced` that the requirement in
the store is what its logouts demand (`owed`), and that every callback past its
check has met it. A callback gets past the check only with a time that meets the
requirement, clearing takes both away together, and a logout that is recorded
finds no callback past its check and no later time, or the subject becomes
`raced`. The clock, the cookies and the provider do not occur in it.

**Startup.** `ProcGood` says what a process has behind it at each step: all
smaller migrations of its binary recorded, a skipped one recorded, all of them
before discovery. `OneInserts` (two open transactions never hold the same row,
which is what the primary key is for) makes `AppliedAsRecorded` inductive, and
that is at once `AppliedOnce` and `RecordedIffApplied`.

**What the proofs changed.** `Fetched` and `SendReturned` had CASE arms that
overlapped (TLC takes the first, the logic any), and a leaf failed for each;
their alternatives are disjoint now. `MailClients` did not say that a limit is
positive or that typed and parsed lists are lists of addresses; the proofs asked
for it, and the code has it (`mailboxMessageLimit`, `mail.ParseAddressList`).

**Only model-checked**: the liveness properties `SentReplySettles`,
`HandlerReturns`, `EventuallyServes` and `SignInSucceeds` (fairness and
`ENABLED` are beyond the installed provers). Every invariant and every action
property of a passing run is proved, and so are both refinements. That
`Compose`'s theorems hold of the mapped state follows from
`ClientsImplementCompose` and `ComposeAssumed` by substitution, but tlapm cannot cite a
theorem of an instantiated module, so this last step is not itself checked. No
module declares a RECURSIVE operator.

## 6. Not modelled, and why

- `Store.Update` (nothing calls it), `ListSummaries` and the pages that list and
  edit accounts: no state changes.
- MIME extraction and header parsing in `internal/imap`
  (`extractTextBody` and below): pure functions over bytes. `Fetched` has their
  one effect on control, that a body may not parse.
- Subjects, quoted bodies and References of answers, and `buildMessage`: string
  formatting without effect on control. That a reply needs a Message-ID is
  modelled (`Threadable`).
- The checks for an empty SMTP user name or password: saved settings have both.
- How a host is found to be local: `internal/imap` and net/smtp decide it
  differently for upper case and for other loopback addresses; `local` is the
  answer of the client that asks.
- The formats of single configuration variables: `Load` is complete or not.
- Routes, rendering, the version string, containers and fixtures: no behaviour
  that a state machine would show.
- Nonces, the format byte and bit-level forms of ciphertexts: never different
  between blobs that the program wrote.
- Keywords set by other mail programs: `flags` has only those this program sets.
- Sessions whose cookie is gone stay in the map until a restart: nothing bounds
  it, and nothing depends on them.
- The dial timeouts of ten seconds: a call that runs into one fails, as any may.

## 7. Order of the work

Accounts with store, encryption, account book, refinement and their proofs;
compose and send; sessions; the two mail clients and that they implement
compose; startup; the proofs for compose, sessions, startup and mail clients;
facts about lists and recipients, and the proof that the mail clients implement
compose.

What could follow, in this order: `FlagsTellWhatWasSent` and `SentPageHolds` stated
and proved of `MailClients` itself, which closes the gap named above; a second
tab and account edits in `MailClients`, so that the composition with `Compose`
covers them without the refinement; References and subject prefixes as operators
on sequences.
