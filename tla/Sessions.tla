------------------------------ MODULE Sessions ------------------------------
(***************************************************************************)
(* Signing in and out: internal/http/auth.go over the in-memory            *)
(* SessionStore of internal/auth/session.go, the cookies of the browsers,  *)
(* and the single sign-on sessions of the OIDC provider.                   *)
(*                                                                         *)
(* Handlers run concurrently.  Each method of the store holds its lock for *)
(* one map access only, so handleAuthCallback reads the re-authentication  *)
(* requirement, clears it and stores the session in three steps, and       *)
(* handleAuthLogout reads the session and the clock, records the           *)
(* requirement and deletes the session in three.  Everything the store     *)
(* holds is lost at a restart.                                             *)
(***************************************************************************)
EXTENDS Naturals

CONSTANTS
    Browsers,
    Subjects,       \* OIDC subjects
    Attempts,       \* slots for sign-ins under way, each with its state and nonce
    Ids,            \* slots for session ids: one that nothing refers to is a fresh one
    None,           \* no cookie, no session, no SSO session
    MaxTime,        \* bound: the clock, in units longer than the cookies' 300 seconds
    SsoEnds         \* TRUE: the provider ends SSO sessions sooner or later

VARIABLES
    now,            \* time.Now().Unix(), and the provider's clock
    sessions,       \* SessionStore.sessions: id -> the subject of its session, or None
    reauthAfter,    \* SessionStore.reauthAfter: subject -> time, 0 for no entry
    jar,            \* browser -> its cookies
    sso,            \* browser -> its SSO session at the provider, or None
    attempt,        \* a sign-in: at the provider, on its way back, or in the callback
    logout,         \* browser -> the step its handleAuthLogout is about to take
    owed,           \* subject -> latest logout no callback has met yet (history)
    raced,          \* subjects with a requirement that was lost or moved back (history)
    leftAt          \* browser -> subject -> its last logout there, until signed in (history)

store == <<sessions, reauthAfter>>
history == <<owed, raced, leftAt>>
vars == <<now, store, jar, sso, attempt, logout, history>>

Times == 1..MaxTime
Proofs == [subject : Subjects, authTime : Times]

\* An ID token: when the subject authenticated, and whether the token says so.
Claims == [subject : Subjects, authTime : Times, timed : BOOLEAN]

\* session.AuthTime, 0 for a token without auth_time.
AuthTime(claims) == IF claims.timed THEN claims.authTime ELSE 0

NoTime == 0
Later(s, t) == IF s < t THEN t ELSE s

SessionsAssumption ==
    /\ None \notin Proofs \cup Subjects /\ None \notin Ids \cup Attempts
    /\ MaxTime \in Nat \ {0}
    /\ SsoEnds \in BOOLEAN
ASSUME SessionsAssumption

FreeAttempt == [pc : {"free"}]
AtProvider == [pc : {"authorize"}, browser : Browsers, force : BOOLEAN]
OnItsWay == [pc : {"redirect"}, browser : Browsers, claims : Claims]
InCallback == [pc : {"check", "clear", "put"}, browser : Browsers, claims : Claims]

IdleLogout == [pc : {"idle"}]
RequireLogout == [pc : {"require"}, id : Ids, subject : Subjects, time : Times]
DeleteLogout == [pc : {"delete"}, id : Ids, subject : Subjects]

Free == [pc |-> "free"]
Idle == [pc |-> "idle"]

(* The two maps of the store, the cookies, and what each handler holds; in *)
(* particular no entry for an empty subject.                               *)
TypeOK ==
    /\ now \in Times
    /\ sessions \in [Ids -> Subjects \cup {None}]
    /\ reauthAfter \in [Subjects -> Times \cup {NoTime}]
    /\ jar \in [Browsers -> [session : Ids \cup {None}, login : Attempts \cup {None},
                             force : BOOLEAN]]
    /\ sso \in [Browsers -> Proofs \cup {None}]
    /\ attempt \in [Attempts -> FreeAttempt \cup AtProvider \cup OnItsWay \cup InCallback]
    /\ logout \in [Browsers -> IdleLogout \cup RequireLogout \cup DeleteLogout]
    /\ owed \in [Subjects -> Times \cup {NoTime}]
    /\ raced \subseteq Subjects
    /\ leftAt \in [Browsers -> [Subjects -> Times \cup {NoTime}]]

Init ==
    /\ now = 1
    /\ sessions = [id \in Ids |-> None]
    /\ reauthAfter = [u \in Subjects |-> NoTime]
    /\ jar = [b \in Browsers |-> [session |-> None, login |-> None, force |-> FALSE]]
    /\ sso \in [Browsers -> [subject : Subjects, authTime : {1}] \cup {None}]
    /\ attempt = [a \in Attempts |-> Free]
    /\ logout = [b \in Browsers |-> Idle]
    /\ owed = [u \in Subjects |-> NoTime]
    /\ raced = {}
    /\ leftAt = [b \in Browsers |-> [u \in Subjects |-> NoTime]]

\* currentSession: the cookie names a session of the store.
SignedIn(b) == jar[b].session # None /\ sessions[jar[b].session] # None
-----------------------------------------------------------------------------
(* handleAuthLogin and the provider.                                       *)

\* A new state and nonce replace those in the cookies; force_login is used up.
handleAuthLogin(b) ==
    /\ \E a \in Attempts :
          /\ attempt[a] = Free /\ \A c \in Browsers \ {b} : jar[c].login # a
          /\ attempt' = [attempt EXCEPT ![a] =
                           [pc |-> "authorize", browser |-> b, force |-> jar[b].force]]
          /\ jar' = [jar EXCEPT ![b].login = a, ![b].force = FALSE]
    /\ UNCHANGED <<now, store, sso, logout, history>>

\* The provider answers with a proof: OIDC makes auth_time a must only with max_age.
Redirect(a, proof) ==
    \E timed \in IF attempt[a].force THEN {TRUE} ELSE BOOLEAN :
        attempt' = [attempt EXCEPT ![a] =
                      [pc |-> "redirect", browser |-> attempt[a].browser,
                       claims |-> [subject |-> proof.subject, authTime |-> proof.authTime,
                                   timed |-> timed]]]

\* The provider asks for credentials without an SSO session or with max_age=0.
Authenticate(a, u) ==
    LET b == attempt[a].browser
        proof == [subject |-> u, authTime |-> now]
    IN  /\ attempt[a].pc = "authorize"
        /\ IF sso[b] = None THEN TRUE ELSE attempt[a].force /\ u = sso[b].subject
        /\ sso' = [sso EXCEPT ![b] = proof]
        /\ Redirect(a, proof)
        /\ UNCHANGED <<now, store, jar, logout, history>>

SingleSignOn(a) ==
    LET b == attempt[a].browser
    IN  /\ attempt[a].pc = "authorize"
        /\ sso[b] # None /\ ~attempt[a].force
        /\ Redirect(a, sso[b])
        /\ UNCHANGED <<now, store, jar, sso, logout, history>>

\* The user closes the tab, or the provider answers an error.
Abandon(a) ==
    /\ attempt[a].pc \in {"authorize", "redirect"}
    /\ attempt' = [attempt EXCEPT ![a] = Free]
    /\ UNCHANGED <<now, store, jar, sso, logout, history>>
-----------------------------------------------------------------------------
(* handleAuthCallback.                                                     *)

\* The answer of a callback deletes the state and nonce cookies.
ClearLogin(b) == [jar EXCEPT ![b].login = None]

\* The state in the URL is not the one in the cookie, or the cookie is gone: 400.
InvalidState(a) ==
    LET q == attempt[a]
    IN  /\ q.pc = "redirect"
        /\ jar[q.browser].login # a
        /\ attempt' = [attempt EXCEPT ![a] = Free]
        /\ UNCHANGED <<now, store, jar, sso, logout, history>>

\* The state matches the cookie, and so does the nonce of the ID token that the code is
\* exchanged for: handleAuthLogin sets both cookies in one answer.
ExchangeCode(a) ==
    LET q == attempt[a]
    IN  /\ q.pc = "redirect"
        /\ jar[q.browser].login = a
        /\ attempt' = [attempt EXCEPT ![a].pc = "check"]
        /\ UNCHANGED <<now, store, jar, sso, logout, history>>

\* The provider refuses the code, or the token does not verify: 502.
ExchangeFails(a) ==
    LET q == attempt[a]
    IN  /\ q.pc = "redirect"
        /\ jar[q.browser].login = a
        /\ attempt' = [attempt EXCEPT ![a] = Free]
        /\ jar' = ClearLogin(q.browser)
        /\ UNCHANGED <<now, store, sso, logout, history>>

\* A mutant: only a missing auth_time is refused.
FreshEnoughIfPresent(claims) == AuthTime(claims) # 0

\* A mutant: the comparison the other way round.
FreshEnoughSwapped(claims) == AuthTime(claims) <= reauthAfter[claims.subject]

\* The negation of session.AuthTime == 0 || session.AuthTime < reauthAfter.
FreshEnough(claims) ==
    AuthTime(claims) # 0 /\ AuthTime(claims) >= reauthAfter[claims.subject]

ReauthAfterTime(a) ==
    LET q == attempt[a]
    IN  /\ q.pc = "check"
        /\ IF reauthAfter[q.claims.subject] = NoTime
           THEN attempt' = [attempt EXCEPT ![a].pc = "put"] /\ UNCHANGED jar
           ELSE IF FreshEnough(q.claims)
           THEN attempt' = [attempt EXCEPT ![a].pc = "clear"] /\ UNCHANGED jar
           ELSE attempt' = [attempt EXCEPT ![a] = Free] /\ jar' = ClearLogin(q.browser)
        /\ UNCHANGED <<now, store, sso, logout, history>>

\* The callback has checked the requirement of u and is about to clear it or to sign in.
Passed(a, u) == attempt[a].pc \in {"clear", "put"} /\ attempt[a].claims.subject = u

ClearReauthAfter(a) ==
    /\ attempt[a].pc = "clear"
    /\ reauthAfter' = [reauthAfter EXCEPT ![attempt[a].claims.subject] = NoTime]
    /\ owed' = [owed EXCEPT ![attempt[a].claims.subject] = NoTime]
    /\ attempt' = [attempt EXCEPT ![a].pc = "put"]
    /\ UNCHANGED <<now, sessions, jar, sso, logout, raced, leftAt>>

\* Ids in a cookie or a handler.  A session that no one can name any more stays in the
\* map; its slot stands for the next random id.
Named == {jar[b].session : b \in Browsers}
            \cup {logout[b].id : b \in {c \in Browsers : logout[c] # Idle}}

\* Nothing reads the other fields of a stored session.
Put(a) ==
    LET q == attempt[a]
    IN  /\ q.pc = "put"
        /\ \E id \in Ids :
              /\ id \notin Named
              /\ sessions' = [sessions EXCEPT ![id] =
                                q.claims.subject]
              /\ jar' = [ClearLogin(q.browser) EXCEPT ![q.browser].session = id]
        /\ attempt' = [attempt EXCEPT ![a] = Free]
        /\ leftAt' = [leftAt EXCEPT ![q.browser][q.claims.subject] = NoTime]
        /\ UNCHANGED <<now, reauthAfter, sso, logout, owed, raced>>

handleAuthCallback(a) ==
    \/ InvalidState(a) \/ ExchangeFails(a) \/ ExchangeCode(a)
    \/ ReauthAfterTime(a) \/ ClearReauthAfter(a) \/ Put(a)
-----------------------------------------------------------------------------
(* handleAuthLogout.                                                       *)

\* The answer of a logout deletes the session cookie and sets force_login.
SignedOut(b) == [jar EXCEPT ![b].session = None, ![b].force = TRUE]

\* A mutant: the ok of Get is ignored, and an unknown cookie gives an empty subject.
ReadSessionUnchecked(b) ==
    LET id == jar[b].session
    IN  /\ logout[b] = Idle
        /\ id # None
        /\ logout' = [logout EXCEPT ![b] = [pc |-> "require", id |-> id,
                        subject |-> IF sessions[id] = None THEN None
                                    ELSE sessions[id], time |-> now]]
        /\ UNCHANGED <<now, store, jar, sso, attempt, history>>

\* Get finds the subject, and the clock is read before RequireReauthAfter takes its lock.
ReadSession(b) ==
    LET id == jar[b].session
    IN  /\ logout[b] = Idle
        /\ SignedIn(b)
        /\ logout' = [logout EXCEPT ![b] = [pc |-> "require", id |-> id,
                        subject |-> sessions[id], time |-> now]]
        /\ UNCHANGED <<now, store, jar, sso, attempt, history>>

\* No cookie, or one the store does not know: there is nothing to record or to delete.
NoSession(b) ==
    /\ logout[b] = Idle
    /\ ~SignedIn(b)
    /\ jar' = SignedOut(b)
    /\ UNCHANGED <<now, store, sso, attempt, logout, history>>

\* A callback of u that is past its check clears the requirement, or signs in, without
\* having seen it; an older time replaces a later one.
Races(u, time) == (\E a \in Attempts : Passed(a, u)) \/ time < reauthAfter[u]

RequireReauthAfter(b) ==
    LET q == logout[b]
    IN  /\ q.pc = "require"
        /\ raced' = IF Races(q.subject, q.time) THEN raced \cup {q.subject} ELSE raced
        /\ reauthAfter' = [reauthAfter EXCEPT ![q.subject] = q.time]
        /\ owed' = [owed EXCEPT ![q.subject] = Later(@, q.time)]
        /\ logout' = [logout EXCEPT ![b] = [pc |-> "delete", id |-> q.id, subject |-> q.subject]]
        /\ leftAt' = [leftAt EXCEPT ![b][q.subject] = q.time]
        /\ UNCHANGED <<now, sessions, jar, sso, attempt>>

Delete(b) ==
    LET id == logout[b].id
    IN  /\ logout[b].pc = "delete"
        /\ sessions' = [i \in Ids |-> IF i = id THEN None ELSE sessions[i]]
        /\ jar' = SignedOut(b)
        /\ logout' = [logout EXCEPT ![b] = Idle]
        /\ UNCHANGED <<now, reauthAfter, sso, attempt, history>>

handleAuthLogout(b) ==
    NoSession(b) \/ ReadSession(b) \/ RequireReauthAfter(b) \/ Delete(b)
-----------------------------------------------------------------------------
(* What happens around the handlers.                                       *)

\* MaxAge: 300 seconds for the login and force_login cookies, 12 hours for the session.
ExpireCookie(b) ==
    /\ \/ jar' = [jar EXCEPT ![b].login = None]
       \/ jar' = [jar EXCEPT ![b].force = FALSE]
       \/ jar' = [jar EXCEPT ![b].session = None]
    /\ UNCHANGED <<now, store, sso, attempt, logout, history>>

EndSso(b) ==
    /\ sso' = [sso EXCEPT ![b] = None]
    /\ UNCHANGED <<now, store, jar, attempt, logout, history>>

Tick ==
    /\ now < MaxTime
    /\ now' = now + 1
    /\ UNCHANGED <<store, jar, sso, attempt, logout, history>>

Restart ==
    /\ sessions' = [id \in Ids |-> None]
    /\ reauthAfter' = [u \in Subjects |-> NoTime]
    /\ owed' = [u \in Subjects |-> NoTime]
    /\ attempt' = [a \in Attempts |->
                     IF attempt[a].pc \in {"check", "clear", "put"} THEN Free ELSE attempt[a]]
    /\ logout' = [b \in Browsers |-> Idle]
    /\ raced' = {}
    /\ leftAt' = [b \in Browsers |-> [u \in Subjects |-> NoTime]]
    /\ UNCHANGED <<now, jar, sso>>

Next ==
    \/ \E a \in Attempts :
          \/ \E u \in Subjects : Authenticate(a, u)
          \/ SingleSignOn(a) \/ Abandon(a) \/ handleAuthCallback(a)
    \/ \E b \in Browsers :
          \/ handleAuthLogin(b) \/ handleAuthLogout(b)
          \/ ExpireCookie(b) \/ EndSso(b)
    \/ Tick \/ Restart

\* The user of b finishes one sign-in before starting another, and nobody signs out,
\* abandons a sign-in, loses a cookie or restarts the server.
CalmStep ==
    \/ \E a \in Attempts :
          \/ \E u \in Subjects : Authenticate(a, u)
          \/ SingleSignOn(a) \/ InvalidState(a) \/ ExchangeCode(a)
          \/ ReauthAfterTime(a) \/ ClearReauthAfter(a) \/ Put(a)
    \/ \E b \in Browsers :
          \/ RequireReauthAfter(b) \/ Delete(b) \/ EndSso(b)
          \/ /\ \A a \in Attempts : attempt[a] # Free => attempt[a].browser # b
             /\ handleAuthLogin(b)
    \/ Tick

\* In the end people persevere and nothing disturbs them, requests are served, and with
\* SsoEnds the provider does not keep an SSO session for ever.
Fairness ==
    /\ <>[][CalmStep]_vars
    /\ \A b \in Browsers :
          /\ WF_vars(/\ \A a \in Attempts : attempt[a] # Free => attempt[a].browser # b
                     /\ handleAuthLogin(b))
          /\ WF_vars(RequireReauthAfter(b) \/ Delete(b))
          /\ SsoEnds => WF_vars(sso[b] # None /\ EndSso(b))
    /\ \A a \in Attempts :
          /\ WF_vars((\E u \in Subjects : Authenticate(a, u)) \/ SingleSignOn(a))
          /\ WF_vars(InvalidState(a) \/ ExchangeCode(a) \/ ReauthAfterTime(a)
                       \/ ClearReauthAfter(a) \/ Put(a))

Spec == Init /\ [][Next]_vars /\ Fairness
-----------------------------------------------------------------------------
(* docs/oidc.md:61-63: the callback after a logout is accepted only with   *)
(* an authentication at or after the logout, whatever browser it comes     *)
(* from, whatever else is under way and whatever the provider tells of     *)
(* times.  Only two interleavings break it: a requirement recorded while a *)
(* callback is past its check, and one recorded after a later one.         *)
NextSignInIsFresh ==
    \A a \in Attempts, u \in Subjects :
        Passed(a, u) /\ u \notin raced => attempt[a].claims.authTime >= owed[u]

(* docs/oidc.md:63-65: a browser that signed out is signed in again only   *)
(* with an authentication since then, not by its SSO session alone.        *)
SsoAloneDoesNotSignIn ==
    \A a \in Attempts :
        LET q == attempt[a]
        IN  q.pc = "put" /\ q.claims.subject \notin raced =>
                q.claims.authTime >= leftAt[q.browser][q.claims.subject]

\* The callback is about to refuse a token without auth_time: a requirement stands and
\* the provider was not asked with max_age.
RefusesUntimed(b) ==
    \E a \in Attempts :
        /\ attempt[a].pc = "check" /\ attempt[a].browser = b
        /\ AuthTime(attempt[a].claims) = 0
        /\ reauthAfter[attempt[a].claims.subject] # NoTime

(* docs/oidc.md:53-55: signing in after a sign-out asks for credentials    *)
(* again, and with them a browser that keeps trying gets a session that    *)
(* the store knows, also when its old cookie outlived a restart, unless    *)
(* the provider leaves out auth_time while a requirement stands.           *)
SignInSucceeds ==
    \A b \in Browsers : ~SignedIn(b) ~> SignedIn(b) \/ RefusesUntimed(b)
=============================================================================
