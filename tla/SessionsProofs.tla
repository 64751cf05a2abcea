---------------------------- MODULE SessionsProofs ----------------------------
(***************************************************************************)
(* Theorems about sign-in and sign-out, for any number of browsers,        *)
(* subjects, sign-ins under way and sessions.                              *)
(*                                                                         *)
(* NextSignInIsFresh compares what a callback is about to store with the   *)
(* latest logout.  It holds because for a subject outside raced the        *)
(* requirement in the store is that logout (Settled): only a callback that *)
(* has met it clears it, and no logout records one behind the back of a    *)
(* callback that is past its check.                                        *)
(***************************************************************************)
EXTENDS Sessions, TLAPS

\* What is owed is what is required, and every callback past its check has met it.
Settled(u) ==
    /\ owed[u] = reauthAfter[u]
    /\ \A a \in Attempts : Passed(a, u) => attempt[a].claims.authTime >= owed[u]

Good == \A u \in Subjects : u \notin raced => Settled(u)

IInv == TypeOK /\ Good

SignIns == FreeAttempt \cup AtProvider \cup OnItsWay \cup InCallback
SignOuts == IdleLogout \cup RequireLogout \cup DeleteLogout
Cookies == [session : Ids \cup {None}, login : Attempts \cup {None}, force : BOOLEAN]
-----------------------------------------------------------------------------
(* What a sign-in and a sign-out hold, by their step.                      *)
LEMMA SignInShape ==
    ASSUME NEW q \in SignIns
    PROVE  /\ q.pc = "authorize" => q \in AtProvider
           /\ q.pc = "redirect" => q \in OnItsWay
           /\ q.pc \in {"check", "clear", "put"} => q \in InCallback
  BY DEF SignIns, FreeAttempt, AtProvider, OnItsWay, InCallback

(* The same for a sign-out that is about to record the requirement.        *)
LEMMA SignOutShape ==
    ASSUME NEW q \in SignOuts, q.pc = "require"
    PROVE  q \in RequireLogout
  BY DEF SignOuts, IdleLogout, RequireLogout, DeleteLogout

(* Nobody has signed in or out.                                            *)
LEMMA InitIInv == Init => IInv
  <1> SUFFICES ASSUME Init PROVE IInv
    OBVIOUS
  <1>1. Free \in FreeAttempt /\ Idle \in IdleLogout /\ 1 \in Times
    BY SessionsAssumption DEF SessionsAssumption, Free, FreeAttempt, Idle, IdleLogout, Times
  <1>2. TypeOK
    <2>1. attempt \in [Attempts -> FreeAttempt] /\ logout \in [Browsers -> IdleLogout]
      BY <1>1 DEF Init
    <2>2. sso \in [Browsers -> Proofs \cup {None}]
      BY <1>1 DEF Init, Proofs
    <2>3. jar \in [Browsers -> Cookies]
      BY DEF Init, Cookies
    <2> QED
      BY <1>1, <2>1, <2>2, <2>3 DEF Init, TypeOK, Cookies
  <1>3. \A a \in Attempts : attempt[a].pc = "free"
    BY DEF Init, Free
  <1>4. Good
    BY <1>3 DEF Init, Good, Settled, Passed
  <1> QED
    BY <1>2, <1>4 DEF IInv

(* A subject whose times are left alone, and no callback of which passes   *)
(* its check.                                                              *)
LEMMA SettledStays ==
    ASSUME NEW u \in Subjects, Settled(u),
           owed'[u] = owed[u], reauthAfter'[u] = reauthAfter[u],
           \A a \in Attempts : attempt'[a] = attempt[a] \/ ~Passed(a, u)'
    PROVE  Settled(u)'
  <1> QED
    BY DEF Settled, Passed

(* A step that touches neither the store, nor the history, and after which *)
(* no callback is past its check that was not before.                      *)
LEMMA OutsideHandlers ==
    ASSUME IInv, TypeOK', UNCHANGED <<store, owed, raced>>,
           \A a \in Attempts : attempt'[a] = attempt[a] \/ attempt'[a].pc \notin {"clear", "put"}
    PROVE  IInv'
  <1>1. \A u \in Subjects, a \in Attempts : attempt'[a] = attempt[a] \/ ~Passed(a, u)'
    BY DEF Passed
  <1>2. Good'
    BY <1>1, SettledStays DEF IInv, Good, store
  <1> QED
    BY <1>2 DEF IInv

(* Types of what most steps change: the cookies of one browser.            *)
LEMMA TypeUpdates ==
    ASSUME TypeOK, NEW b \in Browsers
    PROVE  /\ ClearLogin(b) \in [Browsers -> Cookies]
           /\ SignedOut(b) \in [Browsers -> Cookies]
           /\ \A id \in Ids : [ClearLogin(b) EXCEPT ![b].session = id] \in [Browsers -> Cookies]
  <1>1. jar \in [Browsers -> Cookies]
    BY DEF TypeOK, Cookies
  <1>2. ClearLogin(b) \in [Browsers -> Cookies] /\ SignedOut(b) \in [Browsers -> Cookies]
    BY <1>1 DEF ClearLogin, SignedOut, Cookies
  <1>3. ASSUME NEW id \in Ids
        PROVE  [ClearLogin(b) EXCEPT ![b].session = id] \in [Browsers -> Cookies]
    BY <1>2 DEF Cookies
  <1> QED
    BY <1>2, <1>3

(* Steps of the browsers and the provider, and callbacks that are refused. *)
LEMMA OutsideSteps ==
    ASSUME IInv,
           \/ \E a \in Attempts :
                 \/ \E u \in Subjects : Authenticate(a, u)
                 \/ SingleSignOn(a) \/ Abandon(a) \/ InvalidState(a) \/ ExchangeFails(a)
           \/ \E b \in Browsers :
                 handleAuthLogin(b) \/ NoSession(b) \/ ExpireCookie(b) \/ EndSso(b)
           \/ Tick
           \/ UNCHANGED vars
    PROVE  IInv'
  <1> USE DEF store, history
  <1>1. TypeOK /\ attempt \in [Attempts -> SignIns] /\ jar \in [Browsers -> Cookies]
        /\ \A a \in Attempts : attempt[a] \in SignIns
    BY DEF IInv, TypeOK, SignIns, Cookies
  <1>2. Free \in SignIns /\ Free.pc = "free"
    BY DEF Free, FreeAttempt, SignIns
  <1>3. now \in Times /\ MaxTime \in Nat
    BY <1>1, SessionsAssumption DEF SessionsAssumption, TypeOK
  <1>4. ASSUME NEW a \in Attempts, NEW q \in SignIns,
               q.pc \notin {"clear", "put"},
               attempt' = [attempt EXCEPT ![a] = q],
               jar' \in [Browsers -> Cookies], sso' \in [Browsers -> Proofs \cup {None}],
               UNCHANGED <<now, store, logout, history>>
        PROVE  IInv'
    <2>1. TypeOK'
      <3>1. attempt' \in [Attempts -> SignIns]
        BY <1>1, <1>4
      <3> QED
        BY <1>1, <1>4, <3>1 DEF TypeOK, SignIns, Cookies
    <2>2. \A c \in Attempts : attempt'[c] = attempt[c] \/ attempt'[c].pc \notin {"clear", "put"}
      BY <1>1, <1>4
    <2> QED
      BY <1>4, <2>1, <2>2, OutsideHandlers
  <1>5. ASSUME NEW a \in Attempts, NEW proof \in Proofs, attempt[a].pc = "authorize",
               Redirect(a, proof), sso' \in [Browsers -> Proofs \cup {None}],
               UNCHANGED <<now, store, jar, logout, history>>
        PROVE  IInv'
    <2>1. PICK q : /\ attempt' = [attempt EXCEPT ![a] = q]
                   /\ \E timed \in BOOLEAN :
                         q = [pc |-> "redirect", browser |-> attempt[a].browser,
                              claims |-> [subject |-> proof.subject,
                                          authTime |-> proof.authTime, timed |-> timed]]
      BY <1>5 DEF Redirect
    <2>2. attempt[a].browser \in Browsers
      BY <1>1, <1>5, SignInShape DEF AtProvider
    <2>3. q \in SignIns /\ q.pc = "redirect"
      BY <2>1, <2>2 DEF SignIns, OnItsWay, Claims, Proofs
    <2> QED
      BY <1>1, <1>4, <1>5, <2>1, <2>3
  <1>6. ASSUME NEW a \in Attempts, (\E u \in Subjects : Authenticate(a, u)) \/ SingleSignOn(a)
        PROVE  IInv'
    <2>1. attempt[a].pc = "authorize" /\ attempt[a].browser \in Browsers
      BY <1>1, <1>6, SignInShape DEF Authenticate, SingleSignOn, AtProvider
    <2>2. CASE \E u \in Subjects : Authenticate(a, u)
      <3>1. PICK u \in Subjects : Authenticate(a, u)
        BY <2>2
      <3> DEFINE proof == [subject |-> u, authTime |-> now]
      <3>2. proof \in Proofs
        BY <1>3 DEF Proofs
      <3>3. /\ Redirect(a, proof) /\ sso' = [sso EXCEPT ![attempt[a].browser] = proof]
            /\ UNCHANGED <<now, store, jar, logout, history>>
        BY <3>1 DEF Authenticate
      <3> HIDE DEF proof
      <3>4. sso' \in [Browsers -> Proofs \cup {None}]
        BY <1>1, <2>1, <3>2, <3>3 DEF TypeOK
      <3> QED
        BY <1>5, <2>1, <3>2, <3>3, <3>4
    <2>3. CASE SingleSignOn(a)
      <3>1. sso[attempt[a].browser] \in Proofs
        BY <1>1, <2>1, <2>3 DEF SingleSignOn, TypeOK
      <3> QED
        BY <1>1, <1>5, <2>1, <2>3, <3>1 DEF SingleSignOn, TypeOK
    <2> QED
      BY <1>6, <2>2, <2>3
  <1>7. ASSUME NEW a \in Attempts, Abandon(a) \/ InvalidState(a) \/ ExchangeFails(a) PROVE IInv'
    <2>1. attempt[a].pc \in {"authorize", "redirect"}
      BY <1>7 DEF Abandon, InvalidState, ExchangeFails
    <2>2. attempt' = [attempt EXCEPT ![a] = Free] /\ UNCHANGED <<now, store, sso, logout, history>>
      BY <1>7 DEF Abandon, InvalidState, ExchangeFails
    <2>3. sso' \in [Browsers -> Proofs \cup {None}]
      BY <1>1, <2>2 DEF TypeOK
    <2>4. jar' \in [Browsers -> Cookies]
      <3>1. CASE ExchangeFails(a)
        <4>1. attempt[a].browser \in Browsers
          BY <1>1, <3>1, SignInShape DEF ExchangeFails, OnItsWay
        <4> QED
          BY <1>1, <3>1, <4>1, TypeUpdates DEF ExchangeFails
      <3>2. CASE Abandon(a) \/ InvalidState(a)
        BY <1>1, <3>2 DEF Abandon, InvalidState
      <3> QED
        BY <1>7, <3>1, <3>2
    <2> QED
      BY <1>2, <1>4, <2>1, <2>2, <2>3, <2>4
  <1>8. ASSUME NEW b \in Browsers, handleAuthLogin(b) PROVE IInv'
    <2>1. PICK a \in Attempts :
             /\ attempt[a] = Free
             /\ attempt' = [attempt EXCEPT ![a] =
                              [pc |-> "authorize", browser |-> b, force |-> jar[b].force]]
             /\ jar' = [jar EXCEPT ![b].login = a, ![b].force = FALSE]
      BY <1>8 DEF handleAuthLogin
    <2> DEFINE q == [pc |-> "authorize", browser |-> b, force |-> jar[b].force]
    <2>2. q \in SignIns /\ q.pc = "authorize"
      BY <1>1 DEF SignIns, AtProvider, Cookies
    <2>3. jar' \in [Browsers -> Cookies]
      BY <1>1, <2>1 DEF Cookies
    <2>4. sso' \in [Browsers -> Proofs \cup {None}] /\ UNCHANGED <<now, store, logout, history>>
      BY <1>1, <1>8 DEF handleAuthLogin, TypeOK
    <2> HIDE DEF q
    <2> QED
      BY <1>2, <1>4, <2>1, <2>2, <2>3, <2>4 DEF q
  <1>9. ASSUME UNCHANGED <<store, attempt, logout, history>>,
               jar' \in [Browsers -> Cookies], sso' \in [Browsers -> Proofs \cup {None}],
               now' \in Times
        PROVE  IInv'
    <2>1. TypeOK'
      BY <1>1, <1>9 DEF TypeOK, Cookies
    <2> QED
      BY <1>9, <2>1, OutsideHandlers
  <1>10. ASSUME NEW b \in Browsers, NoSession(b) \/ ExpireCookie(b) \/ EndSso(b) PROVE IInv'
    <2>1. jar' \in [Browsers -> Cookies]
      <3>1. CASE NoSession(b)
        BY <1>1, <3>1, TypeUpdates DEF NoSession
      <3>2. CASE ExpireCookie(b)
        BY <1>1, <3>2, ZenonT(30) DEF ExpireCookie, Cookies
      <3>3. CASE EndSso(b)
        BY <1>1, <3>3 DEF EndSso
      <3> QED
        BY <1>10, <3>1, <3>2, <3>3
    <2>2. sso' \in [Browsers -> Proofs \cup {None}]
      BY <1>1, <1>10 DEF NoSession, ExpireCookie, EndSso, TypeOK
    <2>3. UNCHANGED <<now, store, attempt, logout, history>>
      BY <1>10 DEF NoSession, ExpireCookie, EndSso
    <2> QED
      BY <1>3, <1>9, <2>1, <2>2, <2>3
  <1>11. CASE Tick
    <2>1. UNCHANGED <<store, jar, sso, attempt, logout, history>> /\ now < MaxTime /\ now' = now + 1
      BY <1>11 DEF Tick
    <2>2. now' \in Times
      BY <1>3, <2>1 DEF Times
    <2> QED
      BY <1>1, <1>9, <2>1, <2>2 DEF TypeOK
  <1>12. CASE UNCHANGED vars
    <2>1. UNCHANGED <<now, store, jar, sso, attempt, logout, history>>
      BY <1>12 DEF vars
    <2> QED
      BY <1>1, <1>3, <1>9, <2>1 DEF TypeOK
  <1> QED
    BY <1>6, <1>7, <1>8, <1>10, <1>11, <1>12

(* A callback: the code, the check, the clearing and the session.          *)
LEMMA CallbackSteps ==
    ASSUME IInv, NEW a \in Attempts,
           ExchangeCode(a) \/ ReauthAfterTime(a) \/ ClearReauthAfter(a) \/ Put(a)
    PROVE  IInv'
  <1> USE DEF history
  <1> DEFINE q == attempt[a]
             v == q.claims.subject
  <1>1. /\ TypeOK /\ attempt \in [Attempts -> SignIns] /\ jar \in [Browsers -> Cookies]
        /\ q \in SignIns /\ Free \in SignIns /\ Free.pc = "free"
    BY DEF IInv, TypeOK, SignIns, Cookies, Free, FreeAttempt
  <1>2. q \in OnItsWay \cup InCallback
    BY <1>1, SignInShape DEF ExchangeCode, ReauthAfterTime, ClearReauthAfter, Put
  <1>3. v \in Subjects /\ q.browser \in Browsers /\ q.claims \in Claims
    BY <1>2 DEF OnItsWay, InCallback, Claims
  <1>4. /\ \A u \in Subjects : owed[u] \in Nat /\ reauthAfter[u] \in Nat
        /\ q.claims.authTime \in Nat
    BY <1>1, <1>3 DEF TypeOK, Times, NoTime, Claims
  <1>5. UNCHANGED <<now, sso, logout>>
    BY DEF ExchangeCode, ReauthAfterTime, ClearReauthAfter, Put
  <1>6. PICK r \in SignIns :
           /\ attempt' = [attempt EXCEPT ![a] = r]
           /\ r = Free \/ (r.pc \in {"check", "clear", "put"} /\ r.claims = q.claims)
           /\ r.pc = "check" => ExchangeCode(a)
           /\ r.pc = "clear" => ReauthAfterTime(a) /\ FreshEnough(q.claims)
           /\ r.pc = "put" => \/ ClearReauthAfter(a)
                              \/ ReauthAfterTime(a) /\ reauthAfter[v] = NoTime
    <2>1. ASSUME NEW pc \in {"check", "clear", "put"}
          PROVE  /\ [q EXCEPT !.pc = pc] \in SignIns /\ [q EXCEPT !.pc = pc].pc = pc
                 /\ [q EXCEPT !.pc = pc].claims = q.claims
      BY <1>2 DEF SignIns, OnItsWay, InCallback
    <2>2. CASE ExchangeCode(a)
      BY <2>1, <2>2 DEF ExchangeCode
    <2>3. CASE ReauthAfterTime(a)
      <3>1. CASE reauthAfter[v] = NoTime
        BY <2>1, <2>3, <3>1 DEF ReauthAfterTime
      <3>2. CASE reauthAfter[v] # NoTime /\ FreshEnough(q.claims)
        BY <2>1, <2>3, <3>2 DEF ReauthAfterTime
      <3>3. CASE reauthAfter[v] # NoTime /\ ~FreshEnough(q.claims)
        <4>1. attempt' = [attempt EXCEPT ![a] = Free]
          BY <2>3, <3>3 DEF ReauthAfterTime
        <4> QED
          BY <1>1, <4>1
      <3> QED
        BY <3>1, <3>2, <3>3
    <2>4. CASE ClearReauthAfter(a)
      BY <2>1, <2>4 DEF ClearReauthAfter
    <2>5. CASE Put(a)
      <3>1. attempt' = [attempt EXCEPT ![a] = Free]
        BY <2>5 DEF Put
      <3> QED
        BY <1>1, <3>1
    <2> QED
      BY <2>2, <2>3, <2>4, <2>5
  <1>7. attempt'[a] = r /\ \A c \in Attempts : c # a => attempt'[c] = attempt[c]
    BY <1>1, <1>6
  <1>8. \A u \in Subjects : u # v => owed'[u] = owed[u] /\ reauthAfter'[u] = reauthAfter[u]
    BY <1>1 DEF ExchangeCode, ReauthAfterTime, ClearReauthAfter, Put, store, TypeOK
  <1>9. raced' = raced
    BY DEF ExchangeCode, ReauthAfterTime, ClearReauthAfter, Put
  <1>10. TypeOK'
    <2>1. attempt' \in [Attempts -> SignIns]
      BY <1>1, <1>6
    <2>2. jar' \in [Browsers -> Cookies]
      <3>1. PICK b \in Browsers : b = q.browser
        BY <1>3
      <3>2. \/ jar' = jar \/ jar' = ClearLogin(b)
            \/ \E id \in Ids : jar' = [ClearLogin(b) EXCEPT ![b].session = id]
        BY <3>1 DEF ExchangeCode, ReauthAfterTime, ClearReauthAfter, Put
      <3> QED
        BY <1>1, <3>2, TypeUpdates
    <2>3. sessions' \in [Ids -> Subjects \cup {None}]
      BY <1>1, <1>3 DEF ExchangeCode, ReauthAfterTime, ClearReauthAfter, Put, store, TypeOK
    <2>4. /\ reauthAfter' \in [Subjects -> Times \cup {NoTime}]
          /\ owed' \in [Subjects -> Times \cup {NoTime}]
      BY <1>1 DEF ExchangeCode, ReauthAfterTime, ClearReauthAfter, Put, store, TypeOK
    <2>5. leftAt' \in [Browsers -> [Subjects -> Times \cup {NoTime}]]
      <3>1. leftAt \in [Browsers -> [Subjects -> Times \cup {NoTime}]]
        BY <1>1 DEF TypeOK
      <3>2. CASE Put(a)
        <4>1. PICK f : f = [leftAt[q.browser] EXCEPT ![v] = NoTime]
          OBVIOUS
        <4>2. f \in [Subjects -> Times \cup {NoTime}]
          BY <1>3, <3>1, <4>1
        <4>3. leftAt' = [leftAt EXCEPT ![q.browser] = f]
          BY <3>2, <4>1 DEF Put
        <4> QED
          BY <3>1, <4>2, <4>3
      <3>3. CASE ExchangeCode(a) \/ ReauthAfterTime(a) \/ ClearReauthAfter(a)
        BY <3>1, <3>3 DEF ExchangeCode, ReauthAfterTime, ClearReauthAfter
      <3> QED
        BY <3>2, <3>3
    <2> QED
      BY <1>1, <1>5, <1>9, <2>1, <2>2, <2>3, <2>4, <2>5 DEF TypeOK, SignIns, Cookies
  <1>11. ASSUME NEW u \in Subjects, Settled(u) PROVE Settled(u)'
    <2>1. CASE u # v \/ ExchangeCode(a) \/ Put(a)
      <3>1. owed'[u] = owed[u] /\ reauthAfter'[u] = reauthAfter[u]
        BY <1>8, <2>1 DEF ExchangeCode, Put, store
      <3>2. ~Passed(a, u)'
        <4>1. CASE u # v
          BY <1>6, <1>7, <4>1 DEF Passed, Free
        <4>2. CASE ExchangeCode(a)
          <5>1. ~ReauthAfterTime(a) /\ ~ClearReauthAfter(a)
            BY <4>2 DEF ExchangeCode, ReauthAfterTime, ClearReauthAfter
          <5> QED
            BY <1>6, <1>7, <5>1 DEF Passed, Free
        <4>3. CASE Put(a)
          BY <1>1, <4>3 DEF Passed, Put, Free
        <4> QED
          BY <2>1, <4>1, <4>2, <4>3
      <3> QED
        BY <1>7, <1>11, <3>1, <3>2, SettledStays
    <2>2. CASE u = v /\ ReauthAfterTime(a)
      <3>1. owed' = owed /\ reauthAfter' = reauthAfter
        BY <2>2 DEF ReauthAfterTime, store
      <3>2. Passed(a, u)' => r.claims = q.claims /\ r.pc \in {"clear", "put"}
        BY <1>6, <1>7 DEF Passed, Free
      <3>3. Passed(a, u)' => r.claims.authTime >= owed[u]
        <4>1. CASE reauthAfter[u] = NoTime
          BY <1>4, <1>11, <3>2, <4>1 DEF Settled, NoTime
        <4>2. CASE FreshEnough(q.claims)
          BY <1>4, <1>11, <2>2, <3>2, <4>2 DEF Settled, FreshEnough, AuthTime
        <4>3. CASE r = Free
          BY <3>2, <4>3 DEF Free
        <4> QED
          BY <1>6, <2>2, <3>2, <4>1, <4>2, <4>3 DEF ReauthAfterTime, ClearReauthAfter
      <3> QED
        BY <1>7, <1>11, <3>1, <3>3 DEF Settled, Passed
    <2>3. CASE u = v /\ ClearReauthAfter(a)
      <3>1. owed'[u] = 0 /\ reauthAfter'[u] = 0
        BY <1>1, <2>3 DEF ClearReauthAfter, TypeOK, NoTime
      <3>2. ASSUME NEW c \in Attempts, Passed(c, u)' PROVE attempt'[c].claims.authTime \in Nat
        <4>1. attempt'[c] \in SignIns
          BY <1>1, <1>6
        <4>2. attempt'[c] \in InCallback
          BY <3>2, <4>1, SignInShape DEF Passed
        <4> QED
          BY <4>2 DEF InCallback, Claims, Times
      <3> QED
        BY <3>1, <3>2 DEF Settled
    <2> QED
      BY <2>1, <2>2, <2>3
  <1> QED
    BY <1>9, <1>10, <1>11 DEF IInv, Good

(* A sign-out: the session and the clock, the requirement, the deletion.   *)
LEMMA LogoutSteps ==
    ASSUME IInv, NEW b \in Browsers, ReadSession(b) \/ RequireReauthAfter(b) \/ Delete(b)
    PROVE  IInv'
  <1> USE DEF history, store
  <1> DEFINE q == logout[b]
  <1>1. /\ TypeOK /\ logout \in [Browsers -> SignOuts] /\ q \in SignOuts /\ now \in Times
        /\ UNCHANGED <<now, sso, attempt>>
    BY DEF IInv, TypeOK, SignOuts, ReadSession, RequireReauthAfter, Delete
  <1>2. \A u \in Subjects : owed[u] \in Nat /\ reauthAfter[u] \in Nat
    BY <1>1 DEF TypeOK, Times, NoTime
  <1>3. RequireReauthAfter(b) =>
           q \in RequireLogout /\ q.subject \in Subjects /\ q.time \in Times /\ q.time \in Nat
    BY <1>1, SignOutShape DEF RequireReauthAfter, RequireLogout, Times
  <1>4. TypeOK'
    <2>1. logout' \in [Browsers -> SignOuts]
      <3>1. CASE ReadSession(b)
        <4>1. PICK s : s = [pc |-> "require", id |-> jar[b].session,
                            subject |-> sessions[jar[b].session], time |-> now]
          OBVIOUS
        <4>2. s \in SignOuts
          <5>1. jar[b].session \in Ids /\ sessions[jar[b].session] \in Subjects
            BY <1>1, <3>1 DEF ReadSession, SignedIn, TypeOK
          <5> QED
            BY <1>1, <4>1, <5>1 DEF SignOuts, RequireLogout
        <4>3. logout' = [logout EXCEPT ![b] = s]
          BY <3>1, <4>1 DEF ReadSession
        <4> QED
          BY <1>1, <4>2, <4>3
      <3>2. CASE RequireReauthAfter(b)
        <4>1. PICK s : s = [pc |-> "delete", id |-> q.id, subject |-> q.subject]
          OBVIOUS
        <4>2. s \in SignOuts
          BY <1>3, <3>2, <4>1 DEF SignOuts, RequireLogout, DeleteLogout
        <4>3. logout' = [logout EXCEPT ![b] = s]
          BY <3>2, <4>1 DEF RequireReauthAfter
        <4> QED
          BY <1>1, <4>2, <4>3
      <3>3. CASE Delete(b)
        <4>1. Idle \in SignOuts /\ logout' = [logout EXCEPT ![b] = Idle]
          BY <3>3 DEF Delete, Idle, IdleLogout, SignOuts
        <4> QED
          BY <1>1, <4>1
      <3> QED
        BY <3>1, <3>2, <3>3
    <2>2. jar' \in [Browsers -> Cookies]
      <3>1. jar' = jar \/ jar' = SignedOut(b)
        BY DEF ReadSession, RequireReauthAfter, Delete
      <3> QED
        BY <1>1, <3>1, TypeUpdates DEF TypeOK, Cookies
    <2>3. sessions' \in [Ids -> Subjects \cup {None}]
      BY <1>1 DEF ReadSession, RequireReauthAfter, Delete, TypeOK
    <2>4. reauthAfter' \in [Subjects -> Times \cup {NoTime}]
      BY <1>1, <1>3 DEF ReadSession, RequireReauthAfter, Delete, TypeOK
    <2>5. owed' \in [Subjects -> Times \cup {NoTime}]
      BY <1>1, <1>3 DEF ReadSession, RequireReauthAfter, Delete, TypeOK, Later
    <2>6. leftAt' \in [Browsers -> [Subjects -> Times \cup {NoTime}]]
      <3>1. leftAt \in [Browsers -> [Subjects -> Times \cup {NoTime}]]
        BY <1>1 DEF TypeOK
      <3>2. CASE RequireReauthAfter(b)
        <4>1. PICK f : f = [leftAt[b] EXCEPT ![q.subject] = q.time]
          OBVIOUS
        <4>2. f \in [Subjects -> Times \cup {NoTime}]
          BY <1>3, <3>1, <3>2, <4>1
        <4>3. leftAt' = [leftAt EXCEPT ![b] = f]
          BY <3>2, <4>1 DEF RequireReauthAfter
        <4> QED
          BY <3>1, <4>2, <4>3
      <3>3. CASE ReadSession(b) \/ Delete(b)
        BY <3>1, <3>3 DEF ReadSession, Delete
      <3> QED
        BY <3>2, <3>3
    <2>7. raced' \subseteq Subjects
      BY <1>1, <1>3 DEF ReadSession, RequireReauthAfter, Delete, TypeOK
    <2> QED
      BY <1>1, <2>1, <2>2, <2>3, <2>4, <2>5, <2>6, <2>7 DEF TypeOK, SignOuts, Cookies
  <1>5. CASE ReadSession(b) \/ Delete(b)
    <2>1. UNCHANGED <<reauthAfter, owed, raced, attempt>>
      BY <1>5 DEF ReadSession, Delete
    <2> QED
      BY <1>4, <2>1, SettledStays DEF IInv, Good
  <1>6. CASE RequireReauthAfter(b)
    <2> SUFFICES ASSUME NEW u \in Subjects, u \notin raced' PROVE Settled(u)'
      BY <1>4 DEF IInv, Good
    <2>1. u \notin raced /\ (u = q.subject => ~Races(u, q.time))
      BY <1>6 DEF RequireReauthAfter
    <2>2. Settled(u)
      BY <2>1 DEF IInv, Good
    <2>3. CASE u # q.subject
      <3>1. owed'[u] = owed[u] /\ reauthAfter'[u] = reauthAfter[u]
        BY <1>1, <1>6, <2>3 DEF RequireReauthAfter, TypeOK
      <3> QED
        BY <1>1, <2>2, <3>1, SettledStays
    <2>4. CASE u = q.subject
      <3>1. owed'[u] = Later(owed[u], q.time) /\ reauthAfter'[u] = q.time
        BY <1>1, <1>6, <2>4 DEF RequireReauthAfter, TypeOK
      <3>2. owed[u] <= q.time
        BY <1>2, <1>3, <1>6, <2>1, <2>2, <2>4 DEF Races, Settled
      <3>3. owed'[u] = reauthAfter'[u]
        BY <1>2, <1>3, <1>6, <3>1, <3>2 DEF Later
      <3>4. \A a \in Attempts : ~Passed(a, u)'
        BY <1>1, <2>1, <2>4 DEF Races, Passed
      <3> QED
        BY <3>3, <3>4 DEF Settled
    <2> QED
      BY <2>3, <2>4
  <1> QED
    BY <1>5, <1>6

(* A restart forgets what is owed with what is required.                   *)
LEMMA RestartStep ==
    ASSUME IInv, Restart
    PROVE  IInv'
  <1>1. /\ Free \in FreeAttempt /\ Free.pc = "free" /\ Idle \in IdleLogout
        /\ \A a \in Attempts : attempt[a] \in SignIns
    BY DEF Free, FreeAttempt, Idle, IdleLogout, IInv, TypeOK, SignIns
  <1>2. \A a \in Attempts : attempt'[a] \in SignIns /\ attempt'[a].pc \notin {"clear", "put"}
    BY <1>1 DEF Restart, SignIns
  <1>3. TypeOK'
    <2>1. attempt' \in [Attempts -> SignIns]
      BY <1>2 DEF Restart
    <2>2. logout' \in [Browsers -> SignOuts]
      BY <1>1 DEF Restart, SignOuts
    <2> QED
      BY <2>1, <2>2 DEF Restart, IInv, TypeOK, SignIns, SignOuts
  <1>4. Good'
    BY <1>2 DEF Restart, Good, Settled, Passed
  <1> QED
    BY <1>3, <1>4 DEF IInv

(* Every step keeps the invariant.                                         *)
LEMMA StepIInv == IInv /\ [Next]_vars => IInv'
  <1> SUFFICES ASSUME IInv, [Next]_vars PROVE IInv'
    OBVIOUS
  <1>1. ASSUME NEW a \in Attempts, handleAuthCallback(a) PROVE IInv'
    BY <1>1, OutsideSteps, CallbackSteps DEF handleAuthCallback
  <1>2. ASSUME NEW b \in Browsers, handleAuthLogout(b) PROVE IInv'
    BY <1>2, OutsideSteps, LogoutSteps DEF handleAuthLogout
  <1> QED
    BY <1>1, <1>2, OutsideSteps, RestartStep DEF Next
-----------------------------------------------------------------------------
(* The strengthened invariant.                                             *)
THEOREM Invariance == Spec => []IInv
  BY InitIInv, StepIInv, PTL DEF Spec

(* Type correctness: among others, no requirement for an empty subject.    *)
THEOREM TypeCorrect == Spec => []TypeOK
  <1>1. IInv => TypeOK
    BY DEF IInv
  <1> QED
    BY <1>1, Invariance, PTL

(* Every callback past its check rests on an authentication at or after    *)
(* the last logout of its subject, unless a logout was recorded while a    *)
(* callback was past its check or after a later one.                       *)
THEOREM NextSignInAfterLogout == Spec => []NextSignInIsFresh
  <1>1. IInv => NextSignInIsFresh
    BY DEF IInv, Good, Settled, NextSignInIsFresh
  <1> QED
    BY <1>1, Invariance, PTL
=============================================================================
