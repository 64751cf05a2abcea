---------------------------- MODULE StartupProofs ----------------------------
(***************************************************************************)
(* Theorems about the start of any number of processes of any binaries.    *)
(*                                                                         *)
(* RecordedIffApplied says nothing of open transactions.  What makes it    *)
(* inductive is OneInserts: the primary key lets one transaction at a time *)
(* hold the row of a migration, and until it commits the migration is not  *)
(* recorded (ProcGood).  ProcGood also carries how far each process has    *)
(* come through the migrations of its binary.                              *)
(***************************************************************************)
EXTENDS Startup, TLAPS

ProcRecords == [at : Steps, m : Migrations \cup {NoMigration},
                ticks : 0..MaxTicks, client : BOOLEAN]

\* What a process p with record r has behind it, when R is recorded.
ProcGood(p, r, R) ==
    /\ r.at \in InMigration => r.m \in Embeds[p] /\ \A n \in Embeds[p] : n < r.m => n \in R
    /\ r.at = "skip" => r.m \in R
    /\ r.at = "commit" => r.m \notin R
    /\ r.at \in {"discover", "pausing", "serve"} => Embeds[p] \subseteq R
    /\ r.at = "serve" => r.client

OneInserts ==
    \A p, q \in Processes :
        proc[p].at = "commit" /\ proc[q].at = "commit" /\ proc[p].m = proc[q].m => p = q

AppliedAsRecorded == \A m \in Migrations : applied[m] = IF m \in recorded THEN 1 ELSE 0

IInv ==
    /\ TypeOK
    /\ AppliedAsRecorded
    /\ \A p \in Processes : ProcGood(p, proc[p], recorded)
    /\ OneInserts
-----------------------------------------------------------------------------
(* Nothing is applied on a fresh database.                                 *)
LEMMA InitIInv == Init => IInv
  <1> SUFFICES ASSUME Init PROVE IInv
    OBVIOUS
  <1>1. Down \in ProcRecords
    BY StartupAssumption DEF StartupAssumption, Down, ProcRecords, Steps, Ended
  <1>2. TypeOK
    <2>1. proc \in [Processes -> ProcRecords]
      BY <1>1 DEF Init
    <2>2. outages \in 0..MaxOutages /\ crashes \in 0..MaxCrashes
      BY StartupAssumption DEF StartupAssumption, Init
    <2>3. applied \in [Migrations -> Nat]
      BY DEF Init
    <2>4. \A p \in Processes : proc[p].at \notin InMigration
      BY DEF Init, Down, InMigration
    <2> QED
      BY <2>1, <2>2, <2>3, <2>4 DEF TypeOK, Init, ProcRecords
  <1>3. AppliedAsRecorded
    BY DEF AppliedAsRecorded, Init
  <1>4. \A p \in Processes : ProcGood(p, proc[p], recorded)
    BY DEF ProcGood, Init, Down, InMigration
  <1>5. OneInserts
    BY DEF OneInserts, Init, Down
  <1> QED
    BY <1>2, <1>3, <1>4, <1>5 DEF IInv

(* A step of one process that does not touch the tables keeps the          *)
(* invariant when its new record is good, and nobody else holds a row that *)
(* it claims to have inserted.                                             *)
LEMMA ProcessMoves ==
    ASSUME IInv, NEW p \in Processes, NEW r \in ProcRecords,
           ProcGood(p, r, recorded),
           r.at = "commit" => HaveInserted(r.m) \subseteq {p},
           proc' = [proc EXCEPT ![p] = r],
           UNCHANGED <<recorded, applied>>,
           ensured' \in BOOLEAN,
           configured' \in BOOLEAN, database' \in BOOLEAN, provider' \in BOOLEAN,
           outages' \in 0..MaxOutages, crashes' \in 0..MaxCrashes
    PROVE  IInv'
  <1> proc \in [Processes -> ProcRecords]
    BY DEF IInv, TypeOK, ProcRecords
  <1>1. /\ proc'[p] = r
        /\ \A q \in Processes : q # p => proc'[q] = proc[q]
        /\ proc' \in [Processes -> ProcRecords]
    OBVIOUS
  <1>2. \A q \in Processes : ProcGood(q, proc'[q], recorded')
    BY <1>1 DEF IInv
  <1>3. TypeOK'
    BY <1>1, <1>2 DEF IInv, TypeOK, ProcRecords, ProcGood
  <1>4. AppliedAsRecorded'
    BY DEF IInv, AppliedAsRecorded
  <1>5. OneInserts'
    BY <1>1 DEF IInv, OneInserts, HaveInserted
  <1> QED
    BY <1>2, <1>3, <1>4, <1>5 DEF IInv

(* Wherever MigrateFrom goes, all before it is recorded.                   *)
LEMMA MigrateFromGood ==
    ASSUME IInv, NEW p \in Processes, NEW after \in Migrations \cup {NoMigration},
           NEW R, \A n \in Embeds[p] : n <= after => n \in R,
           MigrateFrom(p, after)
    PROVE  \E r \in ProcRecords :
              /\ proc' = [proc EXCEPT ![p] = r]
              /\ r.at \in {"check", "discover"}
              /\ ProcGood(p, r, R)
  <1> USE StartupAssumption DEF StartupAssumption, NoMigration
  <1>1. proc[p] \in ProcRecords /\ Embeds[p] \subseteq Migrations /\ Migrations \subseteq Nat
    BY DEF IInv, TypeOK, ProcRecords
  <1>2. CASE Left(p, after) = {}
    <2> DEFINE r == [proc[p] EXCEPT !.at = "discover", !.m = 0, !.ticks = 0]
    <2>1. proc' = [proc EXCEPT ![p] = r]
      BY <1>2 DEF MigrateFrom
    <2>2. r \in ProcRecords /\ r.at = "discover"
      <3>1. 0 \in 0..MaxTicks /\ "discover" \in Steps
        BY DEF Steps, Waiting
      <3> QED
        BY <1>1, <3>1 DEF ProcRecords
    <2>3. \A n \in Embeds[p] : n <= after
      BY <1>1, <1>2 DEF Left
    <2>4. ProcGood(p, r, R)
      BY <2>2, <2>3 DEF ProcGood, InMigration
    <2> QED
      BY <2>1, <2>2, <2>4
  <1>3. CASE Left(p, after) # {}
    <2>1. PICK m \in Left(p, after) :
                  /\ \A n \in Left(p, after) : m <= n
                  /\ proc' = [proc EXCEPT ![p].at = "check", ![p].m = m]
      BY <1>3 DEF MigrateFrom
    <2> DEFINE r == [proc[p] EXCEPT !.at = "check", !.m = m]
    <2>2. m \in Embeds[p] /\ m \in Migrations
      BY <1>1 DEF Left
    <2>3. proc' = [proc EXCEPT ![p] = r]
      BY <2>1
    <2>4. r \in ProcRecords /\ r.at = "check" /\ r.m = m
      BY <1>1, <2>2 DEF ProcRecords, Steps, InMigration
    <2>5. \A n \in Embeds[p] : n < m => n <= after
      BY <1>1, <2>1, <2>2 DEF Left
    <2>6. ProcGood(p, r, R)
      BY <2>2, <2>4, <2>5 DEF ProcGood, InMigration
    <2> QED
      BY <2>3, <2>4, <2>6
  <1> QED
    BY <1>2, <1>3

(* The commit of a migration records it and its content together; every    *)
(* other process has the same behind it as before.                         *)
LEMMA CommitStep ==
    ASSUME IInv, NEW p \in Processes, Commit(p)
    PROVE  IInv'
  <1> DEFINE m == proc[p].m
  <1> proc \in [Processes -> ProcRecords]
    BY DEF IInv, TypeOK, ProcRecords
  <1>1. /\ proc[p].at = "commit" /\ recorded' = recorded \cup {m}
        /\ applied' = [applied EXCEPT ![m] = @ + 1]
        /\ MigrateFrom(p, m) /\ UNCHANGED <<outside, ensured>>
    BY DEF Commit
  <1>2. m \in Embeds[p] /\ m \in Migrations /\ m \notin recorded
        /\ \A n \in Embeds[p] : n < m => n \in recorded
    BY <1>1, StartupAssumption DEF IInv, ProcGood, InMigration, StartupAssumption
  <1>3. \A n \in Embeds[p] : n <= m => n \in recorded'
    <2>1. Embeds[p] \subseteq Nat /\ m \in Nat
      BY <1>2, StartupAssumption DEF StartupAssumption
    <2>2. \A n \in Embeds[p] : n <= m => n < m \/ n = m
      BY <2>1
    <2> QED
      BY <1>1, <1>2, <2>2
  <1>4. PICK r \in ProcRecords : /\ proc' = [proc EXCEPT ![p] = r]
                                 /\ r.at \in {"check", "discover"}
                                 /\ ProcGood(p, r, recorded')
    BY <1>1, <1>2, <1>3, MigrateFromGood
  <1>5. /\ proc'[p] = r
        /\ \A q \in Processes : q # p => proc'[q] = proc[q]
        /\ proc' \in [Processes -> ProcRecords]
    BY <1>4
  <1>6. ASSUME NEW q \in Processes PROVE ProcGood(q, proc'[q], recorded')
    <2>1. CASE q = p
      BY <2>1, <1>4, <1>5
    <2>2. CASE q # p
      <3>1. ProcGood(q, proc[q], recorded) /\ proc'[q] = proc[q]
        BY <2>2, <1>5 DEF IInv
      <3>2. proc[q].at = "commit" => proc[q].m # m
        BY <1>1, <2>2 DEF IInv, OneInserts
      <3> QED
        BY <1>1, <3>1, <3>2 DEF ProcGood
    <2> QED
      BY <2>1, <2>2
  <1>7. applied \in [Migrations -> Nat] /\ recorded \subseteq Migrations
    BY DEF IInv, TypeOK
  <1>8. applied' \in [Migrations -> Nat] /\ recorded' \subseteq Migrations
    BY <1>1, <1>2, <1>7
  <1>9. AppliedAsRecorded'
    BY <1>1, <1>2, <1>7 DEF IInv, AppliedAsRecorded
  <1>10. TypeOK'
    BY <1>1, <1>5, <1>6, <1>8 DEF IInv, TypeOK, ProcRecords, ProcGood, outside
  <1>11. OneInserts'
    BY <1>4, <1>5 DEF IInv, OneInserts
  <1> QED
    BY <1>6, <1>9, <1>10, <1>11 DEF IInv

(* A step of one process that changes only its place in main.              *)
LEMMA GoesStep ==
    ASSUME IInv, NEW p \in Processes, NEW at \in Steps, Goes(p, at),
           ProcGood(p, [proc[p] EXCEPT !.at = at], recorded),
           at = "commit" => HaveInserted(proc[p].m) \subseteq {p},
           UNCHANGED <<outside, recorded, applied>>, ensured' \in BOOLEAN
    PROVE  IInv'
  <1> DEFINE r == [proc[p] EXCEPT !.at = at]
  <1>1. proc[p] \in ProcRecords
    BY DEF IInv, TypeOK, ProcRecords
  <1>2. r \in ProcRecords /\ r.at = at /\ r.m = proc[p].m
    BY <1>1 DEF ProcRecords
  <1>3. proc' = [proc EXCEPT ![p] = r]
    BY DEF Goes
  <1>4. /\ configured' \in BOOLEAN /\ database' \in BOOLEAN /\ provider' \in BOOLEAN
        /\ outages' \in 0..MaxOutages /\ crashes' \in 0..MaxCrashes
    BY DEF outside, IInv, TypeOK
  <1> HIDE DEF r
  <1>5. ProcGood(p, r, recorded)
    BY DEF r
  <1> QED
    BY <1>2, <1>3, <1>4, <1>5, ProcessMoves

(* A process that ends drops what it held.                                 *)
LEMMA FatalStep ==
    ASSUME IInv, NEW p \in Processes, Fatal(p),
           UNCHANGED <<outside, recorded, applied>>, ensured' \in BOOLEAN
    PROVE  IInv'
  <1>1. proc[p] \in ProcRecords
    BY DEF IInv, TypeOK, ProcRecords
  <1>2. ProcGood(p, [proc[p] EXCEPT !.at = "fatal"], recorded)
    BY <1>1 DEF ProcGood, ProcRecords, InMigration
  <1> QED
    BY <1>2, GoesStep DEF Fatal, Steps, Ended

(* On to the next migration, or to discovery, with nothing committed.      *)
LEMMA MigrateFromStep ==
    ASSUME IInv, NEW p \in Processes, NEW after \in Migrations \cup {NoMigration},
           \A n \in Embeds[p] : n <= after => n \in recorded,
           MigrateFrom(p, after),
           UNCHANGED <<outside, recorded, applied>>, ensured' \in BOOLEAN
    PROVE  IInv'
  <1>1. PICK r \in ProcRecords : /\ proc' = [proc EXCEPT ![p] = r]
                                 /\ r.at \in {"check", "discover"}
                                 /\ ProcGood(p, r, recorded)
    BY MigrateFromGood
  <1>2. /\ configured' \in BOOLEAN /\ database' \in BOOLEAN /\ provider' \in BOOLEAN
        /\ outages' \in 0..MaxOutages /\ crashes' \in 0..MaxCrashes
    BY DEF outside, IInv, TypeOK
  <1> QED
    BY <1>1, <1>2, ProcessMoves

(* Each step of main.                                                      *)
LEMMA MainStep ==
    ASSUME IInv, NEW p \in Processes, main(p)
    PROVE  IInv'
  <1>1. /\ proc[p] \in ProcRecords /\ ProcGood(p, proc[p], recorded)
        /\ ensured \in BOOLEAN
    BY DEF IInv, TypeOK, ProcRecords
  <1>2. /\ Embeds[p] \subseteq Migrations /\ MaxTicks \in Nat
        /\ \A n \in Embeds[p] : n \in Nat /\ n # 0
    BY StartupAssumption DEF StartupAssumption
  <1>3. ASSUME outside' = outside
        PROVE  /\ configured' \in BOOLEAN /\ database' \in BOOLEAN /\ provider' \in BOOLEAN
               /\ outages' \in 0..MaxOutages /\ crashes' \in 0..MaxCrashes
    BY <1>3 DEF outside, IInv, TypeOK
  <1>4. CASE Load(p)
    <2>1. UNCHANGED <<outside, recorded, applied>> /\ ensured' \in BOOLEAN
      BY <1>1, <1>4 DEF Load, tables
    <2>2. CASE configured
      <3> DEFINE r == [proc[p] EXCEPT !.at = "wait", !.ticks = 0]
      <3>1. r \in ProcRecords /\ r.at = "wait"
        <4>1. 0 \in 0..MaxTicks /\ "wait" \in Steps
          BY <1>2 DEF Steps, Waiting
        <4> QED
          BY <1>1, <4>1 DEF ProcRecords
      <3>2. proc' = [proc EXCEPT ![p] = r]
        BY <1>4, <2>2 DEF Load
      <3>3. ProcGood(p, r, recorded)
        BY <3>1 DEF ProcGood, InMigration
      <3> HIDE DEF r
      <3> QED
        BY <1>3, <2>1, <3>1, <3>2, <3>3, ProcessMoves
    <2> QED
      BY <1>4, <2>1, <2>2, FatalStep DEF Load
  <1>5. CASE Ping(p)
    <2>1. UNCHANGED <<outside, recorded, applied>> /\ ensured' \in BOOLEAN
      BY <1>1, <1>5 DEF Ping, tables
    <2>2. PICK at \in {"ensure", "waiting"} : Goes(p, at)
      BY <1>5 DEF Ping
    <2>3. at \in Steps /\ ProcGood(p, [proc[p] EXCEPT !.at = at], recorded) /\ at # "commit"
      BY <1>1 DEF ProcGood, ProcRecords, InMigration, Steps, Waiting
    <2> QED
      BY <2>1, <2>2, <2>3, GoesStep
  <1>6. CASE WaitTick(p)
    <2>1. UNCHANGED <<outside, recorded, applied>> /\ ensured' \in BOOLEAN
      BY <1>1, <1>6 DEF WaitTick, tables
    <2>2. CASE proc[p].ticks < MaxTicks
      <3> DEFINE r == [proc[p] EXCEPT !.at = "wait", !.ticks = @ + 1]
      <3>1. r \in ProcRecords /\ r.at = "wait"
        <4>1. proc[p].ticks + 1 \in 0..MaxTicks /\ "wait" \in Steps
          BY <1>1, <1>2, <2>2 DEF Steps, Waiting, ProcRecords
        <4> QED
          BY <1>1, <4>1 DEF ProcRecords
      <3>2. proc' = [proc EXCEPT ![p] = r]
        BY <1>6, <2>2 DEF WaitTick
      <3>3. ProcGood(p, r, recorded)
        BY <3>1 DEF ProcGood, InMigration
      <3> HIDE DEF r
      <3> QED
        BY <1>3, <2>1, <3>1, <3>2, <3>3, ProcessMoves
    <2> QED
      BY <1>6, <2>1, <2>2, FatalStep DEF WaitTick
  <1>7. CASE EnsureLooks(p)
    <2>1. UNCHANGED <<outside, recorded, applied>> /\ ensured' \in BOOLEAN
      BY <1>1, <1>7 DEF EnsureLooks, tables
    <2>2. CASE ensured
      <3>1. \A n \in Embeds[p] : n <= NoMigration => n \in recorded
        BY <1>2 DEF NoMigration
      <3> QED
        BY <1>7, <2>1, <2>2, <3>1, MigrateFromStep DEF EnsureLooks
    <2>3. CASE ~ensured
      <3>1. "create" \in Steps /\ ProcGood(p, [proc[p] EXCEPT !.at = "create"], recorded)
        BY <1>1 DEF ProcGood, ProcRecords, InMigration, Steps
      <3> QED
        BY <1>7, <2>1, <2>3, <3>1, GoesStep DEF EnsureLooks
    <2> QED
      BY <2>2, <2>3
  <1>8. CASE EnsureCreates(p)
    <2>1. UNCHANGED <<outside, recorded, applied>> /\ ensured' \in BOOLEAN
      BY <1>8 DEF EnsureCreates
    <2>2. \A n \in Embeds[p] : n <= NoMigration => n \in recorded
      BY <1>2 DEF NoMigration
    <2> QED
      BY <1>8, <2>1, <2>2, FatalStep, MigrateFromStep DEF EnsureCreates
  <1>9. CASE Check(p)
    <2>1. UNCHANGED <<outside, recorded, applied>> /\ ensured' \in BOOLEAN
      BY <1>1, <1>9 DEF Check, tables
    <2>2. PICK at \in {"skip", "apply"} : Goes(p, at) /\ (at = "skip" => proc[p].m \in recorded)
      BY <1>9 DEF Check
    <2>3. at \in Steps /\ at # "commit"
      BY DEF Steps, InMigration
    <2>4. ProcGood(p, [proc[p] EXCEPT !.at = at], recorded)
      BY <1>1, <1>9, <2>2 DEF Check, ProcGood, ProcRecords, InMigration
    <2> QED
      BY <2>1, <2>2, <2>3, <2>4, GoesStep
  <1>10. CASE CommitSkipped(p)
    <2>1. UNCHANGED <<outside, recorded, applied>> /\ ensured' \in BOOLEAN
      BY <1>1, <1>10 DEF CommitSkipped, tables
    <2>2. proc[p].m \in Embeds[p] /\ proc[p].m \in recorded
          /\ \A n \in Embeds[p] : n < proc[p].m => n \in recorded
      BY <1>1, <1>2, <1>10 DEF CommitSkipped, ProcGood, InMigration
    <2>3. \A n \in Embeds[p] : n <= proc[p].m => n \in recorded
      <3>1. \A n \in Embeds[p] : n <= proc[p].m => n < proc[p].m \/ n = proc[p].m
        BY <1>2, <2>2
      <3> QED
        BY <2>2, <3>1
    <2>4. proc[p].m \in Migrations \cup {NoMigration} /\ MigrateFrom(p, proc[p].m)
      BY <1>2, <1>10, <2>2 DEF CommitSkipped
    <2> QED
      BY <2>1, <2>2, <2>3, <2>4, MigrateFromStep
  <1>11. CASE Apply(p)
    <2>1. UNCHANGED <<outside, recorded, applied>> /\ ensured' \in BOOLEAN
      BY <1>1, <1>11 DEF Apply, tables
    <2>2. "record" \in Steps /\ ProcGood(p, [proc[p] EXCEPT !.at = "record"], recorded)
      BY <1>1, <1>11 DEF Apply, ProcGood, ProcRecords, InMigration, Steps
    <2>3. Goes(p, "record") \/ Fatal(p)
      BY <1>11 DEF Apply
    <2> QED
      BY <2>1, <2>2, <2>3, GoesStep, FatalStep
  <1>12. CASE Record(p)
    <2>1. UNCHANGED <<outside, recorded, applied>> /\ ensured' \in BOOLEAN
      BY <1>1, <1>12 DEF Record, tables
    <2>2. CASE proc[p].m \notin recorded
      <3>1. "commit" \in Steps /\ ProcGood(p, [proc[p] EXCEPT !.at = "commit"], recorded)
        BY <1>1, <1>12, <2>2 DEF Record, ProcGood, ProcRecords, InMigration, Steps
      <3> QED
        BY <1>12, <2>1, <2>2, <3>1, GoesStep DEF Record
    <2> QED
      BY <1>12, <2>1, <2>2, FatalStep DEF Record
  <1>13. CASE Discover(p)
    <2>1. UNCHANGED <<outside, recorded, applied>> /\ ensured' \in BOOLEAN
      BY <1>1, <1>13 DEF Discover, tables
    <2>2. provider \in BOOLEAN
      BY DEF IInv, TypeOK
    <2> DEFINE at == IF provider THEN "serve" ELSE "pausing"
               r == [proc[p] EXCEPT !.at = at, !.client = provider]
    <2>3. r \in ProcRecords /\ r.at = at /\ r.client = provider
      <3>1. at \in Steps
        BY DEF Steps, Waiting
      <3> QED
        BY <1>1, <2>2, <3>1 DEF ProcRecords
    <2>4. ProcGood(p, r, recorded) /\ r.at # "commit"
      BY <1>1, <1>13, <2>3 DEF Discover, ProcGood, InMigration
    <2>5. proc' = [proc EXCEPT ![p] = r]
      BY <1>13 DEF Discover
    <2> HIDE DEF r
    <2> QED
      BY <1>3, <2>1, <2>3, <2>4, <2>5, ProcessMoves
  <1>14. CASE Pause(p)
    <2>1. UNCHANGED <<outside, recorded, applied>> /\ ensured' \in BOOLEAN
      BY <1>1, <1>14 DEF Pause, tables
    <2>2. CASE proc[p].ticks < MaxTicks
      <3> DEFINE r == [proc[p] EXCEPT !.at = "discover", !.ticks = @ + 1]
      <3>1. r \in ProcRecords /\ r.at = "discover"
        <4>1. proc[p].ticks + 1 \in 0..MaxTicks /\ "discover" \in Steps
          BY <1>1, <1>2, <2>2 DEF Steps, Waiting, ProcRecords
        <4> QED
          BY <1>1, <4>1 DEF ProcRecords
      <3>2. proc' = [proc EXCEPT ![p] = r]
        BY <1>14, <2>2 DEF Pause
      <3>3. ProcGood(p, r, recorded)
        BY <1>1, <1>14, <3>1 DEF Pause, ProcGood, InMigration
      <3> HIDE DEF r
      <3> QED
        BY <1>3, <2>1, <3>1, <3>2, <3>3, ProcessMoves
    <2> QED
      BY <1>14, <2>1, <2>2, FatalStep DEF Pause
  <1> QED
    BY <1>4, <1>5, <1>6, <1>7, <1>8, <1>9, <1>10, <1>11, <1>12, <1>13, <1>14, CommitStep DEF main

(* What is around the processes.                                           *)
LEMMA StartStep ==
    ASSUME IInv, NEW p \in Processes, Start(p) \/ Crash(p)
    PROVE  IInv'
  <1>1. /\ Down \in ProcRecords /\ [Down EXCEPT !.at = "load"] \in ProcRecords
        /\ \A r \in {Down, [Down EXCEPT !.at = "load"]} :
              ProcGood(p, r, recorded) /\ r.at # "commit"
    <2>1. 0 \in 0..MaxTicks /\ "down" \in Steps /\ "load" \in Steps
      BY StartupAssumption DEF StartupAssumption, Steps, Ended
    <2>2. Down \in ProcRecords
      BY <2>1 DEF Down, ProcRecords
    <2>3. [Down EXCEPT !.at = "load"] \in ProcRecords
      BY <2>1, <2>2 DEF ProcRecords
    <2> QED
      BY <2>2, <2>3 DEF Down, ProcGood, InMigration
  <1>2. CASE Start(p)
    <2>1. /\ configured' \in BOOLEAN /\ database' \in BOOLEAN /\ provider' \in BOOLEAN
          /\ outages' \in 0..MaxOutages /\ crashes' \in 0..MaxCrashes
          /\ UNCHANGED <<recorded, applied>> /\ ensured' \in BOOLEAN
      BY <1>2 DEF Start, tables, outside, IInv, TypeOK
    <2>2. proc' = [proc EXCEPT ![p] = [Down EXCEPT !.at = "load"]]
      BY <1>2 DEF Start
    <2> QED
      BY <1>1, <2>1, <2>2, ProcessMoves
  <1>3. CASE Crash(p)
    <2>1. /\ configured' \in BOOLEAN /\ database' \in BOOLEAN /\ provider' \in BOOLEAN
          /\ outages' \in 0..MaxOutages
          /\ UNCHANGED <<recorded, applied>> /\ ensured' \in BOOLEAN
      BY <1>3 DEF Crash, tables, IInv, TypeOK
    <2>2. crashes' \in 0..MaxCrashes
      BY <1>3, StartupAssumption DEF StartupAssumption, Crash, IInv, TypeOK
    <2>3. proc' = [proc EXCEPT ![p] = Down]
      BY <1>3 DEF Crash
    <2> QED
      BY <1>1, <2>1, <2>2, <2>3, ProcessMoves
  <1> QED
    BY <1>2, <1>3

(* An outage ends the processes that use the database, wherever they are.  *)
LEMMA OutageStep ==
    ASSUME IInv, DatabaseDown \/ ProviderDown \/ Repair
    PROVE  IInv'
  <1>1. CASE DatabaseDown
    <2>1. proc \in [Processes -> ProcRecords]
      BY DEF IInv, TypeOK, ProcRecords
    <2>2. ASSUME NEW q \in Processes
          PROVE  /\ proc'[q] \in ProcRecords
                 /\ proc'[q] = proc[q] \/ proc'[q].at = "fatal"
      <3>1. "fatal" \in Steps
        BY DEF Steps, Ended
      <3> QED
        BY <1>1, <2>1, <3>1 DEF DatabaseDown, ProcRecords
    <2>3. proc' \in [Processes -> ProcRecords]
      <3>1. \A q \in Processes : proc'[q] \in ProcRecords
        BY <2>2
      <3> QED
        BY <1>1, <3>1 DEF DatabaseDown
    <2>4. \A q \in Processes : ProcGood(q, proc'[q], recorded')
      BY <1>1, <2>2 DEF DatabaseDown, tables, IInv, ProcGood, InMigration
    <2>5. outages' \in 0..MaxOutages
      BY <1>1, StartupAssumption DEF StartupAssumption, DatabaseDown, IInv, TypeOK
    <2>6. TypeOK'
      BY <1>1, <2>3, <2>4, <2>5 DEF DatabaseDown, tables, IInv, TypeOK, ProcRecords, ProcGood
    <2>7. OneInserts'
      BY <2>2 DEF IInv, OneInserts
    <2> QED
      BY <1>1, <2>4, <2>6, <2>7 DEF DatabaseDown, tables, IInv, AppliedAsRecorded
  <1>2. CASE ProviderDown \/ Repair
    <2>1. UNCHANGED <<tables, proc, crashes>>
      BY <1>2 DEF ProviderDown, Repair, tables
    <2>2. outages' \in 0..MaxOutages
      BY <1>2, StartupAssumption DEF StartupAssumption, ProviderDown, Repair, IInv, TypeOK
    <2>3. configured' \in BOOLEAN /\ database' \in BOOLEAN /\ provider' \in BOOLEAN
      BY <1>2 DEF ProviderDown, Repair, IInv, TypeOK
    <2> QED
      BY <2>1, <2>2, <2>3 DEF tables, IInv, TypeOK, AppliedAsRecorded, OneInserts
  <1> QED
    BY <1>1, <1>2

(* Every step of any process, and of what is around them.                  *)
LEMMA StepIInv == IInv /\ [Next]_vars => IInv'
  <1> SUFFICES ASSUME IInv, [Next]_vars PROVE IInv'
    OBVIOUS
  <1>1. CASE UNCHANGED vars
    BY <1>1 DEF vars, outside, tables, IInv, TypeOK, AppliedAsRecorded, OneInserts
  <1>2. CASE Next
    BY <1>2, MainStep, StartStep, OutageStep DEF Next
  <1> QED
    BY <1>1, <1>2
-----------------------------------------------------------------------------
(* The strengthened invariant.                                             *)
THEOREM Invariance == Spec => []IInv
  BY InitIInv, StepIInv, PTL DEF Spec

(* Type correctness.                                                       *)
THEOREM TypeCorrect == Spec => []TypeOK
  <1>1. IInv => TypeOK
    BY DEF IInv
  <1> QED
    BY <1>1, Invariance, PTL

(* No migration is committed twice, by however many processes.             *)
THEOREM MigrationsAppliedOnce == Spec => []AppliedOnce
  <1>1. IInv => AppliedOnce
    BY DEF IInv, AppliedAsRecorded, AppliedOnce
  <1> QED
    BY <1>1, Invariance, PTL

(* The record and the content of a migration come together.                *)
THEOREM RecordMatchesContent == Spec => []RecordedIffApplied
  <1>1. IInv => RecordedIffApplied
    BY DEF IInv, AppliedAsRecorded, RecordedIffApplied
  <1> QED
    BY <1>1, Invariance, PTL

(* Nobody serves before its migrations are applied and it has a client.    *)
THEOREM ReadyBeforeServing == Spec => []ServesWhenReady
  <1>1. IInv => ServesWhenReady
    BY DEF IInv, ProcGood, ServesWhenReady
  <1> QED
    BY <1>1, Invariance, PTL

(* Migrations are applied in the order of their names.                     *)
THEOREM OrderOfMigrations == Spec => AppliedInOrder
  <1>1. ASSUME IInv, [Next]_vars, NEW m \in Migrations, applied'[m] # applied[m]
        PROVE  \E p \in Processes : m \in Embeds[p] /\ \A n \in Embeds[p] : n < m => n \in recorded
    <2>1. PICK p \in Processes : Commit(p)
      <3>1. applied' # applied
        BY <1>1
      <3> QED
        BY <1>1, <3>1 DEF Next, vars, tables, main, Load, Ping, WaitTick, EnsureLooks,
             EnsureCreates, Check, CommitSkipped, Apply, Record, Discover, Pause, Start, Crash,
             DatabaseDown, ProviderDown, Repair
    <2>2. proc[p].at = "commit" /\ applied' = [applied EXCEPT ![proc[p].m] = @ + 1]
      BY <2>1 DEF Commit
    <2>3. m = proc[p].m
      BY <1>1, <2>2 DEF IInv, TypeOK
    <2> QED
      BY <1>1, <2>2, <2>3 DEF IInv, ProcGood, InMigration
  <1>2. IInv /\ [Next]_vars =>
          [\A m \in Migrations : applied'[m] # applied[m] =>
              \E p \in Processes : m \in Embeds[p]
                                   /\ \A n \in Embeds[p] : n < m => n \in recorded]_vars
    BY <1>1
  <1> QED
    BY <1>2, Invariance, PTL DEF Spec, AppliedInOrder
=============================================================================
