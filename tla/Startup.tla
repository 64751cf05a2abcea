------------------------------- MODULE Startup -------------------------------
(***************************************************************************)
(* cmd/shiroyagi/main.go up to ListenAndServe: configuration, db.Wait,     *)
(* db.Migrate and OIDC discovery, by several processes of older and newer  *)
(* binaries on one database, which may be started at the same time, end at *)
(* any step, and find the database or the provider down.                   *)
(*                                                                         *)
(* PostgreSQL is external: transactions are atomic and read what is        *)
(* committed, an INSERT of a primary key waits for a transaction that has  *)
(* inserted the same key, and so does a CREATE TABLE.                      *)
(***************************************************************************)
EXTENDS Naturals, FiniteSets

CONSTANTS
    Processes,
    Migrations,     \* names of migration files, as numbers in their order
    Embeds,         \* process -> migrations its binary embeds
    Ddl,            \* migrations whose content fails when it is already there
    MaxTicks,       \* bound: retries until the deadline (60 and 120 in the code)
    MaxOutages,     \* bound: times that the database or the provider goes down
    MaxCrashes      \* bound: processes that end by themselves

VARIABLES
    configured,     \* the environment and the secret files of the deployment are complete
    database,       \* PostgreSQL is up
    provider,       \* the OIDC provider is up
    outages, crashes,
    ensured,        \* the table schema_migrations exists
    recorded,       \* its rows: migrations recorded as applied
    applied,        \* migration -> how many times its content was committed (history)
    proc            \* process -> the step of main it is about to take

tables == <<ensured, recorded, applied>>
outside == <<configured, database, provider, outages, crashes>>
vars == <<outside, tables, proc>>

StartupAssumption ==
    /\ Migrations \subseteq Nat \ {0}
    /\ Embeds \in [Processes -> SUBSET Migrations]
    /\ Ddl \subseteq Migrations
    /\ MaxTicks \in Nat /\ MaxOutages \in Nat /\ MaxCrashes \in Nat
ASSUME StartupAssumption

Ended == {"down", "fatal"}
InMigration == {"check", "skip", "apply", "record", "commit"}
Waiting == {"wait", "waiting", "discover", "pausing"}
Steps == Ended \cup InMigration \cup Waiting \cup {"load", "ensure", "create", "serve"}

NoMigration == 0
Down == [at |-> "down", m |-> NoMigration, ticks |-> 0, client |-> FALSE]

(* What is outside, the tables, and where each process is in main.         *)
TypeOK ==
    /\ configured \in BOOLEAN /\ database \in BOOLEAN /\ provider \in BOOLEAN
    /\ outages \in 0..MaxOutages /\ crashes \in 0..MaxCrashes
    /\ ensured \in BOOLEAN
    /\ recorded \subseteq Migrations
    /\ applied \in [Migrations -> Nat]
    /\ proc \in [Processes -> [at : Steps, m : Migrations \cup {NoMigration},
                               ticks : 0..MaxTicks, client : BOOLEAN]]
    /\ \A p \in Processes : proc[p].at \in InMigration => proc[p].m \in Embeds[p]

Init ==
    /\ configured \in BOOLEAN /\ database \in BOOLEAN /\ provider \in BOOLEAN
    /\ outages = 0 /\ crashes = 0
    /\ ensured = FALSE /\ recorded = {}
    /\ applied = [m \in Migrations |-> 0]
    /\ proc = [p \in Processes |-> Down]

Goes(p, at) == proc' = [proc EXCEPT ![p].at = at]

\* log.Fatalf: the process ends, and an open transaction with it.
Fatal(p) == Goes(p, "fatal")
-----------------------------------------------------------------------------
(* main.                                                                   *)

\* config.Load, then db.Open, which does not connect.
Load(p) ==
    /\ proc[p].at = "load"
    /\ IF configured THEN proc' = [proc EXCEPT ![p].at = "wait", ![p].ticks = 0] ELSE Fatal(p)
    /\ UNCHANGED <<outside, tables>>

\* db.Wait: a ping; a failed one is tried again at the next tick or ends at the deadline.
Ping(p) ==
    /\ proc[p].at = "wait"
    /\ Goes(p, IF database THEN "ensure" ELSE "waiting")
    /\ UNCHANGED <<outside, tables>>

\* A mutant: one attempt after the deadline.
WaitTickLate(p) ==
    /\ proc[p].at = "waiting"
    /\ IF proc[p].ticks <= MaxTicks
       THEN proc' = [proc EXCEPT ![p].at = "wait", ![p].ticks = @ + 1]
       ELSE Fatal(p)
    /\ UNCHANGED <<outside, tables>>

WaitTick(p) ==
    /\ proc[p].at = "waiting"
    /\ IF proc[p].ticks < MaxTicks
       THEN proc' = [proc EXCEPT ![p].at = "wait", ![p].ticks = @ + 1]
       ELSE Fatal(p)
    /\ UNCHANGED <<outside, tables>>

Left(p, after) == {m \in Embeds[p] : m > after}

\* A mutant: the names are not sorted.
MigrateFromAny(p, after) ==
    IF Left(p, after) = {}
    THEN proc' = [proc EXCEPT ![p].at = "discover", ![p].m = NoMigration, ![p].ticks = 0]
    ELSE \E m \in Left(p, after) : proc' = [proc EXCEPT ![p].at = "check", ![p].m = m]

\* The next migration in the order of the names, or on to discovery.
MigrateFrom(p, after) ==
    IF Left(p, after) = {}
    THEN proc' = [proc EXCEPT ![p].at = "discover", ![p].m = NoMigration, ![p].ticks = 0]
    ELSE \E m \in Left(p, after) :
            /\ \A n \in Left(p, after) : m <= n
            /\ proc' = [proc EXCEPT ![p].at = "check", ![p].m = m]

\* A mutant: CREATE TABLE without IF NOT EXISTS.
EnsureAlwaysCreates(p) ==
    /\ proc[p].at = "ensure" /\ database
    /\ Goes(p, "create")
    /\ UNCHANGED <<outside, tables>>

\* CREATE TABLE IF NOT EXISTS: looking and creating are two steps, and PostgreSQL
\* refuses the second of two creations of one name that have both looked.
EnsureLooks(p) ==
    /\ proc[p].at = "ensure" /\ database
    /\ IF ensured THEN MigrateFrom(p, NoMigration) ELSE Goes(p, "create")
    /\ UNCHANGED <<outside, tables>>

EnsureCreates(p) ==
    /\ proc[p].at = "create" /\ database
    /\ IF ensured THEN Fatal(p) ELSE MigrateFrom(p, NoMigration)
    /\ ensured' = TRUE
    /\ UNCHANGED <<outside, recorded, applied>>

\* applyMigration: begin, and look the version up.
Check(p) ==
    /\ proc[p].at = "check" /\ database
    /\ Goes(p, IF proc[p].m \in recorded THEN "skip" ELSE "apply")
    /\ UNCHANGED <<outside, tables>>

CommitSkipped(p) ==
    /\ proc[p].at = "skip" /\ database
    /\ MigrateFrom(p, proc[p].m)
    /\ UNCHANGED <<outside, tables>>

\* Processes whose open transaction has the content (the row) of m.
HaveApplied(m) == {q \in Processes : proc[q].at \in {"record", "commit"} /\ proc[q].m = m}
HaveInserted(m) == {q \in Processes : proc[q].at = "commit" /\ proc[q].m = m}

\* A mutant: the content is executed on the database instead of the transaction.
ApplyOutside(p) ==
    LET m == proc[p].m
    IN  /\ proc[p].at = "apply" /\ database
        /\ applied' = [applied EXCEPT ![m] = @ + 1]
        /\ Goes(p, "record")
        /\ UNCHANGED <<outside, ensured, recorded>>

\* The content of the migration, in the transaction.
Apply(p) ==
    LET m == proc[p].m
    IN  /\ proc[p].at = "apply" /\ database
        /\ m \in Ddl => HaveApplied(m) = {}
        /\ IF m \in Ddl /\ applied[m] > 0 THEN Fatal(p) ELSE Goes(p, "record")
        /\ UNCHANGED <<outside, tables>>

\* A mutant: schema_migrations without its primary key.
RecordWithoutKey(p) ==
    /\ proc[p].at = "record" /\ database
    /\ Goes(p, "commit")
    /\ UNCHANGED <<outside, tables>>

\* INSERT INTO schema_migrations, under its primary key.
Record(p) ==
    /\ proc[p].at = "record" /\ database
    /\ HaveInserted(proc[p].m) = {}
    /\ IF proc[p].m \in recorded THEN Fatal(p) ELSE Goes(p, "commit")
    /\ UNCHANGED <<outside, tables>>

Commit(p) ==
    LET m == proc[p].m
    IN  /\ proc[p].at = "commit" /\ database
        /\ recorded' = recorded \cup {m}
        /\ applied' = [applied EXCEPT ![m] = @ + 1]
        /\ MigrateFrom(p, m)
        /\ UNCHANGED <<outside, ensured>>

\* NewClientWithRetry: discovery, then a pause of a second or the deadline.
Discover(p) ==
    /\ proc[p].at = "discover"
    /\ proc' = [proc EXCEPT ![p].at = IF provider THEN "serve" ELSE "pausing",
                            ![p].client = provider]
    /\ UNCHANGED <<outside, tables>>

\* A mutant: at the deadline the last client is returned without the error.
PauseEndsInNil(p) ==
    /\ proc[p].at = "pausing"
    /\ IF proc[p].ticks < MaxTicks
       THEN proc' = [proc EXCEPT ![p].at = "discover", ![p].ticks = @ + 1]
       ELSE Goes(p, "serve")
    /\ UNCHANGED <<outside, tables>>

Pause(p) ==
    /\ proc[p].at = "pausing"
    /\ IF proc[p].ticks < MaxTicks
       THEN proc' = [proc EXCEPT ![p].at = "discover", ![p].ticks = @ + 1]
       ELSE Fatal(p)
    /\ UNCHANGED <<outside, tables>>

main(p) ==
    \/ Load(p) \/ Ping(p) \/ WaitTick(p) \/ EnsureLooks(p) \/ EnsureCreates(p)
    \/ Check(p) \/ CommitSkipped(p) \/ Apply(p) \/ Record(p) \/ Commit(p)
    \/ Discover(p) \/ Pause(p)
-----------------------------------------------------------------------------
(* Around the processes.                                                   *)

\* The operator or a supervisor starts the process; compose.yaml has no restart policy.
Start(p) ==
    /\ proc[p].at \in Ended
    /\ proc' = [proc EXCEPT ![p] = [Down EXCEPT !.at = "load"]]
    /\ UNCHANGED <<outside, tables>>

Crash(p) ==
    /\ proc[p].at \notin Ended /\ crashes < MaxCrashes
    /\ crashes' = crashes + 1
    /\ proc' = [proc EXCEPT ![p] = Down]
    /\ UNCHANGED <<configured, database, provider, outages, tables>>

\* Queries that are under way fail, and the processes that wait for them end.
DatabaseDown ==
    /\ database /\ outages < MaxOutages
    /\ database' = FALSE /\ outages' = outages + 1
    /\ proc' = [p \in Processes |->
                  IF proc[p].at \in InMigration \cup {"ensure", "create"}
                  THEN [proc[p] EXCEPT !.at = "fatal"] ELSE proc[p]]
    /\ UNCHANGED <<configured, provider, crashes, tables>>

ProviderDown ==
    /\ provider /\ outages < MaxOutages
    /\ provider' = FALSE /\ outages' = outages + 1
    /\ UNCHANGED <<configured, database, crashes, tables, proc>>

Repair ==
    /\ ~(configured /\ database /\ provider)
    /\ configured' = TRUE /\ database' = TRUE /\ provider' = TRUE
    /\ UNCHANGED <<outages, crashes, tables, proc>>

Next ==
    \/ \E p \in Processes : main(p) \/ Start(p) \/ Crash(p)
    \/ DatabaseDown \/ ProviderDown \/ Repair

\* main runs on unless it waits for a lock, ended processes are started again, and what
\* is down or missing is repaired.
Fairness == WF_vars(Repair) /\ \A p \in Processes : WF_vars(main(p)) /\ WF_vars(Start(p))

Spec == Init /\ [][Next]_vars /\ Fairness
-----------------------------------------------------------------------------
(* docs/database.md:13-18: a migration is never committed twice, however   *)
(* many processes find it not applied and whichever of them ends when.     *)
AppliedOnce == \A m \in Migrations : applied[m] <= 1

(* A migration is recorded exactly when its content is there: no crash     *)
(* leaves one without the other.                                           *)
RecordedIffApplied == \A m \in Migrations : m \in recorded <=> applied[m] > 0

(* Requests are served only when every migration of the binary is applied  *)
(* and discovery gave a client, whatever the deadlines were.               *)
ServesWhenReady ==
    \A p \in Processes : proc[p].at = "serve" => Embeds[p] \subseteq recorded /\ proc[p].client

(* The content of a migration is committed by a binary that embeds it, on  *)
(* top of all that this binary embeds with smaller names.                  *)
AppliedInOrder ==
    [][\A m \in Migrations : applied'[m] # applied[m] =>
          \E p \in Processes : m \in Embeds[p] /\ \A n \in Embeds[p] : n < m => n \in recorded]_vars

(* With outages and crashes that end, every process comes to serve for     *)
(* good, although one may lose the race for a migration and has to be      *)
(* started again.                                                          *)
EventuallyServes == <>[](\A p \in Processes : proc[p].at = "serve")
=============================================================================
