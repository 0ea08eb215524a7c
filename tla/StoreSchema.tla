----------------------------- MODULE StoreSchema -----------------------------
(***************************************************************************)
(* Opening one SQLite file from several processes (supra_store).  The core *)
(* schema keeps its version in user_version, every other owner of tables   *)
(* keeps one row in schema_component.  Both move through a dense list of   *)
(* steps; a step's DDL and its version bump share one IMMEDIATE            *)
(* transaction, so Apply is one action.  Processes may run builds that     *)
(* know different numbers of steps, and may die anywhere.                  *)
(***************************************************************************)
EXTENDS Naturals, Sequences

CONSTANTS
  Openers,   \* processes that open the file
  Latest     \* Latest[p][o]: the last step process p's build knows for owner o

Owners == {"core", "component"}

ASSUME LatestAssumption ==
  Latest \in [Openers -> [Owners -> Nat \ {0}]]

VARIABLES
  version,   \* the recorded version of each owner
  ddl,       \* history: the steps whose DDL was committed, in order
  opener     \* per process: phase, the owner it migrates, the next step

schemaVars == <<version, ddl, opener>>

ClosedOpener == [phase |-> "closed", owner |-> "core", step |-> 0]

SchemaTypeOK ==
  /\ version \in [Owners -> Nat]
  /\ ddl \in [Owners -> Seq(Nat)]
  /\ opener \in [Openers -> [phase : {"closed", "reading", "migrating", "open", "ready", "refused"},
                             owner : Owners, step : Nat]]

SchemaInit ==
  /\ version = [o \in Owners |-> 0]
  /\ ddl = [o \in Owners |-> <<>>]
  /\ opener = [p \in Openers |-> ClosedOpener]

\* Store::open_with up to the call of migrate: directory, connection, pragmas.
open_with(p) ==
  /\ opener[p].phase = "closed"
  /\ opener' = [opener EXCEPT ![p] = [phase |-> "reading", owner |-> "core", step |-> 0]]
  /\ UNCHANGED <<version, ddl>>

\* Store::migrate_component on an opened store.
migrate_component(p) ==
  /\ opener[p].phase = "open"
  /\ opener' = [opener EXCEPT ![p] = [phase |-> "reading", owner |-> "component", step |-> 0]]
  /\ UNCHANGED <<version, ddl>>

\* The version read that decides whether the file is too new for this build.
\* A component's version is unreadable before the core step that creates its table.
Readable(o) == o = "component" => version["core"] >= 2

ReadVersion(p) ==
  LET o == opener[p].owner IN
  /\ opener[p].phase = "reading"
  /\ opener' = [opener EXCEPT ![p].phase =
                  IF Readable(o) /\ version[o] <= Latest[p][o] THEN "migrating" ELSE "refused",
                ![p].step = 1]
  /\ UNCHANGED <<version, ddl>>

Commit(o, n) ==
  /\ version' = [version EXCEPT ![o] = n]
  /\ ddl' = [ddl EXCEPT ![o] = Append(@, n)]

\* Fault: the step trusts the version read before the lock was taken.
Apply_Stale(p) ==
  LET o == opener[p].owner
      n == opener[p].step IN
  /\ opener[p].phase = "migrating"
  /\ n <= Latest[p][o]
  /\ Commit(o, n)
  /\ opener' = [opener EXCEPT ![p].step = n + 1]

\* apply_once and apply_component: under the write lock the version is read
\* again, and a step someone else has committed is skipped.
Apply(p) ==
  LET o == opener[p].owner
      n == opener[p].step IN
  /\ opener[p].phase = "migrating"
  /\ n <= Latest[p][o]
  /\ \/ /\ version[o] >= n
        /\ UNCHANGED <<version, ddl>>
     \/ /\ version[o] < n
        /\ Commit(o, n)
  /\ opener' = [opener EXCEPT ![p].step = n + 1]

\* A step that fails rolls back and open returns Migrate or ComponentMigrate.
ApplyFails(p) ==
  /\ opener[p].phase = "migrating"
  /\ opener[p].step <= Latest[p][opener[p].owner]
  /\ opener' = [opener EXCEPT ![p].phase = "refused"]
  /\ UNCHANGED <<version, ddl>>

\* The loop is over: the store is open (its files made private), or the component is ready.
Migrated(p) ==
  /\ opener[p].phase = "migrating"
  /\ opener[p].step > Latest[p][opener[p].owner]
  /\ opener' = [opener EXCEPT ![p].phase =
                  IF opener[p].owner = "core" THEN "open" ELSE "ready"]
  /\ UNCHANGED <<version, ddl>>

\* The process ends or dies; an open transaction rolls back.
OpenerExits(p) ==
  /\ opener[p].phase # "closed"
  /\ opener' = [opener EXCEPT ![p] = ClosedOpener]
  /\ UNCHANGED <<version, ddl>>

SchemaNext ==
  \E p \in Openers :
    \/ open_with(p)
    \/ migrate_component(p)
    \/ ReadVersion(p)
    \/ Apply(p)
    \/ ApplyFails(p)
    \/ Migrated(p)
    \/ OpenerExits(p)

SchemaSpec == SchemaInit /\ [][SchemaNext]_schemaVars

-----------------------------------------------------------------------------
\* Every committed step ran once and in order, whoever ran it.
StepsOnce ==
  \A o \in Owners : ddl[o] = [i \in 1..version[o] |-> i]

\* A process that was told its store, or its component, is open finds every
\* table its build knows.
OpenedUpToDate ==
  \A p \in Openers :
    /\ opener[p].phase \in {"open", "ready"} => version["core"] >= Latest[p]["core"]
    /\ opener[p].phase = "ready" => version["component"] >= Latest[p]["component"]

\* migrate and migrate_component, with racing openers of different builds that
\* may fail or die between steps: no DDL is applied twice or skipped, and success
\* means the tables are there.
SchemaSound == StepsOnce /\ OpenedUpToDate
=============================================================================
