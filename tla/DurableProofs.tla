---------------------------- MODULE DurableProofs ----------------------------
(***************************************************************************)
(* What TLAPS proves of what the program keeps, for any processes and any  *)
(* bounds, component by component: the database schema, the edit journal,  *)
(* a session's file, the secrets, the installed program, the log and the   *)
(* conversation.  At the end, that all of it holds of the program whole.   *)
(***************************************************************************)
EXTENDS MCDurable, WellFoundedInduction, FiniteSetTheorems, SequenceTheorems, TLAPS

-----------------------------------------------------------------------------
(***************************************************************************)
(* The database schema.                                                    *)
(***************************************************************************)
\* An opener is at most one step ahead of the version it migrates, and it turns
\* to its component only once the core is up to date.
OpenersOK ==
  \A p \in Openers :
    /\ opener[p].phase = "migrating" =>
         /\ opener[p].step >= 1
         /\ opener[p].step <= version[opener[p].owner] + 1
    /\ opener[p].phase = "open" => opener[p].owner = "core"
    /\ opener[p].phase = "ready" => opener[p].owner = "component"
    /\ opener[p].phase \in {"reading", "migrating"} /\ opener[p].owner = "component"
       => version["core"] >= Latest[p]["core"]

\* The inductive invariant of opening and migrating.
SchemaInv == SchemaTypeOK /\ OpenersOK /\ SchemaSound

\* Committing step n + 1 behind the steps 1 to n leaves the steps 1 to n + 1.
LEMMA StepAppended ==
  ASSUME NEW n \in Nat
  PROVE  Append([i \in 1..n |-> i], n + 1) = [i \in 1..n + 1 |-> i]
<1> DEFINE s == [i \in 1..n |-> i]
           t == [i \in 1..n + 1 |-> i]
<1>1. s \in Seq(Nat) /\ Len(s) = n
  OBVIOUS
<1>2. t \in Seq(Nat) /\ Len(t) = n + 1
  OBVIOUS
<1>3. Append(s, n + 1) \in Seq(Nat) /\ Len(Append(s, n + 1)) = n + 1
  <2> HIDE DEF s
  <2> QED BY <1>1
<1>4. ASSUME NEW i \in 1..n + 1 PROVE Append(s, n + 1)[i] = t[i]
  <2>1. CASE i = n + 1
    <3>1. Append(s, n + 1)[i] = n + 1
      <4> HIDE DEF s
      <4> QED BY <1>1, <2>1
    <3> QED BY <3>1, <2>1
  <2>2. CASE i \in 1..n
    <3>1. Append(s, n + 1)[i] = s[i]
      <4> HIDE DEF s
      <4> QED BY <1>1, <2>2
    <3> QED BY <3>1, <2>2
  <2> QED BY <2>1, <2>2
<1> HIDE DEF s, t
<1>5. Append(s, n + 1) = t
  BY <1>2, <1>3, <1>4
<1> QED
  BY <1>5 DEF s, t

\* What an opener knows of one owner's steps is at least one.
LEMMA LatestType ==
  ASSUME NEW p \in Openers, NEW o \in Owners
  PROVE  Latest[p][o] \in Nat /\ Latest[p][o] >= 1
BY LatestAssumption DEF Owners

\* The parts of the invariant that speak of one opener.
OpenerOK(w, p, v) ==
  /\ w.phase = "migrating" => w.step >= 1 /\ w.step <= v[w.owner] + 1
  /\ w.phase = "open" => w.owner = "core"
  /\ w.phase = "ready" => w.owner = "component"
  /\ w.phase \in {"reading", "migrating"} /\ w.owner = "component"
     => v["core"] >= Latest[p]["core"]
  /\ w.phase \in {"open", "ready"} => v["core"] >= Latest[p]["core"]
  /\ w.phase = "ready" => v["component"] >= Latest[p]["component"]

\* The states of an opener.
Opener == [phase : {"closed", "reading", "migrating", "open", "ready", "refused"},
           owner : Owners, step : Nat]

\* The invariant, as the types and what it says of each opener.
LEMMA SchemaParts ==
  SchemaInv <=> /\ version \in [Owners -> Nat] /\ ddl \in [Owners -> Seq(Nat)]
                /\ opener \in [Openers -> Opener]
                /\ StepsOnce
                /\ \A p \in Openers : OpenerOK(opener[p], p, version)
BY Zenon DEF SchemaInv, SchemaTypeOK, OpenersOK, SchemaSound, OpenedUpToDate, OpenerOK, Opener

\* A step that leaves the file alone and puts one opener in a proper state.
LEMMA OpenerMoves ==
  ASSUME SchemaInv, NEW p \in Openers, NEW w \in Opener, OpenerOK(w, p, version),
         opener' = [opener EXCEPT ![p] = w], UNCHANGED <<version, ddl>>
  PROVE  SchemaInv'
<1>1. opener' \in [Openers -> Opener]
  BY SchemaParts
<1>2. StepsOnce'
  BY SchemaParts DEF StepsOnce
<1>3. ASSUME NEW q \in Openers PROVE OpenerOK(opener'[q], q, version)
  BY SchemaParts
<1>4. version' = version /\ ddl' = ddl
  OBVIOUS
<1> QED
  BY <1>1, <1>2, <1>3, <1>4, SchemaParts, Zenon
     DEF SchemaInv, SchemaTypeOK, OpenersOK, SchemaSound, OpenedUpToDate, OpenerOK, Opener

\* A committed step: the version moves by one for every opener.
LEMMA OpenerStaysOK ==
  ASSUME NEW w \in Opener, NEW p \in Openers, NEW v \in [Owners -> Nat], NEW o \in Owners,
         OpenerOK(w, p, v)
  PROVE  OpenerOK(w, p, [v EXCEPT ![o] = v[o] + 1])
<1> DEFINE u == [v EXCEPT ![o] = v[o] + 1]
<1>1. \A x \in Owners : v[x] \in Nat /\ u[x] \in Nat /\ u[x] >= v[x]
  OBVIOUS
<1>2. "core" \in Owners /\ "component" \in Owners /\ w.owner \in Owners /\ w.step \in Nat
  BY DEF Owners, Opener
<1>3. Latest[p]["core"] \in Nat /\ Latest[p]["component"] \in Nat
  BY <1>2, LatestType
<1> HIDE DEF u
<1>4. OpenerOK(w, p, u)
  BY <1>1, <1>2, <1>3 DEF OpenerOK
<1> QED
  BY <1>4 DEF u

\* Apply: the version read under the write lock decides, so a step is committed
\* exactly when it is the next one, and skipped when somebody else was faster.
LEMMA ApplyPreserves ==
  ASSUME SchemaInv, NEW p \in Openers, Apply(p)
  PROVE  SchemaInv'
<1> DEFINE o == opener[p].owner
           n == opener[p].step
           w == [opener[p] EXCEPT !.step = n + 1]
<1>1. /\ opener \in [Openers -> Opener] /\ opener[p] \in Opener
      /\ version \in [Owners -> Nat] /\ ddl \in [Owners -> Seq(Nat)]
      /\ StepsOnce
      /\ \A q \in Openers : OpenerOK(opener[q], q, version)
  BY SchemaParts
<1>2. o \in Owners /\ n \in Nat /\ w \in Opener /\ w.phase = "migrating" /\ w.owner = o
      /\ w.step = n + 1 /\ opener[p].phase = "migrating"
  <2>1. o \in Owners /\ n \in Nat /\ opener[p].phase = "migrating"
    BY <1>1 DEF Opener, Apply
  <2>2. n + 1 \in Nat
    BY <2>1
  <2> HIDE DEF n
  <2>3. w \in Opener /\ w.phase = opener[p].phase /\ w.owner = o /\ w.step = n + 1
    BY <1>1, <2>2 DEF Opener
  <2> QED BY <2>1, <2>3
<1>3. opener' = [opener EXCEPT ![p] = w]
  BY <1>1 DEF Apply, Opener
<1>4. n >= 1 /\ n <= version[o] + 1 /\ version[o] \in Nat
  BY <1>1, <1>2 DEF OpenerOK
<1>5. (o = "component" => version["core"] >= Latest[p]["core"])
  BY <1>1, <1>2 DEF OpenerOK
<1>6. CASE version[o] >= n /\ UNCHANGED <<version, ddl>>
  <2> HIDE DEF o, n, w
  <2>1. OpenerOK(w, p, version)
    BY <1>2, <1>4, <1>5, <1>6 DEF OpenerOK
  <2> QED BY <2>1, <1>2, <1>3, <1>6, OpenerMoves
<1>7. CASE version[o] < n /\ Commit(o, n)
  <2> HIDE DEF o, n, w
  <2>1. n = version[o] + 1
    BY <1>2, <1>4, <1>7
  <2>2. version' = [version EXCEPT ![o] = version[o] + 1] /\ version' \in [Owners -> Nat]
        /\ version'[o] = n /\ version'["core"] >= version["core"]
    BY <1>1, <1>2, <1>7, <2>1 DEF Commit, Owners
  <2>3. ddl' = [ddl EXCEPT ![o] = Append(ddl[o], n)] /\ ddl' \in [Owners -> Seq(Nat)]
    BY <1>1, <1>2, <1>7 DEF Commit
  <2>4. ASSUME NEW x \in Owners PROVE ddl'[x] = [i \in 1..version'[x] |-> i]
    <3>1. CASE x = o
      <4>1. ddl[o] = [i \in 1..version[o] |-> i]
        BY <1>1, <1>2 DEF StepsOnce
      <4>2. ddl'[o] = Append(ddl[o], version[o] + 1)
        BY <1>1, <1>2, <2>1, <2>3
      <4>3. Append([i \in 1..version[o] |-> i], version[o] + 1) = [i \in 1..version[o] + 1 |-> i]
        BY <1>4, StepAppended
      <4>4. version'[o] = version[o] + 1
        BY <2>1, <2>2
      <4> QED BY <3>1, <4>1, <4>2, <4>3, <4>4
    <3>2. CASE x # o
      <4>1. ddl'[x] = ddl[x] /\ version'[x] = version[x]
        BY <1>1, <1>2, <2>2, <2>3, <3>2
      <4> QED BY <4>1, <1>1 DEF StepsOnce
    <3> QED BY <3>1, <3>2
  <2>5. \A q \in Openers : OpenerOK(opener[q], q, version')
    <3> SUFFICES ASSUME NEW q \in Openers PROVE OpenerOK(opener[q], q, version')
      OBVIOUS
    <3>1. opener[q] \in Opener /\ OpenerOK(opener[q], q, version)
      BY <1>1
    <3> QED BY <3>1, <1>1, <1>2, <2>2, OpenerStaysOK
  <2>6. OpenerOK(w, p, version')
    <3>1. version["core"] \in Nat /\ version'["core"] \in Nat /\ Latest[p]["core"] \in Nat
      BY <1>1, <2>2, LatestType DEF Owners
    <3> QED BY <1>2, <1>4, <1>5, <2>1, <2>2, <3>1 DEF OpenerOK
  <2>7. \A q \in Openers : OpenerOK(opener'[q], q, version')
    BY <1>1, <1>3, <2>5, <2>6
  <2>8. opener' \in [Openers -> Opener]
    BY <1>1, <1>2, <1>3
  <2> QED
    BY <2>2, <2>3, <2>4, <2>7, <2>8, Zenon
       DEF SchemaInv, SchemaTypeOK, OpenersOK, SchemaSound, OpenedUpToDate, OpenerOK, Opener, StepsOnce
<1> QED
  BY <1>6, <1>7 DEF Apply

\* SchemaInv is an inductive invariant of opening and migrating.
THEOREM SchemaInvariant == SchemaSpec => []SchemaInv
<1>1. SchemaInit => SchemaInv
  <2> SUFFICES ASSUME SchemaInit PROVE SchemaInv
    OBVIOUS
  <2>1. version \in [Owners -> Nat] /\ opener \in [Openers -> Opener] /\ ddl \in [Owners -> Seq(Nat)]
    BY DEF SchemaInit, ClosedOpener, Opener, Owners
  <2>2. ASSUME NEW p \in Openers PROVE OpenerOK(opener[p], p, version)
    BY DEF SchemaInit, ClosedOpener, OpenerOK
  <2>3. StepsOnce
    BY DEF SchemaInit, StepsOnce
  <2> QED BY <2>1, <2>2, <2>3, SchemaParts
<1>2. SchemaInv /\ [SchemaNext]_schemaVars => SchemaInv'
  <2> SUFFICES ASSUME SchemaInv, [SchemaNext]_schemaVars PROVE SchemaInv'
    OBVIOUS
  <2>0. CASE UNCHANGED schemaVars
    BY <2>0 DEF schemaVars, SchemaInv, SchemaTypeOK, OpenersOK, SchemaSound, StepsOnce, OpenedUpToDate
  <2>1. CASE SchemaNext
    <3>1. PICK p \in Openers :
            \/ open_with(p) \/ migrate_component(p) \/ ReadVersion(p) \/ Apply(p)
            \/ ApplyFails(p) \/ Migrated(p) \/ OpenerExits(p)
      BY <2>1 DEF SchemaNext
    <3>2. /\ opener \in [Openers -> Opener] /\ opener[p] \in Opener
          /\ version \in [Owners -> Nat]
          /\ OpenerOK(opener[p], p, version)
      BY SchemaParts
    <3>3. opener[p].owner \in Owners /\ opener[p].step \in Nat
      BY <3>2 DEF Opener
    <3> DEFINE core == version["core"]
               component == version["component"]
    <3>4. core \in Nat /\ component \in Nat
      BY <3>2 DEF Owners
    <3>5. Latest[p]["core"] \in Nat /\ Latest[p]["component"] \in Nat
      BY LatestType DEF Owners
    <3>6. CASE open_with(p)
      <4> DEFINE w == [phase |-> "reading", owner |-> "core", step |-> 0]
      <4>1. w \in Opener /\ OpenerOK(w, p, version)
        BY DEF Opener, OpenerOK, Owners
      <4> QED BY <4>1, <3>6, OpenerMoves DEF open_with
    <3>7. CASE migrate_component(p)
      <4> DEFINE w == [phase |-> "reading", owner |-> "component", step |-> 0]
      <4>1. w \in Opener /\ OpenerOK(w, p, version)
        BY <3>2, <3>7 DEF Opener, OpenerOK, Owners, migrate_component
      <4> QED BY <4>1, <3>7, OpenerMoves DEF migrate_component
    <3>8. CASE ReadVersion(p)
      <4> DEFINE o == opener[p].owner
                 w == [opener[p] EXCEPT !.phase = IF Readable(o) /\ version[o] <= Latest[p][o]
                                                  THEN "migrating" ELSE "refused",
                                        !.step = 1]
      <4>1. opener' = [opener EXCEPT ![p] = w]
        BY <3>2, <3>8 DEF ReadVersion, Opener
      <4>2. w \in Opener /\ w.step = 1 /\ w.owner = o /\ w.phase \in {"migrating", "refused"}
        BY <3>2 DEF Opener
      <4>3. version[o] \in Nat
        BY <3>2, <3>3
      <4>4. o = "component" => version["core"] >= Latest[p]["core"]
        BY <3>2, <3>8 DEF ReadVersion, OpenerOK
      <4> HIDE DEF w, o
      <4>5. OpenerOK(w, p, version)
        BY <4>2, <4>3, <4>4 DEF OpenerOK
      <4> QED BY <4>1, <4>2, <4>5, <3>8, OpenerMoves DEF ReadVersion
    <3>9. CASE ApplyFails(p)
      <4> DEFINE w == [opener[p] EXCEPT !.phase = "refused"]
      <4>1. opener' = [opener EXCEPT ![p] = w]
        BY <3>2, <3>9 DEF ApplyFails, Opener
      <4>2. w \in Opener /\ OpenerOK(w, p, version)
        BY <3>2 DEF Opener, OpenerOK
      <4> QED BY <4>1, <4>2, <3>9, OpenerMoves DEF ApplyFails
    <3>10. CASE Migrated(p)
      <4> DEFINE o == opener[p].owner
                 w == [opener[p] EXCEPT !.phase = IF o = "core" THEN "open" ELSE "ready"]
      <4>1. opener' = [opener EXCEPT ![p] = w]
        BY <3>2, <3>10 DEF Migrated, Opener
      <4>2. w \in Opener /\ w.owner = o /\ w.phase = (IF o = "core" THEN "open" ELSE "ready")
        BY <3>2 DEF Opener
      <4>3. o \in {"core", "component"}
        BY <3>3 DEF Owners
      <4>4. opener[p].step <= version[o] + 1 /\ opener[p].step > Latest[p][o]
        BY <3>2, <3>10 DEF Migrated, OpenerOK
      <4>5. version[o] \in Nat /\ Latest[p][o] \in Nat
        BY <3>2, <3>3, LatestType
      <4>6. version[o] >= Latest[p][o]
        BY <4>4, <4>5, <3>3
      <4>7. o = "component" => version["core"] >= Latest[p]["core"]
        BY <3>2, <3>10 DEF Migrated, OpenerOK
      <4> HIDE DEF w, o
      <4>8. OpenerOK(w, p, version)
        BY <4>2, <4>3, <4>6, <4>7 DEF OpenerOK
      <4> QED BY <4>1, <4>2, <4>8, <3>10, OpenerMoves DEF Migrated
    <3>11. CASE OpenerExits(p)
      <4>1. ClosedOpener \in Opener /\ OpenerOK(ClosedOpener, p, version)
        BY DEF Opener, OpenerOK, Owners, ClosedOpener
      <4> QED BY <4>1, <3>11, OpenerMoves DEF OpenerExits
    <3> QED BY <3>1, <3>6, <3>7, <3>8, <3>9, <3>10, <3>11, ApplyPreserves
  <2> QED BY <2>0, <2>1
<1> QED
  BY <1>1, <1>2, PTL DEF SchemaSpec

\* Whatever the builds, however many openers race, fail or die: no step of a
\* schema is applied twice or skipped, and a store that was reported open has
\* every table the build knows (migrate, migrate_component).
THEOREM SchemaCorrect == SchemaSpec => []SchemaSound
<1>1. SchemaInv => SchemaSound
  BY DEF SchemaInv
<1> QED
  BY <1>1, SchemaInvariant, PTL

-----------------------------------------------------------------------------
(***************************************************************************)
(* The edit journal.                                                       *)
(***************************************************************************)

\* The phases in which a worker is inside the transaction of an undo.
Restoring == {"undoing", "written", "renamed", "synced"}

\* What a worker may be doing.
Phase == {"idle", "opened", "read", "verified", "snapped"} \cup Restoring

\* A file that was never damaged: only rows are.
Content == [bytes : Bytes, ino : Nat]

\* What a worker remembers.
WorkerTask == [at : Phase, ino : Nat, bytes : Bytes, id : SnapshotId \cup {NoId}, attempt : Nat]

\* The journal's state, typed.
JournalShape ==
  /\ file \in Content /\ survives \in SUBSET Content /\ file \in survives
  /\ DOMAIN rows \in SUBSET SnapshotId /\ rows \in [DOMAIN rows -> Row]
  /\ scratch \in SUBSET (SnapshotId \X (0..MaxAttempts - 1))
  /\ writer \in Workers \cup {NoWriter}
  /\ worker \in [Workers -> WorkerTask]
  /\ undo_acks \in [SnapshotId -> Nat]
  /\ clock \in 0..MaxClock

\* A minted id is of no row, and nobody else's.
MintedOK ==
  \A p \in Workers : worker[p].at = "verified" =>
    /\ worker[p].id \in SnapshotId \ DOMAIN rows
    /\ \A q \in Workers \ {p} : worker[q].at = "verified" => worker[q].id # worker[p].id

\* A restore of task w, in a store that holds the rows r and is written by p.
RestoreOK(p, w, r, wr) ==
  w.at \in Restoring => wr = p /\ w.id \in DOMAIN r /\ w.bytes = r[w.id].before_hash

\* What task w renamed is in place, and is the oldest that can survive.
RenamedOK(w, f, kept) ==
  /\ w.at \in {"renamed", "synced"} => f.ino >= w.ino
  /\ w.at = "synced" => \A g \in kept : g.ino >= w.ino

\* Every restore is under the write transaction, of a row that is there, and what
\* it renamed cannot be undone by a power loss once it is synced.
WorkersOK ==
  \A p \in Workers : RestoreOK(p, worker[p], rows, writer) /\ RenamedOK(worker[p], file, survives)

\* Ok was answered at most once for a row, and only for one marked undone.
AcksOK ==
  \A id \in SnapshotId :
    undo_acks[id] <= IF id \in DOMAIN rows /\ rows[id].undone THEN 1 ELSE 0

\* The inductive invariant of the journal.
JournalInv == JournalShape /\ MintedOK /\ WorkersOK /\ AcksOK

\* A worker that does nothing is a proper one.
LEMMA IdleTask == IdleWorker \in WorkerTask /\ IdleWorker.at = "idle"
BY JournalAssumption DEF IdleWorker, WorkerTask, Phase

\* Worker p may hold the id of task w.
Mintable(p, w) ==
  w.at = "verified" =>
    /\ w.id \in SnapshotId \ DOMAIN rows
    /\ \A q \in Workers \ {p} : worker[q].at = "verified" => worker[q].id # w.id

\* A step of one worker that leaves the rows alone: file and survivors only get
\* newer, and nobody else is restoring if the writer changes.
LEMMA TaskMoves ==
  ASSUME JournalInv, NEW p \in Workers, NEW w \in WorkerTask,
         worker' = [worker EXCEPT ![p] = w],
         Mintable(p, w), RestoreOK(p, w, rows, writer'), RenamedOK(w, file', survives'),
         file' \in Content, survives' \in SUBSET Content, file' \in survives',
         file'.ino >= file.ino,
         \A f \in survives' : f \in survives \/ f.ino >= file.ino,
         scratch' \in SUBSET (SnapshotId \X (0..MaxAttempts - 1)),
         writer' \in Workers \cup {NoWriter},
         \A q \in Workers \ {p} : worker[q].at \in Restoring => writer' = writer,
         UNCHANGED <<rows, undo_acks, clock>>
  PROVE  JournalInv'
<1>1. JournalShape /\ MintedOK /\ WorkersOK /\ AcksOK
  BY DEF JournalInv
<1>2. worker \in [Workers -> WorkerTask] /\ worker' \in [Workers -> WorkerTask]
  BY <1>1 DEF JournalShape
<1>3. worker'[p] = w /\ \A q \in Workers \ {p} : worker'[q] = worker[q]
  BY <1>2
<1>4. JournalShape'
  BY <1>1, <1>2 DEF JournalShape
<1>5. MintedOK'
  BY <1>1, <1>3 DEF MintedOK, Mintable
<1>6. \A q \in Workers : RestoreOK(q, worker'[q], rows, writer')
  BY <1>1, <1>3 DEF WorkersOK, RestoreOK
<1>7. ASSUME NEW q \in Workers \ {p} PROVE RenamedOK(worker[q], file', survives')
  <2>1. RenamedOK(worker[q], file, survives)
    BY <1>1 DEF WorkersOK
  <2>2. worker[q].ino \in Nat /\ file.ino \in Nat /\ file'.ino \in Nat
    BY <1>1, <1>2 DEF JournalShape, WorkerTask, Content
  <2>3. \A f \in survives' : f.ino \in Nat
    BY DEF Content
  <2> QED
    BY <2>1, <2>2, <2>3 DEF RenamedOK
<1>8. \A q \in Workers : RenamedOK(worker'[q], file', survives')
  BY <1>3, <1>7
<1>9. WorkersOK'
  BY <1>6, <1>8 DEF WorkersOK
<1>10. AcksOK'
  BY <1>1 DEF AcksOK
<1> QED
  BY <1>4, <1>5, <1>9, <1>10 DEF JournalInv

\* What the type of the state says of one worker.
LEMMA WorkerTypes ==
  ASSUME JournalInv, NEW p \in Workers
  PROVE  /\ worker[p] \in WorkerTask /\ worker[p].ino \in Nat /\ worker[p].bytes \in Bytes
         /\ file \in Content /\ file.ino \in Nat /\ file.bytes \in Bytes
         /\ survives \in SUBSET Content /\ file \in survives
         /\ scratch \in SUBSET (SnapshotId \X (0..MaxAttempts - 1))
         /\ writer \in Workers \cup {NoWriter}
         /\ RestoreOK(p, worker[p], rows, writer) /\ RenamedOK(worker[p], file, survives)
BY DEF JournalInv, JournalShape, WorkersOK, WorkerTask, Content

\* While one worker restores no other does.
LEMMA OneRestorer ==
  ASSUME JournalInv, NEW p \in Workers, worker[p].at \in Restoring,
         NEW q \in Workers \ {p}
  PROVE  worker[q].at \notin Restoring
BY DEF JournalInv, WorkersOK, RestoreOK

\* A worker that ends what it does leaves the invariant true.
LEMMA TaskEnds ==
  ASSUME JournalInv, NEW p \in Workers, NEW w \in WorkerTask,
         w.at \in {"idle", "opened", "read", "snapped"},
         worker' = [worker EXCEPT ![p] = w],
         scratch' \in SUBSET (SnapshotId \X (0..MaxAttempts - 1)),
         writer' \in {writer, NoWriter},
         writer' # writer => writer = p,
         UNCHANGED <<file, survives, rows, undo_acks, clock>>
  PROVE  JournalInv'
<1>1. Mintable(p, w) /\ RestoreOK(p, w, rows, writer') /\ RenamedOK(w, file', survives')
  BY DEF Mintable, RestoreOK, RenamedOK, Restoring
<1>2. \A q \in Workers \ {p} : worker[q].at \in Restoring => writer' = writer
  BY DEF JournalInv, WorkersOK, RestoreOK
<1>3. /\ file' \in Content /\ survives' \in SUBSET Content /\ file' \in survives'
      /\ file'.ino >= file.ino /\ writer' \in Workers \cup {NoWriter}
      /\ \A f \in survives' : f \in survives \/ f.ino >= file.ino
  BY WorkerTypes
<1> QED
  BY <1>1, <1>2, <1>3, TaskMoves

\* The steps of snapshot up to its insert; an id is minted by one worker only.
LEMMA SnapshotPreserves ==
  ASSUME JournalInv, NEW p \in Workers,
         SnapshotOpen(p) \/ SnapshotRead(p) \/ SnapshotVerify(p)
  PROVE  JournalInv'
<1> USE WorkerTypes
<1>1. CASE SnapshotOpen(p)
  <2> DEFINE w == [IdleWorker EXCEPT !.at = "opened", !.ino = file.ino]
  <2>1. w \in WorkerTask /\ w.at = "opened"
    BY IdleTask DEF WorkerTask, Phase
  <2> HIDE DEF w
  <2> QED BY <1>1, <2>1, TaskEnds DEF SnapshotOpen, Goto, w
<1>2. CASE SnapshotRead(p)
  <2> DEFINE w == [worker[p] EXCEPT !.at = "read", !.bytes = file.bytes]
  <2>1. w \in WorkerTask /\ w.at = "read"
    BY DEF WorkerTask, Phase
  <2>2. worker' = [worker EXCEPT ![p] = w] \/ worker' = [worker EXCEPT ![p] = IdleWorker]
    BY <1>2 DEF SnapshotRead, Goto
  <2> HIDE DEF w
  <2> QED BY <1>2, <2>1, <2>2, IdleTask, TaskEnds DEF SnapshotRead
<1>3. CASE SnapshotVerify(p)
  <2>1. CASE worker' = [worker EXCEPT ![p] = IdleWorker]
    BY <1>3, <2>1, IdleTask, TaskEnds DEF SnapshotVerify
  <2>2. CASE worker' # [worker EXCEPT ![p] = IdleWorker]
    <3>1. PICK r \in 1..MaxRandom :
             /\ <<clock, r>> \notin DOMAIN rows
             /\ \A q \in Workers : worker[q].id # <<clock, r>>
             /\ worker' = [worker EXCEPT ![p] = [worker[p] EXCEPT !.at = "verified", !.id = <<clock, r>>]]
      BY <1>3, <2>2 DEF SnapshotVerify, Goto
    <3> DEFINE id == <<clock, r>>
               w == [worker[p] EXCEPT !.at = "verified", !.id = id]
    <3>2. id \in SnapshotId
      BY DEF JournalInv, JournalShape, SnapshotId
    <3> HIDE DEF id
    <3>3. w \in WorkerTask /\ w.at = "verified" /\ w.id = id
      BY <3>2 DEF WorkerTask, Phase
    <3>4. worker' = [worker EXCEPT ![p] = w] /\ id \notin DOMAIN rows
          /\ \A q \in Workers : worker[q].id # id
      BY <3>1 DEF id
    <3> HIDE DEF w
    <3>5. Mintable(p, w)
      BY <3>2, <3>3, <3>4 DEF Mintable
    <3>6. RestoreOK(p, w, rows, writer') /\ RenamedOK(w, file', survives')
      BY <3>3 DEF RestoreOK, RenamedOK, Restoring
    <3>7. UNCHANGED <<file, survives, rows, scratch, writer, undo_acks, clock>>
      BY <1>3 DEF SnapshotVerify
    <3>8. /\ survives' \in SUBSET Content /\ file' \in survives' /\ file'.ino >= file.ino
          /\ \A f \in survives' : f \in survives \/ f.ino >= file.ino
          /\ file' \in Content
      BY <3>7, WorkerTypes
    <3>9. scratch' \in SUBSET (SnapshotId \X (0..MaxAttempts - 1)) /\ writer' \in Workers \cup {NoWriter}
          /\ UNCHANGED <<rows, undo_acks, clock>> /\ writer' = writer
      BY <3>7, WorkerTypes
    <3> QED BY <3>3, <3>4, <3>5, <3>6, <3>8, <3>9, TaskMoves
  <2> QED BY <2>1, <2>2
<1> QED BY <1>1, <1>2, <1>3

\* The edit, in place: the same inode.
LEMMA EditPreserves ==
  ASSUME JournalInv, NEW p \in Workers, Edit(p)
  PROVE  JournalInv'
<1>1. PICK b \in Bytes : file' = [file EXCEPT !.bytes = b] /\ survives' = survives \cup {file'}
  BY DEF Edit
<1>2. file' \in Content /\ file'.ino = file.ino /\ file.ino \in Nat
  BY <1>1, WorkerTypes DEF Content
<1>3. /\ survives' \in SUBSET Content /\ file' \in survives' /\ file'.ino >= file.ino
      /\ \A f \in survives' : f \in survives \/ f.ino >= file.ino
  <2>1. survives \in SUBSET Content
    BY WorkerTypes
  <2>2. file'.ino >= file.ino
    BY <1>2
  <2> QED BY <1>1, <1>2, <2>1, <2>2
<1>4. IdleWorker \in WorkerTask /\ Mintable(p, IdleWorker) /\ RestoreOK(p, IdleWorker, rows, writer')
      /\ RenamedOK(IdleWorker, file', survives')
  BY IdleTask DEF Mintable, RestoreOK, RenamedOK, Restoring
<1> QED
  BY <1>2, <1>3, <1>4, WorkerTypes, TaskMoves DEF Edit, Goto

\* UndoBegin: the transaction is free, so nobody else restores.
LEMMA BeginPreserves ==
  ASSUME JournalInv, NEW p \in Workers, NEW id \in DOMAIN rows, UndoBegin(p, id)
  PROVE  JournalInv'
<1> DEFINE w == [IdleWorker EXCEPT !.at = "undoing", !.id = id, !.bytes = rows[id].before]
<1>1. rows[id].before_hash \in Bytes /\ rows[id].before = rows[id].before_hash /\ id \in SnapshotId
  BY DEF JournalInv, JournalShape, Row, UndoBegin, Undoable
<1>2. w \in WorkerTask /\ w.at = "undoing" /\ w.id = id /\ w.bytes = rows[id].before_hash
  BY <1>1, IdleTask DEF WorkerTask, Phase, Restoring
<1>3. worker' = [worker EXCEPT ![p] = w] /\ writer' = p /\ writer = NoWriter
      /\ UNCHANGED <<file, survives, rows, scratch, undo_acks, clock>>
  BY DEF UndoBegin, Goto
<1> HIDE DEF w
<1>4. Mintable(p, w) /\ RestoreOK(p, w, rows, writer') /\ RenamedOK(w, file', survives')
  BY <1>2, <1>3 DEF Mintable, RestoreOK, RenamedOK
<1>5. \A q \in Workers \ {p} : worker[q].at \notin Restoring
  BY <1>3, JournalAssumption DEF JournalInv, WorkersOK, RestoreOK, NoWriter
<1>6. /\ survives' \in SUBSET Content /\ file' \in survives' /\ file'.ino >= file.ino
      /\ \A f \in survives' : f \in survives \/ f.ino >= file.ino
      /\ file' \in Content
  BY <1>3, WorkerTypes
<1>7. scratch' \in SUBSET (SnapshotId \X (0..MaxAttempts - 1))
  BY <1>3, WorkerTypes
<1> QED
  BY <1>2, <1>3, <1>4, <1>5, <1>6, <1>7, TaskMoves

\* The temporary file.
LEMMA ScratchPreserves ==
  ASSUME JournalInv, NEW p \in Workers, UndoScratch(p)
  PROVE  JournalInv'
<1>1. PICK a \in FreeAttempts(worker[p].id) :
        /\ scratch' = scratch \cup {<<worker[p].id, a>>}
        /\ worker' = [worker EXCEPT ![p] = [worker[p] EXCEPT !.at = "written", !.attempt = a]]
  BY DEF UndoScratch, Goto
<1> DEFINE w == [worker[p] EXCEPT !.at = "written", !.attempt = a]
<1>2. a \in 0..MaxAttempts - 1 /\ a \in Nat
  BY JournalAssumption DEF FreeAttempts
<1>3. w \in WorkerTask /\ w.at = "written" /\ w.id = worker[p].id /\ w.bytes = worker[p].bytes
  BY <1>2, WorkerTypes DEF WorkerTask, Phase, Restoring
<1>4. worker[p].at = "undoing" /\ UNCHANGED <<file, survives, rows, writer, undo_acks, clock>>
  BY DEF UndoScratch
<1>5. worker' = [worker EXCEPT ![p] = w]
  BY <1>1
<1> HIDE DEF w
<1>6. worker[p].id \in SnapshotId
  BY <1>4, WorkerTypes DEF RestoreOK, JournalInv, JournalShape, Restoring
<1>7. scratch' \in SUBSET (SnapshotId \X (0..MaxAttempts - 1))
  BY <1>1, <1>2, <1>6, WorkerTypes
<1>8. Mintable(p, w) /\ RestoreOK(p, w, rows, writer') /\ RenamedOK(w, file', survives')
  BY <1>3, <1>4, WorkerTypes DEF Mintable, RestoreOK, RenamedOK, Restoring
<1>9. /\ survives' \in SUBSET Content /\ file' \in survives' /\ file'.ino >= file.ino
      /\ \A f \in survives' : f \in survives \/ f.ino >= file.ino
      /\ file' \in Content
  BY <1>4, WorkerTypes
<1>10. writer' \in Workers \cup {NoWriter}
  BY <1>4, WorkerTypes
<1> QED
  BY <1>3, <1>4, <1>5, <1>7, <1>8, <1>9, <1>10, TaskMoves

\* The rename: an inode newer than any before.
LEMMA RenamePreserves ==
  ASSUME JournalInv, NEW p \in Workers, UndoRename(p)
  PROVE  JournalInv'
<1> DEFINE w == [worker[p] EXCEPT !.at = "renamed", !.ino = file.ino + 1]
<1>1. /\ worker[p].at = "written" /\ worker' = [worker EXCEPT ![p] = w]
      /\ file' = [bytes |-> worker[p].bytes, ino |-> file.ino + 1]
      /\ survives' = survives \cup {file'}
      /\ scratch' \in SUBSET scratch
      /\ UNCHANGED <<rows, writer, undo_acks, clock>>
  BY DEF UndoRename, Goto
<1>2. file.ino \in Nat /\ file.ino + 1 \in Nat
  BY WorkerTypes
<1>3. file' \in Content /\ file'.ino = file.ino + 1
  BY <1>1, <1>2, WorkerTypes DEF Content
<1>4. w \in WorkerTask /\ w.at = "renamed" /\ w.id = worker[p].id /\ w.bytes = worker[p].bytes
      /\ w.ino = file.ino + 1
  BY <1>2, WorkerTypes DEF WorkerTask, Phase, Restoring
<1> HIDE DEF w
<1>5. Mintable(p, w) /\ RestoreOK(p, w, rows, writer')
  BY <1>1, <1>4, WorkerTypes DEF Mintable, RestoreOK, Restoring
<1>6. RenamedOK(w, file', survives')
  BY <1>2, <1>3, <1>4 DEF RenamedOK
<1>7. /\ survives' \in SUBSET Content /\ file' \in survives' /\ file'.ino >= file.ino
      /\ \A f \in survives' : f \in survives \/ f.ino >= file.ino
  BY <1>1, <1>2, <1>3, WorkerTypes
<1>8. scratch' \in SUBSET (SnapshotId \X (0..MaxAttempts - 1)) /\ writer' \in Workers \cup {NoWriter}
  BY <1>1, WorkerTypes
<1> QED
  BY <1>1, <1>3, <1>4, <1>5, <1>6, <1>7, <1>8, TaskMoves

\* The directory sync: nothing older than what was renamed survives.
LEMMA SyncPreserves ==
  ASSUME JournalInv, NEW p \in Workers, UndoSync(p)
  PROVE  JournalInv'
<1> DEFINE w == [worker[p] EXCEPT !.at = "synced"]
<1>1. /\ worker[p].at = "renamed" /\ worker' = [worker EXCEPT ![p] = w]
      /\ survives' = {f \in survives : f.ino >= worker[p].ino}
      /\ UNCHANGED <<file, rows, scratch, writer, undo_acks, clock>>
  BY DEF UndoSync, Goto
<1>2. w \in WorkerTask /\ w.at = "synced" /\ w.id = worker[p].id /\ w.bytes = worker[p].bytes
      /\ w.ino = worker[p].ino
  BY WorkerTypes DEF WorkerTask, Phase, Restoring
<1> HIDE DEF w
<1>3. Mintable(p, w) /\ RestoreOK(p, w, rows, writer')
  BY <1>1, <1>2, WorkerTypes DEF Mintable, RestoreOK, Restoring
<1>4. file.ino >= worker[p].ino
  BY <1>1, WorkerTypes DEF RenamedOK
<1>5. RenamedOK(w, file', survives')
  BY <1>1, <1>2, <1>4 DEF RenamedOK
<1>6. /\ survives' \in SUBSET Content /\ file' \in survives' /\ file'.ino >= file.ino
      /\ \A f \in survives' : f \in survives \/ f.ino >= file.ino
      /\ file' \in Content /\ writer' \in Workers \cup {NoWriter}
      /\ scratch' \in SUBSET (SnapshotId \X (0..MaxAttempts - 1))
  BY <1>1, <1>4, WorkerTypes
<1> QED
  BY <1>1, <1>2, <1>3, <1>5, <1>6, TaskMoves

\* A restore fails, or its process dies.
LEMMA EndPreserves ==
  ASSUME JournalInv, NEW p \in Workers, UndoFails(p) \/ WorkerDies(p)
  PROVE  JournalInv'
<1>1. /\ worker' = [worker EXCEPT ![p] = IdleWorker] /\ writer' \in {writer, NoWriter}
      /\ scratch' \in SUBSET scratch
      /\ UNCHANGED <<file, survives, rows, undo_acks, clock>>
  BY DEF UndoFails, WorkerDies, Goto
<1>2. writer' # writer => writer = p
  <2>1. CASE UndoFails(p)
    BY <2>1, WorkerTypes DEF UndoFails, RestoreOK, Restoring
  <2>2. CASE WorkerDies(p)
    BY <2>2 DEF WorkerDies
  <2> QED BY <2>1, <2>2
<1> QED
  BY <1>1, <1>2, IdleTask, WorkerTypes, TaskEnds

\* The insert: the id is of no row, so no row is overwritten.
LEMMA InsertPreserves ==
  ASSUME JournalInv, NEW p \in Workers, SnapshotInsert(p)
  PROVE  JournalInv'
<1> DEFINE w == [IdleWorker EXCEPT !.at = "snapped"]
           i == worker[p].id
           row == [before |-> worker[p].bytes, before_hash |-> worker[p].bytes, undone |-> FALSE]
<1>1. /\ worker[p].at = "verified" /\ worker' = [worker EXCEPT ![p] = w]
      /\ rows' = [id \in DOMAIN rows \cup {i} |-> IF id = i THEN row ELSE rows[id]]
      /\ UNCHANGED <<file, survives, scratch, writer, undo_acks, clock>>
  BY DEF SnapshotInsert, Goto
<1>2. w \in WorkerTask /\ w.at = "snapped"
  BY IdleTask DEF WorkerTask, Phase
<1>3. row \in Row /\ row.undone = FALSE
  BY WorkerTypes DEF Row
<1>4. i \in SnapshotId \ DOMAIN rows
      /\ \A q \in Workers \ {p} : worker[q].at = "verified" => worker[q].id # i
  BY <1>1 DEF JournalInv, MintedOK
<1> HIDE DEF w, i, row
<1>5. /\ DOMAIN rows \in SUBSET SnapshotId /\ rows \in [DOMAIN rows -> Row]
      /\ worker \in [Workers -> WorkerTask]
  BY DEF JournalInv, JournalShape
<1>6. /\ DOMAIN rows' = DOMAIN rows \cup {i} /\ rows' \in [DOMAIN rows' -> Row]
      /\ \A id \in DOMAIN rows : rows'[id] = rows[id]
      /\ rows'[i] = row
  BY <1>1, <1>3, <1>4, <1>5
<1>7. worker'[p] = w /\ \A q \in Workers \ {p} : worker'[q] = worker[q]
  BY <1>1, <1>5
<1>8. JournalShape'
  <2>1. worker' \in [Workers -> WorkerTask]
    BY <1>1, <1>2, <1>5
  <2>2. DOMAIN rows' \in SUBSET SnapshotId
    BY <1>4, <1>5, <1>6
  <2> QED BY <1>1, <1>6, <2>1, <2>2 DEF JournalInv, JournalShape
<1>9. MintedOK'
  BY <1>2, <1>4, <1>6, <1>7 DEF JournalInv, MintedOK
<1>10. WorkersOK'
  <2> SUFFICES ASSUME NEW q \in Workers
               PROVE  RestoreOK(q, worker'[q], rows', writer') /\ RenamedOK(worker'[q], file', survives')
    BY DEF WorkersOK
  <2>1. CASE q = p
    BY <2>1, <1>2, <1>7 DEF RestoreOK, RenamedOK, Restoring
  <2>2. CASE q # p
    BY <2>2, <1>1, <1>6, <1>7, WorkerTypes DEF RestoreOK, RenamedOK
  <2> QED BY <2>1, <2>2
<1>11. AcksOK'
  <2> SUFFICES ASSUME NEW id \in SnapshotId
               PROVE  undo_acks[id] <= IF id \in DOMAIN rows' /\ rows'[id].undone THEN 1 ELSE 0
    BY <1>1 DEF AcksOK
  <2>1. undo_acks[id] <= IF id \in DOMAIN rows /\ rows[id].undone THEN 1 ELSE 0
    BY DEF JournalInv, AcksOK
  <2>2. CASE id = i
    BY <2>1, <2>2, <1>3, <1>4, <1>6
  <2>3. CASE id # i
    BY <2>1, <2>3, <1>6
  <2> QED BY <2>2, <2>3
<1> QED
  BY <1>8, <1>9, <1>10, <1>11 DEF JournalInv

\* The mark: the row of the restore was live, so this is its first Ok.
LEMMA MarkPreserves ==
  ASSUME JournalInv, NEW p \in Workers, UndoMark(p)
  PROVE  JournalInv'
<1> DEFINE i == worker[p].id
           row == [rows[i] EXCEPT !.undone = TRUE]
<1>1. /\ worker[p].at = "synced" /\ worker' = [worker EXCEPT ![p] = IdleWorker]
      /\ ~rows[i].undone
      /\ writer' = NoWriter
      /\ undo_acks' = [undo_acks EXCEPT ![i] = undo_acks[i] + 1]
      /\ UNCHANGED <<file, survives, scratch, clock>>
  BY DEF UndoMark, Goto
<1>2. /\ DOMAIN rows \in SUBSET SnapshotId /\ rows \in [DOMAIN rows -> Row]
      /\ worker \in [Workers -> WorkerTask] /\ undo_acks \in [SnapshotId -> Nat]
  BY DEF JournalInv, JournalShape
<1>3. i \in DOMAIN rows /\ i \in SnapshotId
  BY <1>1, <1>2, WorkerTypes DEF RestoreOK, Restoring
<1>4. row \in Row /\ row.undone = TRUE /\ row.before_hash = rows[i].before_hash
  BY <1>2, <1>3 DEF Row
<1>5. rows' = [rows EXCEPT ![i] = row]
  BY <1>2, <1>3 DEF UndoMark, Row
<1>6. \A q \in Workers \ {p} : worker[q].at \notin Restoring
  BY <1>1, OneRestorer DEF Restoring
<1> HIDE DEF i, row
<1>7. /\ DOMAIN rows' = DOMAIN rows /\ rows' \in [DOMAIN rows' -> Row]
      /\ \A id \in DOMAIN rows \ {i} : rows'[id] = rows[id]
      /\ rows'[i] = row
  BY <1>2, <1>3, <1>4, <1>5
<1>8. worker'[p] = IdleWorker /\ \A q \in Workers \ {p} : worker'[q] = worker[q]
  BY <1>1, <1>2
<1>9. JournalShape'
  <2>1. worker' \in [Workers -> WorkerTask]
    BY <1>1, <1>2, IdleTask
  <2>2. undo_acks' \in [SnapshotId -> Nat]
    BY <1>1, <1>2, <1>3
  <2> QED BY <1>1, <1>2, <1>7, <2>1, <2>2 DEF JournalInv, JournalShape
<1>10. MintedOK'
  BY <1>7, <1>8, IdleTask DEF JournalInv, MintedOK
<1>11. WorkersOK'
  <2> SUFFICES ASSUME NEW q \in Workers
               PROVE  RestoreOK(q, worker'[q], rows', writer') /\ RenamedOK(worker'[q], file', survives')
    BY DEF WorkersOK
  <2>1. CASE q = p
    BY <2>1, <1>8, IdleTask DEF RestoreOK, RenamedOK, Restoring
  <2>2. CASE q # p
    BY <2>2, <1>6, <1>8 DEF RestoreOK, RenamedOK, Restoring
  <2> QED BY <2>1, <2>2
<1>12. AcksOK'
  <2> SUFFICES ASSUME NEW id \in SnapshotId
               PROVE  undo_acks'[id] <= IF id \in DOMAIN rows' /\ rows'[id].undone THEN 1 ELSE 0
    BY DEF AcksOK
  <2>1. undo_acks[id] \in Nat /\ undo_acks[id] <= IF id \in DOMAIN rows /\ rows[id].undone THEN 1 ELSE 0
    BY <1>2 DEF JournalInv, AcksOK
  <2>2. CASE id = i
    <3>1. undo_acks'[id] = undo_acks[id] + 1
      BY <1>1, <1>2, <2>2
    <3>2. rows'[id].undone /\ id \in DOMAIN rows'
      BY <1>3, <1>4, <1>7, <2>2
    <3> QED BY <2>1, <2>2, <3>1, <3>2, <1>1
  <2>3. CASE id # i
    BY <2>1, <2>3, <1>1, <1>2, <1>7
  <2> QED BY <2>2, <2>3
<1> QED
  BY <1>9, <1>10, <1>11, <1>12 DEF JournalInv

\* Damage to a row changes neither its digest nor its mark.
LEMMA DamagePreserves ==
  ASSUME JournalInv, NEW i \in DOMAIN rows, Damage(i)
  PROVE  JournalInv'
<1> DEFINE row == [rows[i] EXCEPT !.before = Damaged]
<1>1. /\ DOMAIN rows \in SUBSET SnapshotId /\ rows \in [DOMAIN rows -> Row]
  BY DEF JournalInv, JournalShape
<1>2. row \in Row /\ row.undone = rows[i].undone /\ row.before_hash = rows[i].before_hash
  BY <1>1 DEF Row
<1>3. rows' = [rows EXCEPT ![i] = row]
      /\ UNCHANGED <<file, survives, scratch, writer, worker, undo_acks, clock>>
  BY <1>1 DEF Damage, Row
<1> HIDE DEF row
<1>4. /\ DOMAIN rows' = DOMAIN rows /\ rows' \in [DOMAIN rows' -> Row]
      /\ \A id \in DOMAIN rows : rows'[id].undone = rows[id].undone
                                 /\ rows'[id].before_hash = rows[id].before_hash
  BY <1>1, <1>2, <1>3
<1>5. JournalShape'
  BY <1>3, <1>4 DEF JournalInv, JournalShape
<1>6. MintedOK'
  BY <1>3, <1>4 DEF JournalInv, MintedOK
<1>7. WorkersOK'
  BY <1>3, <1>4 DEF JournalInv, WorkersOK, RestoreOK
<1>8. AcksOK'
  BY <1>3, <1>4 DEF JournalInv, AcksOK
<1> QED
  BY <1>5, <1>6, <1>7, <1>8 DEF JournalInv

\* A power loss: nobody is at work any more.
LEMMA JournalPowerLossPreserves ==
  ASSUME JournalInv, JournalPowerLoss
  PROVE  JournalInv'
<1>1. /\ file' \in survives /\ survives' = {file'} /\ writer' = NoWriter
      /\ worker' = [p \in Workers |-> IdleWorker] /\ UNCHANGED <<rows, scratch, undo_acks, clock>>
  BY DEF JournalPowerLoss
<1>2. JournalShape'
  BY <1>1, IdleTask DEF JournalInv, JournalShape
<1>3. MintedOK'
  BY <1>1, IdleTask DEF MintedOK
<1>4. WorkersOK'
  BY <1>1, IdleTask DEF WorkersOK, RestoreOK, RenamedOK, Restoring
<1>5. AcksOK'
  BY <1>1 DEF JournalInv, AcksOK
<1> QED
  BY <1>2, <1>3, <1>4, <1>5 DEF JournalInv

\* JournalInv is an inductive invariant of the journal.
THEOREM JournalInvariant == JournalSpec => []JournalInv
<1>1. JournalInit => JournalInv
  <2> SUFFICES ASSUME JournalInit PROVE JournalInv
    OBVIOUS
  <2>1. file \in Content /\ survives \in SUBSET Content /\ file \in survives
    BY JournalAssumption DEF JournalInit, Content
  <2>2. DOMAIN rows = {} /\ rows \in [DOMAIN rows -> Row]
    BY DEF JournalInit
  <2>3. JournalShape
    BY <2>1, <2>2, IdleTask, JournalAssumption DEF JournalInit, JournalShape
  <2>4. MintedOK /\ WorkersOK
    BY IdleTask DEF JournalInit, MintedOK, WorkersOK, RestoreOK, RenamedOK, Restoring
  <2>5. AcksOK
    BY DEF JournalInit, AcksOK
  <2> QED BY <2>3, <2>4, <2>5 DEF JournalInv
<1>2. JournalInv /\ [JournalNext]_journalVars => JournalInv'
  <2> SUFFICES ASSUME JournalInv, [JournalNext]_journalVars PROVE JournalInv'
    OBVIOUS
  <2>1. CASE UNCHANGED journalVars
    BY <2>1 DEF journalVars, JournalInv, JournalShape, MintedOK, WorkersOK, AcksOK
  <2>2. CASE Tick
    <3>1. clock' \in 0..MaxClock
      BY <2>2, JournalAssumption DEF Tick, JournalInv, JournalShape
    <3> QED BY <2>2, <3>1 DEF Tick, JournalInv, JournalShape, MintedOK, WorkersOK, AcksOK
  <2>3. ASSUME NEW p \in Workers,
               \/ SnapshotOpen(p) \/ SnapshotRead(p) \/ SnapshotVerify(p) \/ SnapshotInsert(p)
               \/ Edit(p)
               \/ \E id \in DOMAIN rows : UndoBegin(p, id)
               \/ UndoScratch(p) \/ UndoRename(p) \/ UndoSync(p) \/ UndoMark(p) \/ UndoFails(p)
               \/ WorkerDies(p)
        PROVE  JournalInv'
    BY <2>3, SnapshotPreserves, InsertPreserves, EditPreserves, BeginPreserves,
       ScratchPreserves, RenamePreserves, SyncPreserves, MarkPreserves, EndPreserves
  <2> QED BY <2>1, <2>2, <2>3, DamagePreserves, JournalPowerLossPreserves DEF JournalNext
<1> QED
  BY <1>1, <1>2, PTL DEF JournalSpec

\* A set of naturals that is not empty has a least element.
LEMMA NatMin ==
  ASSUME NEW T \in SUBSET Nat, T # {}
  PROVE  \E x \in T : \A y \in T : x <= y
<1> DEFINE R == OpToRel(<, Nat)
<1>1. IsWellFoundedOn(R, Nat)
  BY NatLessThanWellFounded
<1>2. \E x \in T : \A y \in T : ~(<<y, x>> \in R)
  <2> HIDE DEF R
  <2> QED BY <1>1, WFMin
<1>3. PICK x \in T : \A y \in T : ~(<<y, x>> \in R)
  BY <1>2
<1>4. \A y \in T : <<y, x>> \in R <=> y < x
  BY DEF OpToRel
<1> HIDE DEF R
<1>5. \A y \in T : ~(y < x)
  BY <1>3, <1>4
<1> QED
  BY <1>5

\* Of some naturals under a bound, one is the greatest.
LEMMA NatMax ==
  ASSUME NEW bound \in Nat, NEW T \in SUBSET (0..bound), T # {}
  PROVE  \E x \in T : \A y \in T : y <= x
<1> DEFINE D == {bound - y : y \in T}
<1>1. D \in SUBSET Nat /\ D # {}
  <2>1. \A y \in T : bound - y \in Nat
    OBVIOUS
  <2>2. D \in SUBSET Nat
    BY <2>1, Zenon
  <2>3. D # {}
    BY Zenon
  <2> QED BY <2>2, <2>3
<1> HIDE DEF D
<1>2. PICK d \in D : \A e \in D : d <= e
  BY <1>1, NatMin
<1>3. PICK x \in T : d = bound - x
  BY DEF D
<1>4. ASSUME NEW y \in T PROVE y <= x
  <2>1. bound - y \in D
    BY DEF D
  <2>2. bound - x <= bound - y
    BY <1>2, <1>3, <2>1
  <2>3. x \in Nat /\ y \in Nat
    OBVIOUS
  <2> QED BY <2>2, <2>3
<1> QED
  BY <1>4

\* Some row that is not undone yet is newer than the others.
LEMMA NewestExists ==
  ASSUME NEW ids \in SUBSET SnapshotId, ids # {}
  PROVE  \E top \in ids : \A other \in ids \ {top} : Newer(top, other)
<1>1. \A id \in SnapshotId : id[1] \in 0..MaxClock /\ id[2] \in 0..MaxRandom /\ id = <<id[1], id[2]>>
  BY JournalAssumption DEF SnapshotId
<1> DEFINE times == {id[1] : id \in ids}
<1>2. times \in SUBSET (0..MaxClock) /\ times # {}
  BY <1>1
<1> HIDE DEF times
<1>3. PICK t \in times : \A u \in times : u <= t
  BY <1>2, NatMax, JournalAssumption
<1> DEFINE draws == {id[2] : id \in {j \in ids : j[1] = t}}
<1>4. draws \in SUBSET (0..MaxRandom) /\ draws # {}
  BY <1>1, <1>3 DEF times
<1> HIDE DEF draws
<1>5. PICK r \in draws : \A x \in draws : x <= r
  BY <1>4, NatMax, JournalAssumption
<1>6. PICK top \in ids : top[1] = t /\ top[2] = r
  BY <1>5 DEF draws
<1>7. ASSUME NEW other \in ids \ {top} PROVE Newer(top, other)
  <2>1. other[1] \in times /\ other[1] \in Nat /\ t \in Nat /\ other[2] \in Nat /\ r \in Nat
    BY <1>1, <1>2, <1>4 DEF times
  <2>2. other[1] <= t
    BY <1>3, <2>1
  <2>3. CASE other[1] = t
    <3>1. other[2] \in draws
      BY <2>3 DEF draws
    <3>2. other[2] <= r
      BY <1>5, <3>1
    <3>3. other[2] # r
      BY <1>1, <1>6, <2>3
    <3> QED BY <2>1, <2>3, <3>2, <3>3, <1>6 DEF Newer
  <2>4. CASE other[1] # t
    BY <2>1, <2>2, <2>4, <1>6 DEF Newer
  <2> QED BY <2>3, <2>4
<1> QED
  BY <1>7

\* Of two ids at most one is newer than the other.
LEMMA NewerAsymmetric ==
  ASSUME NEW a \in SnapshotId, NEW b \in SnapshotId, Newer(a, b)
  PROVE  ~Newer(b, a)
<1>1. a[1] \in Nat /\ a[2] \in Nat /\ b[1] \in Nat /\ b[2] \in Nat
  BY JournalAssumption DEF SnapshotId
<1> QED
  BY <1>1 DEF Newer

\* For any workers, crashes and bounds: Ok is returned at most once for each
\* snapshot, and while some row is live exactly one is the newest (undo,
\* newest_for_path).
THEOREM UndoCorrect == JournalSpec => []UndoneOnce
<1>1. JournalInv => UndoneOnce
  <2> SUFFICES ASSUME JournalInv PROVE UndoneOnce
    OBVIOUS
  <2>1. ASSUME Live # {} PROVE Cardinality(newest_for_path) = 1
    <3>1. Live \in SUBSET SnapshotId
      BY DEF Live, JournalInv, JournalShape
    <3>2. PICK top \in Live : \A other \in Live \ {top} : Newer(top, other)
      BY <2>1, <3>1, NewestExists
    <3>3. newest_for_path = {top}
      <4>1. top \in newest_for_path
        BY <3>2 DEF newest_for_path
      <4>2. ASSUME NEW id \in newest_for_path, id # top PROVE FALSE
        <5>1. id \in Live /\ Newer(id, top)
          BY <3>2, <4>2 DEF newest_for_path
        <5>2. Newer(top, id)
          BY <3>2, <4>2, <5>1
        <5> QED BY <5>1, <5>2, <3>1, NewerAsymmetric
      <4> QED BY <4>1, <4>2
    <3> QED BY <3>3, FS_Singleton
  <2> QED BY <2>1 DEF UndoneOnce, JournalInv, AcksOK
<1> QED
  BY <1>1, JournalInvariant, PTL

\* The action of UndoDurable.
UndoDurably ==
  \A id \in DOMAIN rows :
    ~rows[id].undone /\ rows'[id].undone =>
      \E p \in Workers :
        /\ worker[p].id = id
        /\ worker[p].bytes = rows[id].before_hash
        /\ \A f \in survives : f.ino >= worker[p].ino

\* A row turns undone only when its bytes are in place and no power loss can
\* bring back what they replaced (undo, steps 2 to 4).
THEOREM UndoIsDurable == JournalSpec => UndoDurable
<1>1. JournalInv /\ [JournalNext]_journalVars => UndoDurably
  <2> SUFFICES ASSUME JournalInv, [JournalNext]_journalVars,
                      NEW id \in DOMAIN rows, ~rows[id].undone, rows'[id].undone
               PROVE  \E p \in Workers :
                        /\ worker[p].id = id
                        /\ worker[p].bytes = rows[id].before_hash
                        /\ \A f \in survives : f.ino >= worker[p].ino
    BY DEF UndoDurably
  <2>1. rows \in [DOMAIN rows -> Row]
    BY DEF JournalInv, JournalShape
  <2>2. rows' # rows
    OBVIOUS
  <2>3. ASSUME NEW j \in DOMAIN rows, Damage(j) PROVE FALSE
    BY <2>1, <2>3 DEF Damage, Row
  <2>4. ASSUME NEW p \in Workers, SnapshotInsert(p) PROVE FALSE
    <3>1. worker[p].id \notin DOMAIN rows
      BY <2>4 DEF JournalInv, MintedOK, SnapshotInsert
    <3>2. rows'[id] = rows[id]
      BY <2>4, <3>1 DEF SnapshotInsert
    <3> QED BY <3>2
  <2>5. PICK p \in Workers : UndoMark(p)
    BY <2>2, <2>3, <2>4 DEF JournalNext, journalVars, SnapshotOpen, SnapshotRead, SnapshotVerify,
       Edit, UndoBegin, UndoScratch, UndoRename, UndoSync, UndoFails, WorkerDies,
       JournalPowerLoss, Tick
  <2>6. worker[p].at = "synced" /\ rows' = [rows EXCEPT ![worker[p].id].undone = TRUE]
    BY <2>5 DEF UndoMark
  <2>7. worker[p].id = id
    BY <2>1, <2>6
  <2>8. worker[p].bytes = rows[id].before_hash /\ \A f \in survives : f.ino >= worker[p].ino
    BY <2>6, <2>7, WorkerTypes DEF RestoreOK, RenamedOK, Restoring
  <2> QED BY <2>7, <2>8
<1> QED
  BY <1>1, JournalInvariant, PTL DEF JournalSpec, UndoDurable, UndoDurably

-----------------------------------------------------------------------------
(***************************************************************************)
(* A session's file.                                                       *)
(***************************************************************************)

\* What a prefix is, element by element.
LEMMA PrefixElementwise ==
  ASSUME NEW s \in Seq(Nat), NEW t \in Seq(Nat)
  PROVE  IsPrefix(s, t) <=> Len(s) <= Len(t) /\ \A i \in 1..Len(s) : s[i] = t[i]
<1>1. Len(s) \in Nat /\ Len(t) \in Nat
  OBVIOUS
<1>2. CASE Len(s) <= Len(t)
  <2> DEFINE a == SubSeq(s, 1, Len(s))
             b == SubSeq(t, 1, Len(s))
  <2>1. a \in Seq(Nat) /\ Len(a) = Len(s) /\ \A i \in 1..Len(s) : a[i] = s[i]
    BY <1>1
  <2>2. b \in Seq(Nat) /\ Len(b) = Len(s) /\ \A i \in 1..Len(s) : b[i] = t[i]
    BY <1>1, <1>2
  <2> HIDE DEF a, b
  <2>3. ASSUME \A i \in 1..Len(s) : s[i] = t[i] PROVE a = b
    <3>1. \A i \in 1..Len(s) : a[i] = b[i]
      BY <2>1, <2>2, <2>3
    <3> QED BY <2>1, <2>2, <3>1, SeqEqual
  <2>4. ASSUME a = b PROVE \A i \in 1..Len(s) : s[i] = t[i]
    BY <2>1, <2>2, <2>4
  <2> QED BY <1>2, <2>3, <2>4 DEF IsPrefix, a, b
<1>3. CASE ~(Len(s) <= Len(t))
  BY <1>3 DEF IsPrefix
<1> QED
  BY <1>2, <1>3

\* A sequence is a prefix of itself.
LEMMA PrefixOfItself ==
  ASSUME NEW s \in Seq(Nat)
  PROVE  IsPrefix(s, s)
BY PrefixElementwise

\* The empty sequence is a prefix of every sequence.
LEMMA EmptyPrefix ==
  ASSUME NEW s \in Seq(Nat)
  PROVE  IsPrefix(<<>>, s)
<1> DEFINE e == <<>>
<1>1. e \in Seq(Nat) /\ Len(e) = 0 /\ Len(s) \in Nat
  OBVIOUS
<1> HIDE DEF e
<1>2. IsPrefix(e, s) <=> Len(e) <= Len(s) /\ \A i \in 1..Len(e) : e[i] = s[i]
  BY <1>1, PrefixElementwise
<1>3. IsPrefix(e, s)
  BY <1>1, <1>2
<1> QED
  BY <1>3 DEF e

\* A prefix stays one when the sequence grows.
LEMMA PrefixOfLonger ==
  ASSUME NEW s \in Seq(Nat), NEW t \in Seq(Nat), NEW n \in Nat, IsPrefix(s, t)
  PROVE  IsPrefix(s, Append(t, n))
<1> DEFINE u == Append(t, n)
<1>1. u \in Seq(Nat) /\ Len(u) = Len(t) + 1 /\ Len(t) \in Nat /\ Len(s) \in Nat
      /\ \A i \in 1..Len(t) : u[i] = t[i]
  OBVIOUS
<1>2. Len(s) <= Len(t) /\ \A i \in 1..Len(s) : s[i] = t[i]
  BY PrefixElementwise
<1> HIDE DEF u
<1>3. IsPrefix(s, u) <=> Len(s) <= Len(u) /\ \A i \in 1..Len(s) : s[i] = u[i]
  BY <1>1, PrefixElementwise
<1>4. IsPrefix(s, u)
  BY <1>1, <1>2, <1>3
<1> QED
  BY <1>4 DEF u

\* What is in a prefix is in the sequence.
LEMMA PrefixElements ==
  ASSUME NEW s \in Seq(Nat), NEW t \in Seq(Nat), IsPrefix(s, t)
  PROVE  ToSet(s) \subseteq ToSet(t)
<1>1. Len(s) <= Len(t) /\ \A i \in 1..Len(s) : s[i] = t[i]
  BY PrefixElementwise
<1>2. DOMAIN s = 1..Len(s) /\ DOMAIN t = 1..Len(t)
  OBVIOUS
<1> QED
  BY <1>1, <1>2 DEF ToSet

\* A prefix is the whole sequence or shorter than it.
LEMMA PrefixAsLong ==
  ASSUME NEW s \in Seq(Nat), NEW t \in Seq(Nat), IsPrefix(s, t)
  PROVE  s = t \/ Len(s) < Len(t)
<1>1. Len(s) <= Len(t) /\ \A i \in 1..Len(s) : s[i] = t[i]
  BY PrefixElementwise
<1>2. CASE Len(s) = Len(t)
  BY <1>1, <1>2
<1> QED
  BY <1>1, <1>2

\* What a file may be.
Forms == {"absent", "legacy", "versioned"}
\* The documents a session's file may hold.
Document ==
  {doc \in [form : Forms, turns : Seq(Nat), revision : Nat] :
     /\ doc.form = "absent" => doc = NoFile
     /\ doc.form = "legacy" => doc.revision = 0}

\* What a process may have in memory.
View == [form : {"none", "session", "checkpoint"}, turns : Seq(Nat), revision : Nat, base : Nat]

\* The session's state, typed.
SessionShape ==
  /\ party \in SUBSET Proc
  /\ sessionFile \in Document /\ durable \in SUBSET Document /\ sessionFile \in durable
  /\ lock \in Proc \cup {"free"}
  /\ pc \in [Proc -> {"idle", "locked", "written", "renamed"}]
  /\ view \in [Proc -> View]
  /\ out \in [Proc -> Document]
  /\ minted \in Nat

\* One process is alone, or every document that may come back is versioned;
\* nobody else does anything.
PartyOK ==
  /\ (\E p \in Proc : party = {p}) \/ \A doc \in durable : doc.form = "versioned"
  /\ \A q \in Proc \ party : view[q] = NoView /\ pc[q] = "idle"

\* What a process has in memory, v, extends the file, if it is alone, or if the
\* revision it expects is the one on disk.
ViewOK(alone, v, doc) ==
  /\ alone /\ v.form # "none" => IsPrefix(doc.turns, v.turns)
  /\ v.form = "checkpoint" =>
       /\ doc.form # "absent"
       /\ v.base <= Revision(doc)
       /\ v.base = Revision(doc) => IsPrefix(doc.turns, v.turns)

\* A document o extends the document it will replace and moves it forward.
Moves(doc, o) ==
  /\ IsPrefix(doc.turns, o.turns)
  /\ doc.form = "versioned" => o.form = "versioned"
  /\ doc.form = "absent" \/ o = doc \/ Revision(o) > Revision(doc)

\* Process p publishes o, its view, under the lock; once renamed it is the file.
SaveOK(p, c, v, o, doc, inside) ==
  /\ c # "idle" =>
       /\ inside = p
       /\ v.form # "none"
       /\ o.form # "absent"
       /\ o.turns = v.turns
       /\ v.form = "checkpoint" => o.form = "versioned"
  /\ c \in {"locked", "written"} => Moves(doc, o)
  /\ c = "renamed" => doc = o

\* Every process is in a proper state.
ProcessesOK ==
  \A p \in Proc : /\ ViewOK(party = {p}, view[p], sessionFile)
                  /\ SaveOK(p, pc[p], view[p], out[p], sessionFile, lock)

\* The inductive invariant of careful use.
SessionInv == SessionShape /\ PartyOK /\ ProcessesOK /\ AckedTurnsKept

\* What the type of the state says of one process.
LEMMA ProcessTypes ==
  ASSUME SessionInv, NEW p \in Proc
  PROVE  /\ sessionFile \in Document /\ sessionFile.turns \in Seq(Nat)
         /\ sessionFile.revision \in Nat /\ sessionFile.form \in Forms
         /\ sessionFile.form = "absent" => sessionFile = NoFile
         /\ Revision(sessionFile) \in Nat
         /\ view[p] \in View /\ view[p].turns \in Seq(Nat)
         /\ view[p].revision \in Nat /\ view[p].base \in Nat
         /\ out[p] \in Document /\ out[p].turns \in Seq(Nat) /\ out[p].revision \in Nat
         /\ out[p].form \in Forms
         /\ Revision(out[p]) \in Nat
         /\ ViewOK(party = {p}, view[p], sessionFile)
         /\ SaveOK(p, pc[p], view[p], out[p], sessionFile, lock)
<1>1. \A doc \in Document : /\ doc.turns \in Seq(Nat) /\ doc.revision \in Nat /\ doc.form \in Forms
                            /\ doc.form = "absent" => doc = NoFile
  BY DEF Document
<1>2. \A doc \in Document : Revision(doc) \in Nat
  BY <1>1 DEF Revision
<1>3. /\ sessionFile \in Document /\ view[p] \in View /\ out[p] \in Document
  BY DEF SessionInv, SessionShape
<1>4. /\ view[p].turns \in Seq(Nat) /\ view[p].revision \in Nat /\ view[p].base \in Nat
  BY <1>3 DEF View
<1>5. /\ ViewOK(party = {p}, view[p], sessionFile)
      /\ SaveOK(p, pc[p], view[p], out[p], sessionFile, lock)
  BY DEF SessionInv, ProcessesOK
<1> QED
  BY <1>1, <1>2, <1>3, <1>4, <1>5

\* No file and no view are proper ones.
LEMMA EmptyOK == NoFile \in Document /\ NoView \in View /\ NoView.form = "none" /\ NoFile.form = "absent"
<1>1. <<>> \in Seq(Nat)
  OBVIOUS
<1> QED
  BY <1>1 DEF NoFile, NoView, Document, View, Forms

\* A step of one process that leaves the file alone.
LEMMA ProcessMoves ==
  ASSUME SessionInv, NEW p \in Proc, p \in party,
         NEW c \in {"idle", "locked", "written", "renamed"}, NEW v \in View, NEW o \in Document,
         pc' = [pc EXCEPT ![p] = c],
         view' = [view EXCEPT ![p] = v],
         out' = [out EXCEPT ![p] = o],
         ViewOK(party = {p}, v, sessionFile),
         SaveOK(p, c, v, o, sessionFile, lock'),
         lock' \in Proc \cup {"free"},
         \A q \in Proc \ {p} : pc[q] # "idle" => lock' = lock,
         minted' \in Nat,
         UNCHANGED <<party, sessionFile, durable, ackedTurns>>
  PROVE  SessionInv'
<1>1. SessionShape /\ PartyOK /\ ProcessesOK /\ AckedTurnsKept
  BY DEF SessionInv
<1>2. /\ pc'[p] = c /\ view'[p] = v /\ out'[p] = o
      /\ \A q \in Proc \ {p} : pc'[q] = pc[q] /\ view'[q] = view[q] /\ out'[q] = out[q]
  BY <1>1 DEF SessionShape
<1>3. SessionShape'
  BY <1>1 DEF SessionShape
<1>4. PartyOK'
  BY <1>1, <1>2 DEF PartyOK
<1>5. ProcessesOK'
  <2> SUFFICES ASSUME NEW q \in Proc
               PROVE  /\ ViewOK(party = {q}, view'[q], sessionFile)
                      /\ SaveOK(q, pc'[q], view'[q], out'[q], sessionFile, lock')
    BY DEF ProcessesOK
  <2>1. CASE q = p
    BY <2>1, <1>2
  <2>2. CASE q # p
    BY <2>2, <1>1, <1>2 DEF ProcessesOK, SaveOK
  <2> QED BY <2>1, <2>2
<1>6. AckedTurnsKept'
  BY <1>1 DEF AckedTurnsKept
<1> QED
  BY <1>3, <1>4, <1>5, <1>6 DEF SessionInv

\* What a process does in memory: it starts, resumes, records, touches.
LEMMA MemoryPreserves ==
  ASSUME SessionInv, NEW p \in Proc, p \in party,
         \/ NewSession(p) \/ ResumeSession(p) \/ ResumeCheckpoint(p)
         \/ RecordTurn(p) \/ TouchCheckpoint(p)
  PROVE  SessionInv'
<1> USE ProcessTypes
<1>1. UNCHANGED <<party, sessionFile, durable, lock, pc, out, ackedTurns>>
  BY DEF NewSession, ResumeSession, ResumeCheckpoint, RecordTurn, TouchCheckpoint
<1>2. pc[p] = "idle"
  BY EmptyOK DEF NewSession, ResumeSession, ResumeCheckpoint, RecordTurn, TouchCheckpoint, SaveOK
<1>3. /\ pc' = [pc EXCEPT ![p] = "idle"] /\ out' = [out EXCEPT ![p] = out[p]]
      /\ lock' \in Proc \cup {"free"} /\ lock' = lock
  BY <1>1, <1>2 DEF SessionInv, SessionShape
<1>4. minted' \in Nat
  BY DEF NewSession, ResumeSession, ResumeCheckpoint, RecordTurn, TouchCheckpoint, SessionInv, SessionShape
<1>5. \A v : SaveOK(p, "idle", v, out[p], sessionFile, lock')
  BY DEF SaveOK
<1>6. ASSUME NEW v \in View, view' = [view EXCEPT ![p] = v], ViewOK(party = {p}, v, sessionFile)
      PROVE  SessionInv'
  BY <1>1, <1>3, <1>4, <1>5, <1>6, ProcessMoves
<1>7. CASE NewSession(p)
  <2> DEFINE v == [NoView EXCEPT !.form = "session"]
  <2>1. v \in View /\ v.form = "session" /\ v.turns = <<>>
    BY EmptyOK DEF View, NoView
  <2>2. sessionFile.turns = <<>> /\ view' = [view EXCEPT ![p] = v]
    BY <1>7 DEF NewSession, NoFile
  <2> HIDE DEF v
  <2>3. ViewOK(party = {p}, v, sessionFile)
    BY <2>1, <2>2, PrefixOfItself DEF ViewOK
  <2> QED BY <1>6, <2>1, <2>2, <2>3
<1>8. CASE ResumeSession(p)
  <2> DEFINE v == [form |-> "session", turns |-> sessionFile.turns, revision |-> 0, base |-> 0]
  <2>1. v \in View /\ v.form = "session" /\ v.turns = sessionFile.turns
    BY DEF View
  <2>2. view' = [view EXCEPT ![p] = v]
    BY <1>8 DEF ResumeSession
  <2> HIDE DEF v
  <2>3. ViewOK(party = {p}, v, sessionFile)
    BY <2>1, PrefixOfItself DEF ViewOK
  <2> QED BY <1>6, <2>1, <2>2, <2>3
<1>9. CASE ResumeCheckpoint(p)
  <2> DEFINE r == Revision(sessionFile)
             v == [form |-> "checkpoint", turns |-> sessionFile.turns, revision |-> r, base |-> r]
  <2>0. r \in Nat
    OBVIOUS
  <2>1. v \in View /\ v.form = "checkpoint" /\ v.turns = sessionFile.turns /\ v.base = r
    BY <2>0 DEF View
  <2>2. view' = [view EXCEPT ![p] = v] /\ sessionFile.form # "absent"
    BY <1>9 DEF ResumeCheckpoint
  <2>3. IsPrefix(sessionFile.turns, sessionFile.turns) /\ r = Revision(sessionFile) /\ r <= r
    BY <2>0, PrefixOfItself
  <2> HIDE DEF v, r
  <2>4. ViewOK(party = {p}, v, sessionFile)
    BY <2>1, <2>2, <2>3 DEF ViewOK
  <2> QED BY <1>6, <2>1, <2>2, <2>4
<1>10. CASE RecordTurn(p)
  <2> DEFINE t == Append(view[p].turns, minted')
             v == [view[p] EXCEPT !.turns = t]
             r == view[p].revision + 1
             w == [view[p] EXCEPT !.turns = t, !.revision = r]
  <2>1. t \in Seq(Nat) /\ (IsPrefix(sessionFile.turns, view[p].turns) => IsPrefix(sessionFile.turns, t))
    BY <1>4, PrefixOfLonger
  <2>2. view' = [view EXCEPT ![p] = v] \/ view' = [view EXCEPT ![p] = w]
    BY <1>10 DEF RecordTurn, SessionInv, SessionShape, View
  <2>3. view[p].form # "none"
    BY <1>10 DEF RecordTurn
  <2>8. r \in Nat
    OBVIOUS
  <2> HIDE DEF t, r
  <2>4. v \in View /\ v.form = view[p].form /\ v.turns = t /\ v.base = view[p].base
    BY <2>1 DEF View
  <2>5. w \in View /\ w.form = view[p].form /\ w.turns = t /\ w.base = view[p].base
    BY <2>1, <2>8 DEF View
  <2> HIDE DEF v, w
  <2>6. ViewOK(party = {p}, v, sessionFile)
    BY <2>1, <2>3, <2>4 DEF ViewOK
  <2>7. ViewOK(party = {p}, w, sessionFile)
    BY <2>1, <2>3, <2>5 DEF ViewOK
  <2> QED BY <1>6, <2>2, <2>4, <2>5, <2>6, <2>7
<1>11. CASE TouchCheckpoint(p)
  <2> DEFINE r == view[p].revision + 1
             v == [view[p] EXCEPT !.revision = r]
  <2>0. r \in Nat
    OBVIOUS
  <2>2. view' = [view EXCEPT ![p] = v]
    BY <1>11 DEF TouchCheckpoint, SessionInv, SessionShape, View
  <2> HIDE DEF r
  <2>1. v \in View /\ v.form = view[p].form /\ v.turns = view[p].turns /\ v.base = view[p].base
    BY <2>0 DEF View
  <2> HIDE DEF v
  <2>3. ViewOK(party = {p}, v, sessionFile)
    BY <2>1 DEF ViewOK
  <2> QED BY <1>6, <2>1, <2>2, <2>3
<1> QED
  BY <1>7, <1>8, <1>9, <1>10, <1>11

\* The decision under the lock is one that moves the file forward.
LEMMA DecisionMoves ==
  ASSUME SessionInv, NEW p \in Proc, p \in party, NEW conditional \in BOOLEAN,
         conditional \/ party = {p},
         SaveLegacy(p) \/ SaveCheckpoint(p, conditional)
  PROVE  \E o \in Document :
           /\ out' = [out EXCEPT ![p] = o]
           /\ view[p].form # "none" /\ o.form # "absent" /\ o.turns = view[p].turns
           /\ view[p].form = "checkpoint" => o.form = "versioned"
           /\ Moves(sessionFile, o)
<1> USE ProcessTypes
<1> DEFINE turns == view[p].turns
           found == sessionFile.turns
<1>1. turns \in Seq(Nat) /\ found \in Seq(Nat) /\ Len(turns) \in Nat /\ Len(found) \in Nat
  OBVIOUS
<1>2. CASE SaveLegacy(p) /\ sessionFile.form # "versioned"
  <2> DEFINE o == Legacy(turns)
  <2>1. o \in Document /\ o.form = "legacy" /\ o.turns = turns /\ o.revision = 0
    BY <1>1 DEF Document, Legacy, Forms
  <2>2. out' = [out EXCEPT ![p] = o] /\ view[p].form = "session"
    BY <1>2 DEF SaveLegacy
  <2>3. party = {p}
    BY <1>2 DEF SessionInv, SessionShape, PartyOK
  <2>4. IsPrefix(found, turns)
    BY <2>2, <2>3 DEF ViewOK
  <2>5. sessionFile.form = "absent" \/ o = sessionFile \/ Revision(o) > Revision(sessionFile)
    <3>1. CASE sessionFile.form = "absent"
      BY <3>1
    <3>2. CASE sessionFile.form = "legacy" /\ found = turns
      BY <2>1, <3>2 DEF Document, Legacy
    <3>3. CASE sessionFile.form = "legacy" /\ Len(found) < Len(turns)
      BY <2>1, <3>3 DEF Revision
    <3> QED BY <1>1, <1>2, <2>4, <3>1, <3>2, <3>3, PrefixAsLong DEF Forms
  <2> HIDE DEF o
  <2> QED BY <1>2, <2>1, <2>2, <2>4, <2>5 DEF Moves
<1>3. CASE SaveLegacy(p) /\ sessionFile.form = "versioned"
  <2> DEFINE n == sessionFile.revision + Len(turns) - Len(found)
             o == Versioned(turns, n)
  <2>1. out' = [out EXCEPT ![p] = o] /\ view[p].form = "session" /\ IsPrefix(found, turns) /\ found # turns
    BY <1>3 DEF SaveLegacy, Merged, IsStrictPrefix
  <2>2. Len(found) < Len(turns)
    BY <1>1, <2>1, PrefixAsLong
  <2>3. n \in Nat /\ n > sessionFile.revision
    <3>1. \A x, y, z \in Nat : y < z => x + z - y \in Nat /\ x + z - y > x
      OBVIOUS
    <3>2. sessionFile.revision \in Nat
      OBVIOUS
    <3> HIDE ProcessTypes DEF turns, found
    <3> QED BY <1>1, <2>2, <3>1, <3>2
  <2> HIDE DEF n
  <2>4. o \in Document /\ o.form = "versioned" /\ o.turns = turns /\ o.revision = n
    BY <1>1, <2>3 DEF Document, Versioned, Forms
  <2> HIDE DEF o
  <2>5. Revision(o) > Revision(sessionFile)
    BY <1>3, <2>3, <2>4 DEF Revision
  <2> QED BY <1>3, <2>1, <2>4, <2>5 DEF Moves
<1>4. CASE SaveCheckpoint(p, conditional)
  <2> DEFINE o == Versioned(turns, view[p].revision)
  <2>1. out' = [out EXCEPT ![p] = o] /\ view[p].form = "checkpoint"
        /\ (conditional => view[p].base = Revision(sessionFile))
        /\ (sessionFile # NoFile => view[p].revision > Revision(sessionFile))
    BY <1>4 DEF SaveCheckpoint, ExpectedFound
  <2>2. o \in Document /\ o.form = "versioned" /\ o.turns = turns /\ o.revision = view[p].revision
    BY <1>1 DEF Document, Versioned, Forms
  <2> HIDE DEF o
  <2>3. IsPrefix(found, turns) /\ sessionFile.form # "absent"
    BY <2>1 DEF ViewOK
  <2>4. Revision(o) > Revision(sessionFile)
    BY <2>1, <2>2, <2>3, EmptyOK DEF Revision
  <2> QED BY <2>1, <2>2, <2>3, <2>4 DEF Moves
<1> QED
  BY <1>2, <1>3, <1>4

\* The lock is taken: nobody else is saving.
LEMMA BeginSavePreserves ==
  ASSUME SessionInv, NEW p \in Proc, p \in party, NEW conditional \in BOOLEAN,
         conditional \/ party = {p}, BeginSave(p, conditional)
  PROVE  SessionInv'
<1> USE ProcessTypes
<1>1. PICK o \in Document :
           /\ out' = [out EXCEPT ![p] = o]
           /\ view[p].form # "none" /\ o.form # "absent" /\ o.turns = view[p].turns
           /\ view[p].form = "checkpoint" => o.form = "versioned"
           /\ Moves(sessionFile, o)
  BY DecisionMoves DEF BeginSave
<1>2. /\ pc' = [pc EXCEPT ![p] = "locked"] /\ lock' = p /\ lock = "free"
      /\ UNCHANGED <<party, sessionFile, durable, view, minted, ackedTurns>>
  BY DEF BeginSave
<1>3. SaveOK(p, "locked", view[p], o, sessionFile, lock')
  BY <1>1, <1>2 DEF SaveOK
<1>4. view' = [view EXCEPT ![p] = view[p]] /\ minted' \in Nat
  BY <1>2 DEF SessionInv, SessionShape
<1>5. \A q \in Proc \ {p} : pc[q] = "idle"
  BY <1>2, StoreAssumption DEF SessionInv, ProcessesOK, SaveOK
<1> QED
  BY ZenonT(40), <1>1, <1>2, <1>3, <1>4, <1>5, ProcessMoves

\* The temporary, a failed save, a crash: the file is left alone.
LEMMA SaveStepsPreserve ==
  ASSUME SessionInv, NEW p \in Proc, p \in party,
         WriteTemporary(p) \/ SaveFails(p) \/ SessionCrash(p)
  PROVE  SessionInv'
<1> USE ProcessTypes
<1>1. UNCHANGED <<party, sessionFile, durable, ackedTurns>> /\ minted' \in Nat
  BY DEF WriteTemporary, SaveFails, SessionCrash, SessionInv, SessionShape
<1>2. CASE WriteTemporary(p)
  <2>1. /\ pc' = [pc EXCEPT ![p] = "written"] /\ view' = [view EXCEPT ![p] = view[p]]
        /\ out' = [out EXCEPT ![p] = out[p]] /\ lock' = lock /\ lock \in Proc \cup {"free"}
        /\ pc[p] = "locked"
    BY <1>2 DEF WriteTemporary, SessionInv, SessionShape
  <2>2. SaveOK(p, "written", view[p], out[p], sessionFile, lock')
    BY <2>1 DEF SaveOK
  <2> QED BY <1>1, <2>1, <2>2, ProcessMoves
<1>3. CASE SaveFails(p)
  <2>1. /\ pc' = [pc EXCEPT ![p] = "idle"] /\ view' = [view EXCEPT ![p] = view[p]]
        /\ out' = [out EXCEPT ![p] = NoFile] /\ lock' = "free" /\ pc[p] # "idle"
    BY <1>3 DEF SaveFails, SessionInv, SessionShape
  <2>2. SaveOK(p, "idle", view[p], NoFile, sessionFile, lock')
    BY DEF SaveOK
  <2>3. \A q \in Proc \ {p} : pc[q] = "idle"
    BY <2>1 DEF SessionInv, ProcessesOK, SaveOK
  <2> QED BY <1>1, <2>1, <2>2, <2>3, EmptyOK, ProcessMoves
<1>4. CASE SessionCrash(p)
  <2>1. /\ pc' = [pc EXCEPT ![p] = "idle"] /\ view' = [view EXCEPT ![p] = NoView]
        /\ out' = [out EXCEPT ![p] = NoFile]
        /\ lock' = (IF lock = p THEN "free" ELSE lock) /\ lock \in Proc \cup {"free"}
    BY <1>4 DEF SessionCrash, SessionInv, SessionShape
  <2>2. SaveOK(p, "idle", NoView, NoFile, sessionFile, lock') /\ ViewOK(party = {p}, NoView, sessionFile)
    BY EmptyOK DEF SaveOK, ViewOK
  <2>3. \A q \in Proc \ {p} : pc[q] # "idle" => lock' = lock
    BY <2>1 DEF SessionInv, ProcessesOK, SaveOK
  <2> QED BY <1>1, <2>1, <2>2, <2>3, EmptyOK, ProcessMoves
<1> QED
  BY <1>2, <1>3, <1>4

\* The rename: what was saved extends what it replaces, for everybody who looks.
LEMMA RenameSessionPreserves ==
  ASSUME SessionInv, NEW p \in Proc, p \in party, RenameSession(p)
  PROVE  SessionInv'
<1> USE ProcessTypes
<1>1. /\ pc[p] = "written" /\ sessionFile' = out[p] /\ durable' = durable \cup {out[p]}
      /\ pc' = [pc EXCEPT ![p] = "renamed"]
      /\ UNCHANGED <<party, lock, view, out, minted, ackedTurns>>
  BY DEF RenameSession
<1>2. /\ lock = p /\ view[p].form # "none" /\ out[p].form # "absent"
      /\ out[p].turns = view[p].turns
      /\ view[p].form = "checkpoint" => out[p].form = "versioned"
      /\ Moves(sessionFile, out[p])
  BY <1>1 DEF SaveOK
<1>3. /\ pc'[p] = "renamed" /\ \A q \in Proc \ {p} : pc'[q] = pc[q] /\ pc[q] = "idle"
  BY <1>1, <1>2 DEF SessionInv, SessionShape, ProcessesOK, SaveOK
<1>4. SessionShape'
  BY <1>1 DEF SessionInv, SessionShape
<1>5. PartyOK'
  BY <1>1, <1>2, <1>3 DEF SessionInv, SessionShape, PartyOK, Moves
<1>6. ProcessesOK'
  <2> SUFFICES ASSUME NEW q \in Proc
               PROVE  /\ ViewOK(party = {q}, view[q], out[p])
                      /\ SaveOK(q, pc'[q], view[q], out[q], out[p], lock)
    BY <1>1 DEF ProcessesOK
  <2>1. CASE q = p
    <3>1. IsPrefix(out[p].turns, view[p].turns)
      BY <1>2, PrefixOfItself
    <3>2. view[p].form = "checkpoint" => view[p].base <= Revision(out[p])
      <4>1. view[p].form = "checkpoint" => view[p].base <= Revision(sessionFile) /\ sessionFile.form # "absent"
        BY DEF ViewOK
      <4>2. sessionFile.form # "absent" => out[p] = sessionFile \/ Revision(out[p]) > Revision(sessionFile)
        BY <1>2 DEF Moves
      <4> DEFINE new == Revision(out[p])
                 old == Revision(sessionFile)
                 base == view[p].base
      <4>3. new \in Nat /\ old \in Nat /\ base \in Nat /\ (out[p] = sessionFile => new = old)
        OBVIOUS
      <4> HIDE DEF new, old, base
      <4> QED BY <4>1, <4>2, <4>3 DEF new, old, base
    <3> QED BY <2>1, <1>2, <1>3, <3>1, <3>2 DEF ViewOK, SaveOK
  <2>2. CASE q # p
    <3>1. SaveOK(q, pc'[q], view[q], out[q], out[p], lock)
      BY <1>3, <2>2 DEF SaveOK
    <3>2. party # {q}
      BY <2>2
    <3>3. ASSUME view[q].form = "checkpoint"
          PROVE  /\ view[q].base <= Revision(out[p])
                 /\ view[q].base = Revision(out[p]) => IsPrefix(out[p].turns, view[q].turns)
      <4>1. /\ sessionFile.form # "absent" /\ view[q].base <= Revision(sessionFile)
            /\ view[q].base = Revision(sessionFile) => IsPrefix(sessionFile.turns, view[q].turns)
        BY <3>3 DEF ViewOK
      <4>2. CASE out[p] = sessionFile
        BY <4>1, <4>2
      <4>3. CASE Revision(out[p]) > Revision(sessionFile)
        <5>1. \A x, y, z \in Nat : x <= y /\ z > y => x <= z /\ x # z
          OBVIOUS
        <5> QED BY <4>1, <4>3, <5>1
      <4> QED BY <4>1, <4>2, <4>3, <1>2 DEF Moves
    <3> QED BY <1>2, <3>1, <3>2, <3>3 DEF ViewOK
  <2> QED BY <2>1, <2>2
<1>7. AckedTurnsKept'
  <2>1. ackedTurns \subseteq ToSet(sessionFile.turns)
    BY DEF SessionInv, AckedTurnsKept
  <2>2. ackedTurns \subseteq ToSet(out[p].turns)
    BY <2>1, <1>2, PrefixElements DEF Moves
  <2> QED BY <1>1, <2>2 DEF SessionInv, AckedTurnsKept
<1> QED
  BY <1>4, <1>5, <1>6, <1>7 DEF SessionInv

\* The directory sync: what is acknowledged is the only thing that can be there.
LEMMA SyncSessionPreserves ==
  ASSUME SessionInv, NEW p \in Proc, p \in party, SyncSessionParent(p)
  PROVE  SessionInv'
<1> USE ProcessTypes
<1> DEFINE v == [view[p] EXCEPT !.base = out[p].revision]
<1>1. v \in View /\ v.form = view[p].form /\ v.turns = view[p].turns /\ v.base = out[p].revision
  BY DEF View
<1>2. /\ pc[p] = "renamed" /\ durable' = {sessionFile}
      /\ ackedTurns' = ackedTurns \cup ToSet(out[p].turns)
      /\ pc' = [pc EXCEPT ![p] = "idle"] /\ lock' = "free"
      /\ out' = [out EXCEPT ![p] = NoFile]
      /\ UNCHANGED <<party, sessionFile, minted>>
  BY DEF SyncSessionParent
<1>3. view' = [view EXCEPT ![p] = v]
  BY DEF SyncSessionParent, SessionInv, SessionShape, View
<1> HIDE DEF v
<1>4. /\ lock = p /\ sessionFile = out[p] /\ out[p].turns = view[p].turns /\ out[p].form # "absent"
      /\ view[p].form = "checkpoint" => out[p].form = "versioned"
  BY <1>2 DEF SaveOK
<1>5. \A q \in Proc \ {p} : pc[q] = "idle"
  BY <1>4 DEF SessionInv, ProcessesOK, SaveOK
<1>6. /\ pc'[p] = "idle" /\ view'[p] = v
      /\ \A q \in Proc \ {p} : pc'[q] = "idle" /\ view'[q] = view[q]
  BY <1>2, <1>3, <1>5 DEF SessionInv, SessionShape
<1>7. SessionShape'
  BY <1>1, <1>2, <1>3, EmptyOK DEF SessionInv, SessionShape
<1>8. PartyOK'
  BY <1>2, <1>6 DEF SessionInv, SessionShape, PartyOK
<1>9. ProcessesOK'
  <2> SUFFICES ASSUME NEW q \in Proc
               PROVE  /\ ViewOK(party = {q}, view'[q], sessionFile)
                      /\ SaveOK(q, "idle", view'[q], out'[q], sessionFile, lock')
    BY <1>2, <1>6 DEF ProcessesOK
  <2>1. SaveOK(q, "idle", view'[q], out'[q], sessionFile, lock')
    BY DEF SaveOK
  <2>2. CASE q = p
    <3>1. IsPrefix(sessionFile.turns, v.turns)
      BY <1>1, <1>4, PrefixOfItself
    <3>2. v.form = "checkpoint" => v.base = Revision(sessionFile)
      BY <1>1, <1>4 DEF Revision
    <3>3. v.form = "checkpoint" => v.base <= Revision(sessionFile)
      BY <3>2
    <3> QED BY <2>1, <2>2, <1>4, <1>6, <3>1, <3>2, <3>3 DEF ViewOK
  <2>3. CASE q # p
    BY <2>1, <2>3, <1>6
  <2> QED BY <2>2, <2>3
<1>10. AckedTurnsKept'
  BY <1>2, <1>4 DEF SessionInv, AckedTurnsKept
<1> QED
  BY <1>7, <1>8, <1>9, <1>10 DEF SessionInv

\* A power loss leaves one of the documents that could be there.
LEMMA PowerLossPreserves ==
  ASSUME SessionInv, PowerLoss
  PROVE  SessionInv'
<1>1. /\ sessionFile' \in durable /\ durable' = {sessionFile'} /\ lock' = "free"
      /\ pc' = [p \in Proc |-> "idle"] /\ view' = [p \in Proc |-> NoView]
      /\ out' = [p \in Proc |-> NoFile]
      /\ UNCHANGED <<party, minted, ackedTurns>>
  BY DEF PowerLoss
<1>2. SessionShape'
  BY <1>1, EmptyOK DEF SessionInv, SessionShape
<1>3. PartyOK'
  BY <1>1 DEF SessionInv, PartyOK
<1>4. ProcessesOK'
  BY <1>1, EmptyOK DEF ProcessesOK, ViewOK, SaveOK
<1>5. AckedTurnsKept'
  BY <1>1 DEF SessionInv, AckedTurnsKept
<1> QED
  BY <1>2, <1>3, <1>4, <1>5 DEF SessionInv

\* SessionInv is an inductive invariant of careful use.
THEOREM SessionInvariant == CarefulSpec => []SessionInv
<1>1. CarefulInit => SessionInv
  <2> SUFFICES ASSUME CarefulInit PROVE SessionInv
    OBVIOUS
  <2>0. SessionInit
    BY DEF CarefulInit
  <2>1. <<1>> \in Seq(Nat)
    OBVIOUS
  <2>2. Legacy(<<1>>) \in Document /\ Versioned(<<1>>, 1) \in Document
    BY <2>1 DEF Legacy, Versioned, Document, Forms
  <2>3. sessionFile \in Document /\ sessionFile.turns \in Seq(Nat)
    <3>1. sessionFile \in Document
      BY <2>0, <2>2, EmptyOK DEF SessionInit
    <3> QED BY <3>1 DEF Document
  <2>4. SessionShape
    BY <2>0, <2>3, EmptyOK DEF SessionInit, SessionShape
  <2>5. PartyOK
    BY <2>0 DEF SessionInit, CarefulInit, PartyOK
  <2>6. ProcessesOK
    BY <2>0, EmptyOK DEF SessionInit, ProcessesOK, ViewOK, SaveOK
  <2>7. AckedTurnsKept
    BY <2>0 DEF SessionInit, AckedTurnsKept
  <2> QED BY <2>4, <2>5, <2>6, <2>7 DEF SessionInv
<1>2. SessionInv /\ [CarefulNext]_sessionVars => SessionInv'
  <2> SUFFICES ASSUME SessionInv, [CarefulNext]_sessionVars PROVE SessionInv'
    OBVIOUS
  <2>1. CASE UNCHANGED sessionVars
    BY <2>1 DEF sessionVars, SessionInv, SessionShape, PartyOK, ProcessesOK, AckedTurnsKept
  <2>2. party \in SUBSET Proc
    BY DEF SessionInv, SessionShape
  <2>3. ASSUME NEW p \in party, Step(p) PROVE SessionInv'
    BY <2>1, <2>2, <2>3, MemoryPreserves, BeginSavePreserves, SaveStepsPreserve,
       RenameSessionPreserves, SyncSessionPreserves DEF Step, SaveNothing
  <2>4. ASSUME NEW p \in Proc, party = {p}, BeginSave(p, FALSE) PROVE SessionInv'
    BY <2>4, BeginSavePreserves
  <2> QED BY <2>1, <2>3, <2>4, PowerLossPreserves DEF CarefulNext, SessionNext
<1> QED
  BY <1>1, <1>2, PTL DEF CarefulSpec

\* Under careful use, for any number of processes, turns and revisions: no turn a
\* save returned Ok for is ever lost, across stale writers of both kinds, crashes,
\* failed syncs and power losses (store.rs, save and save_checkpoint).
THEOREM TurnsKept == CarefulSpec => []AckedTurnsKept
<1>1. SessionInv => AckedTurnsKept
  BY DEF SessionInv
<1> QED
  BY <1>1, SessionInvariant, PTL

\* A revision names one content: a writer whose expected revision is the one on
\* disk has everything that is on disk (save_checkpoint).
THEOREM RevisionsSound == CarefulSpec => []RevisionNamesContent
<1>1. SessionInv => RevisionNamesContent
  BY DEF SessionInv, ProcessesOK, ViewOK, RevisionNamesContent
<1> QED
  BY <1>1, SessionInvariant, PTL

\* The action of OnlyForward.
Forward ==
  ~PowerLoss /\ sessionFile' # sessionFile =>
    /\ sessionFile.form = "versioned" => sessionFile'.form = "versioned"
    /\ IsPrefix(sessionFile.turns, sessionFile'.turns)
    /\ sessionFile # NoFile => Revision(sessionFile') > Revision(sessionFile)

\* While the machine keeps its power the file only moves forward: turns are
\* extended, the revision grows, a versioned file never becomes a legacy one.
THEOREM FileMovesForward == CarefulSpec => OnlyForward
<1>1. SessionInv /\ [CarefulNext]_sessionVars => Forward
  <2> SUFFICES ASSUME SessionInv, [CarefulNext]_sessionVars, ~PowerLoss, sessionFile' # sessionFile
               PROVE  /\ sessionFile.form = "versioned" => sessionFile'.form = "versioned"
                      /\ IsPrefix(sessionFile.turns, sessionFile'.turns)
                      /\ sessionFile # NoFile => Revision(sessionFile') > Revision(sessionFile)
    BY DEF Forward
  <2>1. PICK p \in Proc : RenameSession(p)
    BY DEF CarefulNext, SessionNext, Step, sessionVars, NewSession, ResumeSession, ResumeCheckpoint,
       RecordTurn, TouchCheckpoint, BeginSave, SaveNothing, WriteTemporary, SyncSessionParent,
       SaveFails, SessionCrash, SessionInv, SessionShape
  <2>2. pc[p] = "written" /\ sessionFile' = out[p]
    BY <2>1 DEF RenameSession
  <2>3. Moves(sessionFile, out[p])
    BY <2>2, ProcessTypes DEF SaveOK
  <2> QED BY <2>2, <2>3, ProcessTypes DEF Moves
<1> QED
  BY <1>1, SessionInvariant, PTL DEF CarefulSpec, OnlyForward, Forward

-----------------------------------------------------------------------------
(***************************************************************************)
(* Secrets                                                                 *)
(***************************************************************************)
Kept == Values \cup {NoSecret}
VaultFile == [exists : BOOLEAN, records : [Accounts -> Kept], key : Passphrases \cup {NoSecret},
              synced : BOOLEAN]
Inside == {"load", "temp", "synced", "renamed"}
HolderRecord ==
  [pc : {"closed", "idle", "lock"} \cup Inside, keyring : BOOLEAN,
   passphrase : Passphrases \cup {NoSecret}, account : Accounts \cup {NoSecret},
   value : Kept, temp : VaultFile]

SecretsShape ==
  /\ vault \in VaultFile /\ vault_disk \in VaultFile
  /\ vault_lock \in Holders \cup {Free}
  /\ holder \in [Holders -> HolderRecord]
  /\ keyring \in [Accounts -> Kept] /\ keyring_up \in BOOLEAN
  /\ acked \in [Accounts -> Kept] /\ doubted \in [Accounts -> SUBSET Kept]

\* Where a holder is in its write: inside a transaction it has the lock, its new vault is
\* the present one with its record changed, and what was renamed holds that record.
HolderSound(p) ==
  LET h == holder[p] IN
  /\ h.pc \in Inside => vault_lock = p
  /\ h.account # NoSecret <=> h.pc \in {"lock"} \cup Inside
  /\ h.pc = "synced" => h.temp.synced
  /\ h.pc \in {"temp", "synced"} =>
       h.temp.exists /\ h.temp.records = [vault.records EXCEPT ![h.account] = h.value]
  /\ h.pc = "renamed" => vault.records[h.account] = h.value
  /\ h.pc # "closed" => h.keyring = keyring_up

\* No vault is torn, and one that is not there holds nothing.
VaultWhole(f) == f.synced /\ (~f.exists => f.records = NoRecords)

\* What the disk holds of an account was reported or doubted; what the vault holds may
\* also be the record of the write that renamed it.
AccountSound(a) ==
  IF keyring[a] # NoSecret THEN keyring_up /\ keyring[a] = acked[a]
  ELSE /\ vault_disk.records[a] \in {acked[a]} \cup doubted[a]
       /\ \/ vault.records[a] \in {acked[a]} \cup doubted[a]
          \/ \E p \in Holders : holder[p].pc = "renamed" /\ holder[p].account = a

SecretsInv ==
  /\ SecretsShape
  /\ \A p \in Holders : HolderSound(p)
  /\ VaultWhole(vault) /\ VaultWhole(vault_disk)
  /\ \A a \in Accounts : AccountSound(a)

\* Only one holder is inside the transaction.
LEMMA OneInside ==
  ASSUME SecretsInv, NEW p \in Holders, NEW q \in Holders,
         holder[p].pc \in Inside, holder[q].pc \in Inside
  PROVE  p = q
  BY DEF SecretsInv, HolderSound

\* A holder that does not move stays where it was, while the vault does, or it is outside.
LEMMA OtherHolder ==
  ASSUME SecretsInv, NEW q \in Holders, holder'[q] = holder[q], keyring_up' = keyring_up,
         holder[q].pc \in Inside => vault_lock' = q /\ vault' = vault
  PROVE  HolderSound(q)'
<1>1. HolderSound(q)
  BY DEF SecretsInv
<1>2. CASE holder[q].pc \in Inside
  BY <1>1, <1>2 DEF HolderSound
<1>3. CASE holder[q].pc \notin Inside
  BY <1>1, <1>3 DEF HolderSound, Inside
<1> QED
  BY <1>2, <1>3

\* The fields of a new holder.
LEMMA HolderFields ==
  ASSUME SecretsInv, NEW p \in Holders
  PROVE  /\ holder[p] \in HolderRecord
         /\ holder[p].pc \in {"closed", "idle", "lock"} \cup Inside /\ holder[p].keyring \in BOOLEAN
         /\ holder[p].passphrase \in Passphrases \cup {NoSecret}
         /\ holder[p].account \in Accounts \cup {NoSecret} /\ holder[p].value \in Kept
         /\ holder[p].temp \in VaultFile
  BY DEF SecretsInv, SecretsShape, HolderRecord

\* What is at rest keeps its shape.
LEMMA RestHolders ==
  /\ NoVault \in VaultFile /\ IdleHolder \in HolderRecord
  /\ NoSecret \notin Accounts /\ NoSecret \in Kept
  BY SecretsAssumption DEF NoVault, VaultFile, NoRecords, IdleHolder, HolderRecord, Kept, NoSecret, Inside

\* A step that moves one holder and no file keeps what is known, if the holder did not
\* leave a renamed vault behind and comes to be where its place says.
LEMMA HolderMoves ==
  ASSUME SecretsInv, NEW p \in Holders, NEW h \in HolderRecord,
         holder' = [holder EXCEPT ![p] = h], HolderSound(p)',
         UNCHANGED <<vault, vault_disk, keyring, keyring_up, acked, doubted>>,
         vault_lock' \in Holders \cup {Free},
         vault_lock' = vault_lock \/ vault_lock \in {p, Free},
         holder[p].pc = "renamed" => vault.records[holder[p].account] \in
           {acked[holder[p].account]} \cup doubted[holder[p].account]
  PROVE  SecretsInv'
<1>1. SecretsShape'
  BY DEF SecretsInv, SecretsShape
<1>2. holder'[p] = h /\ \A q \in Holders \ {p} : holder'[q] = holder[q]
  BY DEF SecretsInv, SecretsShape
<1>3. ASSUME NEW q \in Holders, q # p PROVE HolderSound(q)'
  <2>1. holder[q].pc \in Inside => vault_lock = q
    BY DEF SecretsInv, HolderSound
  <2>2. q # Free
    BY SecretsAssumption DEF Free
  <2> QED
    BY <1>2, <1>3, <2>1, <2>2, OtherHolder
<1>4. ASSUME NEW a \in Accounts PROVE AccountSound(a)'
  <2>1. AccountSound(a)
    BY DEF SecretsInv
  <2>2. CASE holder[p].pc = "renamed" /\ holder[p].account = a
    BY <2>1, <2>2 DEF AccountSound
  <2>3. CASE ~(holder[p].pc = "renamed" /\ holder[p].account = a)
    BY <1>2, <2>1, <2>3 DEF AccountSound
  <2> QED
    BY <2>2, <2>3
<1>5. VaultWhole(vault)' /\ VaultWhole(vault_disk)'
  BY DEF SecretsInv, VaultWhole, NoRecords
<1> QED
  BY <1>1, <1>3, <1>4, <1>5 DEF SecretsInv

\* An open manager, one that unlocks, and one that takes the lock, write nothing
\* (open_with_store, unlock, lock_transaction).
LEMMA OpenKept ==
  ASSUME SecretsInv, ~KeyringFlips, NEW p \in Holders, UNCHANGED keyring_up,
         \/ \E b \in BOOLEAN : OpenManager(p, b)
         \/ \E k \in Passphrases \cup {NoSecret} : Unlock(p, k)
         \/ LockTransaction(p)
  PROVE  SecretsInv'
<1>1. ASSUME NEW b \in BOOLEAN, OpenManager(p, b) PROVE SecretsInv'
  <2> DEFINE h == [IdleHolder EXCEPT !.keyring = b]
  <2>1. h \in HolderRecord /\ h.pc = "idle" /\ h.account = NoSecret /\ h.keyring = keyring_up
    BY <1>1, RestHolders DEF OpenManager, IdleHolder, HolderRecord
  <2>2. holder' = [holder EXCEPT ![p] = h] /\ holder[p].pc = "closed"
    BY <1>1 DEF OpenManager, Sets
  <2> HIDE DEF h
  <2>3. HolderSound(p)'
    BY <1>1, <2>1, <2>2 DEF SecretsInv, SecretsShape, HolderSound, Inside
  <2> QED
    BY <1>1, <2>1, <2>2, <2>3, HolderMoves DEF OpenManager, SecretsInv, SecretsShape
<1>2. ASSUME NEW k \in Passphrases \cup {NoSecret}, Unlock(p, k) PROVE SecretsInv'
  <2> DEFINE h == [holder[p] EXCEPT !.passphrase = k]
  <2>1. /\ h \in HolderRecord /\ h.pc = holder[p].pc /\ h.account = holder[p].account
        /\ h.keyring = holder[p].keyring
    BY HolderFields DEF HolderRecord
  <2>2. holder' = [holder EXCEPT ![p] = h] /\ holder[p].pc = "idle"
    BY <1>2 DEF Unlock, Sets
  <2> HIDE DEF h
  <2>3. HolderSound(p)'
    BY <1>2, <2>1, <2>2 DEF SecretsInv, SecretsShape, HolderSound, Inside
  <2> QED
    BY <1>2, <2>1, <2>2, <2>3, HolderMoves DEF Unlock, SecretsInv, SecretsShape
<1>3. ASSUME LockTransaction(p) PROVE SecretsInv'
  <2> DEFINE h == [holder[p] EXCEPT !.pc = "load"]
  <2>1. /\ h \in HolderRecord /\ h.pc = "load" /\ h.account = holder[p].account
        /\ h.keyring = holder[p].keyring
    BY HolderFields DEF HolderRecord, Inside
  <2>2. holder' = [holder EXCEPT ![p] = h] /\ holder[p].pc = "lock" /\ vault_lock = Free /\ vault_lock' = p
    BY <1>3 DEF LockTransaction, Sets
  <2> HIDE DEF h
  <2>3. HolderSound(p)'
    BY <1>3, <2>1, <2>2 DEF SecretsInv, SecretsShape, HolderSound, Inside
  <2> QED
    BY <1>3, <2>1, <2>2, <2>3, HolderMoves DEF LockTransaction
<1> QED
  BY <1>1, <1>2, <1>3

\* The holder p is done, with the lock released.
LEMMA DoneHolder ==
  ASSUME SecretsInv, NEW p \in Holders, Done(p), Unlocks(p), keyring_up' = keyring_up, holder[p].pc # "closed"
  PROVE  /\ holder' = [holder EXCEPT ![p] = holder'[p]] /\ holder'[p] \in HolderRecord
         /\ holder'[p].pc = "idle" /\ HolderSound(p)'
         /\ \A q \in Holders \ {p} : holder'[q] = holder[q]
         /\ vault_lock' \in Holders \cup {Free}
         /\ vault_lock' = vault_lock \/ vault_lock \in {p, Free}
<1> DEFINE h == [holder[p] EXCEPT !.pc = "idle", !.account = NoSecret, !.value = NoSecret, !.temp = NoVault]
<1>1. h \in HolderRecord /\ h.pc = "idle" /\ h.account = NoSecret /\ h.keyring = holder[p].keyring
  BY HolderFields, RestHolders DEF HolderRecord
<1>2. holder' = [holder EXCEPT ![p] = h]
  BY DEF Done, Sets
<1> HIDE DEF h
<1>3. holder'[p] = h /\ \A q \in Holders \ {p} : holder'[q] = holder[q]
  BY <1>2 DEF SecretsInv, SecretsShape
<1>4. HolderSound(p)'
  BY <1>1, <1>3 DEF SecretsInv, HolderSound, Inside
<1> QED
  BY <1>1, <1>2, <1>3, <1>4 DEF Unlocks, SecretsInv, SecretsShape

\* Loading, encrypting and syncing the new file change no vault (transaction, save).
LEMMA PrepareKept ==
  ASSUME SecretsInv, NEW p \in Holders, UNCHANGED keyring_up, LoadAndWriteTemp(p) \/ SyncTemp(p)
  PROVE  SecretsInv'
<1>1. CASE SyncTemp(p)
  <2> DEFINE t == [holder[p].temp EXCEPT !.synced = TRUE]
             h == [holder[p] EXCEPT !.pc = "synced", !.temp.synced = TRUE]
  <2>1. /\ t \in VaultFile /\ t.synced /\ t.exists = holder[p].temp.exists
        /\ t.records = holder[p].temp.records
    BY HolderFields DEF VaultFile
  <2>2. h = [holder[p] EXCEPT !.pc = "synced", !.temp = t]
    BY HolderFields DEF HolderRecord
  <2>3. holder' = [holder EXCEPT ![p] = h] /\ holder[p].pc = "temp"
    BY <1>1 DEF SyncTemp, Sets
  <2> HIDE DEF t, h
  <2>4. /\ h \in HolderRecord /\ h.pc = "synced" /\ h.account = holder[p].account
        /\ h.value = holder[p].value /\ h.keyring = holder[p].keyring /\ h.temp = t
    BY <2>1, <2>2, HolderFields DEF HolderRecord, Inside
  <2>5. HolderSound(p)'
    BY <1>1, <2>1, <2>3, <2>4 DEF SyncTemp, SecretsInv, SecretsShape, HolderSound, Inside
  <2> QED
    BY <1>1, <2>3, <2>4, <2>5, HolderMoves DEF SyncTemp, SecretsInv, SecretsShape
<1>2. CASE LoadAndWriteTemp(p)
  <2>0. holder[p].pc = "load" /\ UNCHANGED <<vault, vault_disk, keyring, writes, acked, doubted>>
    BY <1>2 DEF LoadAndWriteTemp
  <2>1. CASE Done(p) /\ Unlocks(p)
    BY <2>0, <2>1, DoneHolder, HolderMoves
  <2>2. CASE /\ passphrase(p) # NoSecret
             /\ Sets(p, [holder[p] EXCEPT !.pc = "temp",
                  !.temp = Sealed([vault.records EXCEPT ![holder[p].account] = holder[p].value], passphrase(p))])
             /\ UNCHANGED vault_lock
    <3> DEFINE t == Sealed([vault.records EXCEPT ![holder[p].account] = holder[p].value], passphrase(p))
               h == [holder[p] EXCEPT !.pc = "temp", !.temp = t]
    <3>1. passphrase(p) \in Passphrases \cup {NoSecret}
      BY HolderFields, SecretsAssumption DEF passphrase, NoSecret
    <3>2. [vault.records EXCEPT ![holder[p].account] = holder[p].value] \in [Accounts -> Kept]
      BY HolderFields DEF SecretsInv, SecretsShape, VaultFile
    <3>3. /\ t \in VaultFile /\ t.exists
          /\ t.records = [vault.records EXCEPT ![holder[p].account] = holder[p].value]
      BY <3>1, <3>2 DEF Sealed, VaultFile
    <3>4. holder' = [holder EXCEPT ![p] = h]
      BY <2>2 DEF Sets
    <3> HIDE DEF t
    <3>5. /\ h \in HolderRecord /\ h.pc = "temp" /\ h.account = holder[p].account
          /\ h.value = holder[p].value /\ h.keyring = holder[p].keyring /\ h.temp = t
      BY <3>3, HolderFields DEF HolderRecord, Inside
    <3> HIDE DEF h
    <3>6. HolderSound(p)'
      BY <2>0, <2>2, <3>3, <3>4, <3>5 DEF SecretsInv, SecretsShape, HolderSound, Inside
    <3> QED
      BY <2>0, <2>2, <3>4, <3>5, <3>6, HolderMoves DEF SecretsInv, SecretsShape
  <2> QED
    BY <1>2, <2>1, <2>2 DEF LoadAndWriteTemp
<1> QED
  BY <1>1, <1>2

\* The new vault takes the old one's place (rename).
LEMMA RenameKept ==
  ASSUME SecretsInv, NEW p \in Holders, UNCHANGED keyring_up, Rename(p)
  PROVE  SecretsInv'
<1> DEFINE h == [holder[p] EXCEPT !.pc = "renamed"]
           b == holder[p].account
<1>1. /\ h \in HolderRecord /\ h.pc = "renamed" /\ h.account = b
      /\ h.value = holder[p].value /\ h.keyring = holder[p].keyring
  BY HolderFields DEF HolderRecord, Inside
<1>2. /\ holder' = [holder EXCEPT ![p] = h] /\ holder[p].pc = "synced" /\ vault' = holder[p].temp
      /\ UNCHANGED <<vault_disk, vault_lock, keyring, acked, doubted>>
  BY DEF Rename, Sets
<1>3. /\ b \in Accounts /\ vault' \in VaultFile /\ vault'.synced /\ vault'.exists
      /\ vault'.records = [vault.records EXCEPT ![b] = holder[p].value]
      /\ vault.records \in [Accounts -> Kept] /\ vault_lock = p
  BY <1>2, HolderFields DEF SecretsInv, SecretsShape, HolderSound, Inside, VaultFile
<1> HIDE DEF h
<1>4. holder'[p] = h /\ \A q \in Holders \ {p} : holder'[q] = holder[q]
  BY <1>2 DEF SecretsInv, SecretsShape
<1>5. SecretsShape'
  BY <1>1, <1>2, <1>3 DEF SecretsInv, SecretsShape
<1>6. ASSUME NEW q \in Holders PROVE HolderSound(q)'
  <2>1. CASE q = p
    BY <1>1, <1>2, <1>3, <1>4, <2>1 DEF SecretsInv, HolderSound, Inside
  <2>2. CASE q # p
    <3>1. holder[q].pc \notin Inside
      BY <1>3, <2>2 DEF SecretsInv, HolderSound
    <3> QED
      BY <1>4, <2>2, <3>1, OtherHolder
  <2> QED
    BY <2>1, <2>2
<1>7. ASSUME NEW a \in Accounts PROVE AccountSound(a)'
  <2>1. AccountSound(a)
    BY DEF SecretsInv
  <2>2. CASE a = b
    BY <1>1, <1>2, <1>4, <2>1, <2>2 DEF AccountSound
  <2>3. CASE a # b
    <3>1. vault'.records[a] = vault.records[a]
      BY <1>3, <2>3
    <3>2. \A q \in Holders : holder[q].pc = "renamed" => holder'[q] = holder[q]
      BY <1>2, <1>4
    <3> QED
      BY <1>2, <2>1, <3>1, <3>2 DEF AccountSound
  <2> QED
    BY <2>2, <2>3
<1>8. VaultWhole(vault)' /\ VaultWhole(vault_disk)'
  BY <1>2, <1>3 DEF SecretsInv, VaultWhole, NoRecords
<1> QED
  BY <1>5, <1>6, <1>7, <1>8 DEF SecretsInv

\* The directory is synced: the disk has what the vault has, and the write is reported.
LEMMA SyncDirectoryKept ==
  ASSUME SecretsInv, NEW p \in Holders, UNCHANGED keyring_up, SyncDirectory(p)
  PROVE  SecretsInv'
<1> DEFINE b == holder[p].account
           v == IF keyring[b] # NoSecret THEN keyring[b] ELSE holder[p].value
<1>1. /\ holder[p].pc = "renamed" /\ Done(p) /\ Unlocks(p) /\ vault_disk' = vault
      /\ acked' = [acked EXCEPT ![b] = v] /\ doubted' = [doubted EXCEPT ![b] = {}]
      /\ UNCHANGED <<vault, keyring>>
  BY DEF SyncDirectory, AckVault, Ack
<1>2. /\ holder'[p].pc = "idle" /\ holder'[p] \in HolderRecord /\ HolderSound(p)'
      /\ holder' = [holder EXCEPT ![p] = holder'[p]]
      /\ \A q \in Holders \ {p} : holder'[q] = holder[q]
      /\ vault_lock' \in Holders \cup {Free}
  BY <1>1, DoneHolder
<1>3. b \in Accounts /\ vault.records[b] = holder[p].value /\ vault_lock = p
  BY <1>1, HolderFields DEF SecretsInv, HolderSound, Inside
<1>4. v \in Kept
  BY <1>3, HolderFields DEF SecretsInv, SecretsShape
<1> HIDE DEF v
<1>5. SecretsShape'
  BY <1>1, <1>2, <1>4 DEF SecretsInv, SecretsShape
<1>6. ASSUME NEW q \in Holders PROVE HolderSound(q)'
  <2>1. CASE q # p
    <3>1. holder[q].pc \notin Inside
      BY <1>3, <2>1 DEF SecretsInv, HolderSound
    <3> QED
      BY <1>2, <2>1, <3>1, OtherHolder
  <2> QED
    BY <1>2, <2>1
<1>7. ASSUME NEW a \in Accounts PROVE AccountSound(a)'
  <2>1. AccountSound(a) /\ acked \in [Accounts -> Kept] /\ doubted \in [Accounts -> SUBSET Kept]
    BY DEF SecretsInv, SecretsShape
  <2>2. CASE a = b
    BY <1>1, <1>3, <2>1, <2>2 DEF AccountSound, v
  <2>3. CASE a # b
    <3>1. acked'[a] = acked[a] /\ doubted'[a] = doubted[a]
      BY <1>1, <2>1, <2>3
    <3>2. ~\E q \in Holders : holder[q].pc = "renamed" /\ holder[q].account = a
      BY <1>1, <2>3, OneInside DEF Inside
    <3> QED
      BY <1>1, <2>1, <3>1, <3>2 DEF AccountSound
  <2> QED
    BY <2>2, <2>3
<1>8. VaultWhole(vault)' /\ VaultWhole(vault_disk)'
  BY <1>1 DEF SecretsInv, VaultWhole, NoRecords
<1> QED
  BY <1>5, <1>6, <1>7, <1>8 DEF SecretsInv

\* A write that ends without a report, however it ends, is doubted; other holders stay.
LEMMA DoubtedKept ==
  ASSUME SecretsInv, NEW p \in Holders, NEW h \in HolderRecord,
         holder' = [holder EXCEPT ![p] = h], h.pc \in {"idle", "closed"}, HolderSound(p)',
         UNCHANGED <<vault, vault_disk, keyring, keyring_up>>, Unlocks(p),
         IF holder[p].account # NoSecret THEN Doubt(holder[p].account, holder[p].value)
         ELSE UNCHANGED <<acked, doubted>>
  PROVE  SecretsInv'
<1> DEFINE b == holder[p].account
<1>1. holder'[p] = h /\ \A q \in Holders \ {p} : holder'[q] = holder[q]
  BY DEF SecretsInv, SecretsShape
<1>2. /\ acked' = acked /\ doubted' \in [Accounts -> SUBSET Kept]
      /\ \A a \in Accounts : doubted[a] \subseteq doubted'[a]
      /\ b # NoSecret => b \in Accounts /\ holder[p].value \in doubted'[b]
  <2>1. b \in Accounts \cup {NoSecret} /\ holder[p].value \in Kept
    BY HolderFields
  <2>2. doubted \in [Accounts -> SUBSET Kept]
    BY DEF SecretsInv, SecretsShape
  <2>3. CASE b # NoSecret
    BY <2>1, <2>2, <2>3 DEF Doubt
  <2>4. CASE b = NoSecret
    BY <2>2, <2>4
  <2> QED
    BY <2>3, <2>4
<1>3. SecretsShape'
  BY <1>2 DEF SecretsInv, SecretsShape, Unlocks
<1>4. ASSUME NEW q \in Holders, q # p PROVE HolderSound(q)'
  <2>1. holder[q].pc \in Inside => vault_lock' = q
    BY <1>4 DEF SecretsInv, HolderSound, Unlocks
  <2> QED
    BY <1>1, <1>4, <2>1, OtherHolder
<1>5. ASSUME NEW a \in Accounts PROVE AccountSound(a)'
  <2>1. AccountSound(a)
    BY DEF SecretsInv
  <2>2. HolderSound(p) /\ NoSecret \notin Accounts
    BY RestHolders DEF SecretsInv
  <2>3. CASE holder[p].pc = "renamed" /\ b = a
    BY <1>2, <2>1, <2>2, <2>3 DEF AccountSound, HolderSound
  <2>4. CASE ~(holder[p].pc = "renamed" /\ b = a)
    BY <1>1, <1>2, <2>1, <2>4 DEF AccountSound
  <2> QED
    BY <2>3, <2>4
<1>6. VaultWhole(vault)' /\ VaultWhole(vault_disk)'
  BY DEF SecretsInv, VaultWhole, NoRecords
<1> QED
  BY <1>3, <1>4, <1>5, <1>6 DEF SecretsInv

\* An error at any step, and the death of the process (StepFails, HolderDies).
LEMMA EndedKept ==
  ASSUME SecretsInv, NEW p \in Holders, UNCHANGED keyring_up, StepFails(p) \/ HolderDies(p)
  PROVE  SecretsInv'
<1>1. CASE StepFails(p)
  <2>1. holder[p].pc \in Inside /\ Done(p) /\ Unlocks(p) /\ Doubt(holder[p].account, holder[p].value)
        /\ UNCHANGED <<vault, vault_disk, keyring>>
    BY <1>1 DEF StepFails, Inside
  <2>2. holder[p].account # NoSecret
    BY <2>1 DEF SecretsInv, HolderSound
  <2>3. holder[p].pc # "closed"
    BY <2>1 DEF Inside
  <2> QED
    BY <2>1, <2>2, <2>3, DoneHolder, DoubtedKept
<1>2. CASE HolderDies(p)
  <2> DEFINE h == [IdleHolder EXCEPT !.pc = "closed"]
  <2>1. h \in HolderRecord /\ h.pc = "closed" /\ h.account = NoSecret
    BY RestHolders DEF HolderRecord, IdleHolder
  <2>2. /\ holder' = [holder EXCEPT ![p] = h] /\ Unlocks(p)
        /\ UNCHANGED <<vault, vault_disk, keyring>>
        /\ IF holder[p].account # NoSecret THEN Doubt(holder[p].account, holder[p].value)
           ELSE UNCHANGED <<acked, doubted>>
    BY <1>2 DEF HolderDies, Sets
  <2> HIDE DEF h
  <2>3. HolderSound(p)'
    BY <2>1, <2>2 DEF SecretsInv, SecretsShape, HolderSound, Inside
  <2> QED
    BY <2>1, <2>2, <2>3, DoubtedKept
<1> QED
  BY <1>1, <1>2

\* What was renamed is under way.
LEMMA RenamedInFlight ==
  ASSUME SecretsInv, NEW q \in Holders, holder[q].pc = "renamed"
  PROVE  vault.records[holder[q].account] \in InFlight(holder[q].account)
<1>1. vault.records[holder[q].account] = holder[q].value
  BY DEF SecretsInv, HolderSound
<1> QED
  BY <1>1 DEF InFlight

\* The power goes: one of the two files is what is left, and what was under way is doubted.
LEMMA VaultPowerLossKept ==
  ASSUME SecretsInv, UNCHANGED keyring_up, VaultPowerLoss
  PROVE  SecretsInv'
<1> DEFINE h == [IdleHolder EXCEPT !.pc = "closed"]
<1>1. h \in HolderRecord /\ h.pc = "closed" /\ h.account = NoSecret
  BY RestHolders DEF HolderRecord, IdleHolder
<1>2. PICK f \in {vault, vault_disk} : vault' = f /\ vault_disk' = f
  BY DEF VaultPowerLoss
<1>3. /\ vault_lock' = Free /\ holder' = [p \in Holders |-> h] /\ UNCHANGED <<keyring, acked>>
      /\ doubted' = [a \in Accounts |-> doubted[a] \cup InFlight(a)]
  BY DEF VaultPowerLoss, InFlight
<1> HIDE DEF h
<1>4. \A a \in Accounts : InFlight(a) \subseteq Kept
  BY HolderFields DEF InFlight
<1>5. SecretsShape'
  BY <1>1, <1>2, <1>3, <1>4 DEF SecretsInv, SecretsShape
<1>6. ASSUME NEW q \in Holders PROVE HolderSound(q)'
  BY <1>1, <1>3 DEF HolderSound, Inside
<1>7. ASSUME NEW a \in Accounts PROVE AccountSound(a)'
  <2>1. AccountSound(a)
    BY DEF SecretsInv
  <2>2. \A q \in Holders : holder[q].pc = "renamed" /\ holder[q].account = a =>
          vault.records[a] \in InFlight(a)
    BY RenamedInFlight
  <2>3. doubted'[a] = doubted[a] \cup InFlight(a)
    BY <1>3
  <2> QED
    BY <1>2, <1>3, <2>1, <2>2, <2>3 DEF AccountSound
<1>8. VaultWhole(vault)' /\ VaultWhole(vault_disk)'
  BY <1>2 DEF SecretsInv, VaultWhole, NoRecords
<1> QED
  BY <1>5, <1>6, <1>7, <1>8 DEF SecretsInv

\* A set in the keyring is reported at once; a delete there doubts what it uncovers, and
\* goes on in the vault as every other write begins.
LEMMA BeginKept ==
  ASSUME SecretsInv, NEW p \in Holders, NEW b \in Accounts, NEW v \in Kept, UNCHANGED keyring_up,
         Begin(p, b, v)
  PROVE  SecretsInv'
<1> DEFINE h == [holder[p] EXCEPT !.pc = "lock", !.account = b, !.value = v]
<1>0. holder[p].pc = "idle" /\ UNCHANGED <<vault, vault_disk, vault_lock>>
  BY DEF Begin
<1>1. /\ h \in HolderRecord /\ h.pc = "lock" /\ h.account = b /\ h.value = v
      /\ h.keyring = holder[p].keyring
  BY HolderFields DEF HolderRecord
<1> HIDE DEF h
<1>2. ASSUME holder' = [holder EXCEPT ![p] = h] PROVE HolderSound(p)'
  <2>1. holder'[p] = h
    BY <1>2 DEF SecretsInv, SecretsShape
  <2>2. HolderSound(p) /\ b # NoSecret
    BY RestHolders DEF SecretsInv
  <2> QED
    BY <1>0, <1>1, <2>1, <2>2 DEF HolderSound, Inside
<1>3. CASE ~holder[p].keyring
  <2>1. holder' = [holder EXCEPT ![p] = h] /\ UNCHANGED <<keyring, acked, doubted>>
    BY <1>3 DEF Begin, Sets, h
  <2> QED
    BY <1>0, <1>1, <1>2, <2>1, HolderMoves DEF SecretsInv, SecretsShape
<1>4. CASE holder[p].keyring /\ v = NoSecret
  <2>1. /\ holder' = [holder EXCEPT ![p] = h] /\ keyring' = [keyring EXCEPT ![b] = NoSecret]
        /\ acked' = acked
        /\ doubted' = [doubted EXCEPT ![b] = @ \cup {NoSecret, vault.records[b], vault_disk.records[b]}]
    BY <1>4 DEF Begin, Sets, h, keyring_put
  <2>2. /\ vault.records[b] \in Kept /\ vault_disk.records[b] \in Kept /\ NoSecret \in Kept
        /\ keyring \in [Accounts -> Kept] /\ doubted \in [Accounts -> SUBSET Kept]
    BY RestHolders DEF SecretsInv, SecretsShape, VaultFile
  <2>3. holder'[p] = h /\ \A q \in Holders \ {p} : holder'[q] = holder[q]
    BY <2>1 DEF SecretsInv, SecretsShape
  <2>4. SecretsShape'
    BY <1>0, <1>1, <2>1, <2>2 DEF SecretsInv, SecretsShape
  <2>5. ASSUME NEW q \in Holders PROVE HolderSound(q)'
    <3>1. holder[q].pc \in Inside => vault_lock' = q /\ vault' = vault
      BY <1>0 DEF SecretsInv, HolderSound
    <3> QED
      BY <1>2, <2>1, <2>3, <3>1, OtherHolder
  <2>6. ASSUME NEW a \in Accounts PROVE AccountSound(a)'
    <3>1. AccountSound(a)
      BY DEF SecretsInv
    <3>2. CASE a = b
      BY <1>0, <2>1, <2>2, <3>2 DEF AccountSound
    <3>3. CASE a # b
      <4>1. keyring'[a] = keyring[a] /\ doubted'[a] = doubted[a]
        BY <2>1, <2>2, <3>3
      <4>2. \A q \in Holders : holder[q].pc = "renamed" => holder'[q] = holder[q]
        BY <1>0, <2>3
      <4> QED
        BY <1>0, <2>1, <3>1, <4>1, <4>2 DEF AccountSound
    <3> QED
      BY <3>2, <3>3
  <2>7. VaultWhole(vault)' /\ VaultWhole(vault_disk)'
    BY <1>0 DEF SecretsInv, VaultWhole, NoRecords
  <2> QED
    BY <2>4, <2>5, <2>6, <2>7 DEF SecretsInv
<1>5. CASE holder[p].keyring /\ v # NoSecret
  <2>1. /\ holder' = holder /\ keyring' = [keyring EXCEPT ![b] = v]
        /\ acked' = [acked EXCEPT ![b] = v] /\ doubted' = [doubted EXCEPT ![b] = {}]
    BY <1>5 DEF Begin, Ack, keyring_put
  <2>2. /\ keyring \in [Accounts -> Kept] /\ doubted \in [Accounts -> SUBSET Kept]
        /\ acked \in [Accounts -> Kept] /\ keyring_up
    BY <1>0, <1>5 DEF SecretsInv, SecretsShape, HolderSound
  <2>3. SecretsShape'
    BY <1>0, <2>1, <2>2 DEF SecretsInv, SecretsShape
  <2>4. ASSUME NEW q \in Holders PROVE HolderSound(q)'
    BY <1>0, <2>1, OtherHolder DEF SecretsInv, HolderSound
  <2>5. ASSUME NEW a \in Accounts PROVE AccountSound(a)'
    <3>1. AccountSound(a)
      BY DEF SecretsInv
    <3>2. CASE a = b
      BY <1>5, <2>1, <2>2, <3>2 DEF AccountSound
    <3>3. CASE a # b
      <4>1. keyring'[a] = keyring[a] /\ doubted'[a] = doubted[a] /\ acked'[a] = acked[a]
        BY <2>1, <2>2, <3>3
      <4> QED
        BY <1>0, <2>1, <3>1, <4>1 DEF AccountSound
    <3> QED
      BY <3>2, <3>3
  <2>6. VaultWhole(vault)' /\ VaultWhole(vault_disk)'
    BY <1>0 DEF SecretsInv, VaultWhole, NoRecords
  <2> QED
    BY <2>3, <2>4, <2>5, <2>6 DEF SecretsInv
<1> QED
  BY <1>3, <1>4, <1>5 DEF SecretsInv, SecretsShape

\* A machine begins with a vault an earlier session left, or with none.
LEMMA SecretsBegins == SecretsInit => SecretsInv
<1> SUFFICES ASSUME SecretsInit PROVE SecretsInv
  OBVIOUS
<1> DEFINE h == [IdleHolder EXCEPT !.pc = "closed"]
<1>1. h \in HolderRecord /\ h.pc = "closed" /\ h.account = NoSecret
  BY RestHolders DEF HolderRecord, IdleHolder
<1>2. /\ vault \in VaultFile /\ vault.synced /\ (~vault.exists => vault.records = NoRecords)
  <2>1. CASE vault = NoVault
    BY <2>1, RestHolders DEF NoVault
  <2>2. CASE vault \in [exists : {TRUE}, records : [Accounts -> Values \cup {NoSecret}],
                        key : Passphrases, synced : {TRUE}]
    BY <2>2 DEF VaultFile, Kept
  <2> QED
    BY <2>1, <2>2 DEF SecretsInit
<1>3. /\ vault_disk = vault /\ vault_lock = Free /\ holder = [p \in Holders |-> h]
      /\ keyring_up \in BOOLEAN /\ keyring = NoRecords /\ acked = vault.records
      /\ doubted = [a \in Accounts |-> {}]
  BY DEF SecretsInit
<1> HIDE DEF h
<1>4. SecretsShape
  BY <1>1, <1>2, <1>3, RestHolders DEF SecretsShape, NoRecords, VaultFile
<1>5. \A p \in Holders : HolderSound(p)
  BY <1>1, <1>3 DEF HolderSound, Inside
<1>6. \A a \in Accounts : AccountSound(a)
  BY <1>3 DEF AccountSound, NoRecords
<1> QED
  BY <1>2, <1>3, <1>4, <1>5, <1>6 DEF SecretsInv, VaultWhole

\* Every step keeps the invariant.
LEMMA SecretsInvKept ==
  ASSUME ~KeyringFlips, SecretsInv, [SecretsNext]_secretVars
  PROVE  SecretsInv'
<1>1. CASE UNCHANGED secretVars
  <2>1. SecretsShape'
    BY <1>1 DEF secretVars, SecretsInv, SecretsShape
  <2>2. \A p \in Holders : HolderSound(p)'
    BY <1>1 DEF secretVars, SecretsInv, HolderSound
  <2>3. \A a \in Accounts : AccountSound(a)'
    BY <1>1 DEF secretVars, SecretsInv, AccountSound
  <2>4. VaultWhole(vault)' /\ VaultWhole(vault_disk)'
    BY <1>1 DEF secretVars, SecretsInv, VaultWhole, NoRecords
  <2> QED
    BY <2>1, <2>2, <2>3, <2>4 DEF SecretsInv
<1>2. ASSUME SecretsNext PROVE SecretsInv'
  <2>1. UNCHANGED keyring_up
    BY <1>2 DEF SecretsNext
  <2>2. CASE VaultPowerLoss
    BY <2>1, <2>2, VaultPowerLossKept
  <2>3. ASSUME NEW p \in Holders,
               \/ \E b \in BOOLEAN : OpenManager(p, b)
               \/ \E k \in Passphrases \cup {NoSecret} : Unlock(p, k)
               \/ LockTransaction(p)
        PROVE SecretsInv'
    BY <2>1, <2>3, OpenKept
  <2>4. ASSUME NEW p \in Holders, NEW a \in Accounts, NEW v \in Kept, Begin(p, a, v) PROVE SecretsInv'
    BY <2>1, <2>4, BeginKept
  <2>5. ASSUME NEW p \in Holders,
               \/ LoadAndWriteTemp(p) \/ SyncTemp(p) \/ Rename(p)
               \/ SyncDirectory(p) \/ StepFails(p) \/ HolderDies(p)
        PROVE SecretsInv'
    BY <2>1, <2>5, PrepareKept, RenameKept, SyncDirectoryKept, EndedKept
  <2> QED
    BY <1>2, <2>2, <2>3, <2>4, <2>5 DEF SecretsNext, Kept
<1> QED
  BY <1>1, <1>2

\* What the invariant gives a reader, and a reader after a power loss.
LEMMA SecretsReadable == SecretsInv => SecretsKept
<1> SUFFICES ASSUME SecretsInv PROVE SecretsKept
  OBVIOUS
<1>1. vault.synced /\ vault_disk.synced
  BY DEF SecretsInv, VaultWhole
<1>2. ASSUME NEW a \in Accounts, keyring[a] = NoSecret
      PROVE  /\ vault.records[a] \in {acked[a]} \cup doubted[a] \cup InFlight(a)
             /\ vault_disk.records[a] \in {acked[a]} \cup doubted[a]
  <2>1. AccountSound(a)
    BY DEF SecretsInv
  <2>2. \A q \in Holders : holder[q].pc = "renamed" /\ holder[q].account = a =>
          vault.records[a] \in InFlight(a)
    BY RenamedInFlight
  <2> QED
    BY <1>2, <2>1, <2>2 DEF AccountSound
<1>3. ASSUME NEW a \in Accounts, NEW p \in Holders, holder[p].pc # "closed"
      PROVE  get(p, a) \in {acked[a]} \cup doubted[a] \cup InFlight(a)
  <2>1. file_get(a) = vault.records[a]
    BY DEF SecretsInv, VaultWhole, file_get, NoRecords
  <2>2. AccountSound(a) /\ holder[p].keyring = keyring_up
    BY <1>3 DEF SecretsInv, HolderSound
  <2> QED
    BY <1>2, <2>1, <2>2 DEF get, keyring_get, AccountSound
<1> QED
  BY <1>1, <1>2, <1>3 DEF SecretsKept

\* Secrets are kept, on a machine whose keyring is there or is not (see SecretsKept).
THEOREM SecretsSafe ==
  ASSUME ~KeyringFlips
  PROVE  SecretsSpec => []SecretsKept
<1>1. SecretsInv /\ [SecretsNext]_secretVars => SecretsInv'
  BY SecretsInvKept
<1> QED
  BY <1>1, SecretsBegins, SecretsReadable, PTL DEF SecretsSpec

-----------------------------------------------------------------------------
(***************************************************************************)
(* Updates                                                                 *)
(***************************************************************************)
\* What a staging file may hold.
StagedContents == {"nothing", "partial"} \cup {Manifests[k].digest : k \in DOMAIN Manifests}
InstallerRecord ==
  [pc : Steps \cup {"rest"}, manifest : DOMAIN Manifests \cup {"no manifest"}, apply : BOOLEAN,
   before : Nat, nonce : Nat, content : StagedContents, synced : BOOLEAN]
EntryRecord ==
  [kind : {"absent", "file", "other"}, ino : Nat,
   content : StagedContents \cup {"old", "foreign"}, synced : BOOLEAN,
   by : {"before", "update", "someone"}]

UpdateShape ==
  /\ archive \in DOMAIN Blobs
  /\ installed \in EntryRecord /\ installed_disk \in EntryRecord
  /\ installer \in [Installers -> InstallerRecord]
  /\ reported \in BOOLEAN

\* An installer past the first check has a signed manifest for this target; what it
\* extracted is what that manifest pins, and on disk before it is renamed; and from the
\* rename on what was installed before is gone.
InstallerSound(p) ==
  LET c == installer[p] IN
  /\ c.pc # "rest" => c.manifest \in DOMAIN Manifests /\ Mine(p).signed /\ Mine(p).target = Target
  /\ c.pc \in {"extracted", "synced", "unchanged"} => c.content = Mine(p).digest
  /\ c.pc \in {"synced", "unchanged"} => c.synced
  /\ c.pc = "renamed" => installed.by # "before"

EntrySigned(e) == e.by = "update" => e.synced /\ e.content \in Signed

UpdateInv ==
  /\ UpdateShape
  /\ \A p \in Installers : InstallerSound(p)
  /\ EntrySigned(installed) /\ EntrySigned(installed_disk)
  /\ reported => installed.by # "before" /\ installed_disk.by # "before"

\* A step of one installer that leaves what is installed alone.
LEMMA InstallerMoves ==
  ASSUME UpdateInv, NEW p \in Installers, NEW c \in InstallerRecord,
         installer' = [installer EXCEPT ![p] = c], InstallerSound(p)',
         archive' = archive, UNCHANGED destinationVars
  PROVE  UpdateInv'
<1>1. UpdateShape'
  BY DEF UpdateInv, UpdateShape, destinationVars
<1>2. ASSUME NEW q \in Installers, q # p PROVE InstallerSound(q)'
  <2>1. installer'[q] = installer[q]
    BY <1>2 DEF UpdateInv, UpdateShape
  <2> QED
    BY <2>1 DEF UpdateInv, InstallerSound, Mine, destinationVars
<1>3. EntrySigned(installed)' /\ EntrySigned(installed_disk)'
  BY DEF UpdateInv, EntrySigned, Signed, destinationVars
<1> QED
  BY <1>1, <1>2, <1>3 DEF UpdateInv, destinationVars

\* The numbers among the constants.
LEMMA UpdateBounds == MaxNonces \in Nat /\ MaxArchiveEntries \in Nat /\ Inodes \subseteq Nat
  BY UpdateAssumption, Zenon

\* What the checks and the staging of an installer leave.
LEMMA InstallerFields ==
  ASSUME UpdateInv, NEW p \in Installers
  PROVE  /\ installer[p] \in InstallerRecord /\ installer[p].pc \in Steps \cup {"rest"}
         /\ installer[p].manifest \in DOMAIN Manifests \cup {"no manifest"}
         /\ installer[p].content \in StagedContents /\ installer[p].synced \in BOOLEAN
         /\ installer[p].nonce \in Nat /\ installer[p].before \in Nat
         /\ Rest \in InstallerRecord /\ Rest.pc = "rest"
  BY DEF UpdateInv, UpdateShape, InstallerRecord, Rest, StagedContents

\* The steps before the rename (check_local, apply_verified).
LEMMA StagingKept ==
  ASSUME UpdateInv, NEW p \in Installers,
         \/ update_cmd(p) \/ BindArchive(p) \/ CheckArchive(p) \/ LockAndStage(p) \/ Extract(p)
         \/ SyncStaged(p) \/ Recheck(p) \/ UpdateFails(p) \/ InstallerDies(p)
  PROVE  UpdateInv'
<1>1. ASSUME NEW c \in InstallerRecord, installer' = [installer EXCEPT ![p] = c]
      PROVE  installer'[p] = c
  BY <1>1 DEF UpdateInv, UpdateShape
<1>2. InstallerSound(p)
  BY DEF UpdateInv
<1>3. ASSUME Goes(p, Rest), archive' = archive, UNCHANGED destinationVars PROVE UpdateInv'
  <2>1. InstallerSound(p)'
    <3>1. installer'[p] = Rest
      BY <1>3, InstallerFields DEF Goes, UpdateInv, UpdateShape
    <3> QED
      BY <3>1, InstallerFields DEF InstallerSound
  <2> QED
    BY <1>3, <2>1, InstallerFields, InstallerMoves DEF Goes
<1>4. ASSUME NEW k \in DOMAIN Manifests, NEW apply \in BOOLEAN, CheckManifest(p, k, apply) PROVE UpdateInv'
  <2> DEFINE c == [Rest EXCEPT !.pc = "sized", !.manifest = k, !.apply = apply]
  <2>1. c \in InstallerRecord /\ c.pc = "sized" /\ c.manifest = k
    BY InstallerFields DEF InstallerRecord, Rest, Steps
  <2>2. /\ installer' = [installer EXCEPT ![p] = c] /\ Manifests[k].signed
        /\ Manifests[k].target = Target /\ archive' = archive /\ UNCHANGED destinationVars
    BY <1>4 DEF CheckManifest, Goes, verify
  <2> HIDE DEF c
  <2>3. InstallerSound(p)'
    BY <1>1, <2>1, <2>2 DEF InstallerSound, Mine
  <2> QED
    BY <2>1, <2>2, <2>3, InstallerMoves
\* A step that only goes on to the next place.
<1>5. ASSUME NEW place \in Steps, To(p, place), archive' = archive, UNCHANGED destinationVars,
             \/ installer[p].pc \in {"sized", "bound"} /\ place \in {"bound", "checked"}
             \/ installer[p].pc = "synced" /\ place = "unchanged"
      PROVE  UpdateInv'
  <2> DEFINE c == [installer[p] EXCEPT !.pc = place]
  <2>1. /\ c \in InstallerRecord /\ c.pc = place /\ c.manifest = installer[p].manifest
        /\ c.content = installer[p].content /\ c.synced = installer[p].synced
    BY InstallerFields DEF InstallerRecord
  <2>2. installer' = [installer EXCEPT ![p] = c]
    BY <1>5 DEF To, Goes
  <2> HIDE DEF c
  <2>3. InstallerSound(p)'
    BY <1>1, <1>2, <1>5, <2>1, <2>2 DEF InstallerSound, Mine
  <2> QED
    BY <1>5, <2>1, <2>2, <2>3, InstallerMoves
<1>6. CASE BindArchive(p)
  BY <1>5, <1>6 DEF BindArchive, At, Steps
<1>7. CASE CheckArchive(p)
  BY <1>3, <1>5, <1>7 DEF CheckArchive, At, To, Steps
<1>8. CASE Recheck(p)
  BY <1>5, <1>8 DEF Recheck, At, Steps
<1>9. CASE LockAndStage(p)
  <2> DEFINE c == [installer[p] EXCEPT !.pc = "staged", !.before = destination_identity,
                     !.nonce = create_staging_path(p), !.content = "partial"]
  <2>1. create_staging_path(p) \in Nat
    <3>1. FreeNonces(p) \in SUBSET Nat
      BY UpdateBounds DEF FreeNonces
    <3>0. FreeNonces(p) # {}
      BY <1>9 DEF LockAndStage
    <3>2. \E n \in FreeNonces(p) : \A o \in FreeNonces(p) : n <= o
      BY <3>0, <3>1, NatMin
    <3> QED
      BY <3>1, <3>2 DEF create_staging_path
  <2>2. destination_identity \in Nat
    BY DEF destination_identity, UpdateInv, UpdateShape, EntryRecord
  <2>3. c \in InstallerRecord /\ c.pc = "staged" /\ c.manifest = installer[p].manifest
    BY <2>1, <2>2, InstallerFields DEF InstallerRecord, Steps, StagedContents
  <2>4. /\ installer' = [installer EXCEPT ![p] = c] /\ installer[p].pc = "checked"
        /\ archive' = archive /\ UNCHANGED destinationVars
    BY <1>9 DEF LockAndStage, At, Goes
  <2> HIDE DEF c
  <2>5. InstallerSound(p)'
    BY <1>1, <1>2, <2>3, <2>4 DEF InstallerSound, Mine
  <2> QED
    BY <2>3, <2>4, <2>5, InstallerMoves
<1>10. CASE Extract(p)
  <2> DEFINE members == Blobs[archive].members
             c == [installer[p] EXCEPT !.pc = "extracted", !.content = members[1].content]
  <2>1. /\ installer' = [installer EXCEPT ![p] = c] /\ installer[p].pc = "staged"
        /\ archive' = archive /\ UNCHANGED destinationVars /\ inspect_archive(Mine(p), archive)
    BY <1>10 DEF Extract, At, Goes
  <2>2. members[1].content = Mine(p).digest
    <3>0. Len(members) \in 1..MaxArchiveEntries
      BY <2>1 DEF inspect_archive
    <3>1. 1 \in 1..Len(members)
      BY <3>0, UpdateBounds
    <3> QED
      BY <2>1, <3>1 DEF inspect_archive
  <2>3. installer[p].manifest \in DOMAIN Manifests
    BY <1>2, <2>1 DEF InstallerSound
  <2>4. Mine(p).digest \in StagedContents
    BY <2>3 DEF Mine, StagedContents
  <2>5. /\ c \in InstallerRecord /\ c.pc = "extracted" /\ c.manifest = installer[p].manifest
        /\ c.content = Mine(p).digest
    BY <2>2, <2>4, InstallerFields DEF InstallerRecord, Steps
  <2> HIDE DEF c
  <2>6. InstallerSound(p)'
    BY <1>1, <1>2, <2>1, <2>5 DEF InstallerSound, Mine
  <2> QED
    BY <2>1, <2>5, <2>6, InstallerMoves
<1>11. CASE SyncStaged(p)
  <2> DEFINE c == [installer[p] EXCEPT !.pc = "synced", !.synced = TRUE]
  <2>1. /\ c \in InstallerRecord /\ c.pc = "synced" /\ c.manifest = installer[p].manifest
        /\ c.content = installer[p].content /\ c.synced
    BY InstallerFields DEF InstallerRecord, Steps
  <2>2. /\ installer' = [installer EXCEPT ![p] = c] /\ installer[p].pc = "extracted"
        /\ archive' = archive /\ UNCHANGED destinationVars
    BY <1>11 DEF SyncStaged, At, Goes
  <2> HIDE DEF c
  <2>3. InstallerSound(p)'
    BY <1>1, <1>2, <2>1, <2>2 DEF InstallerSound, Mine
  <2> QED
    BY <2>1, <2>2, <2>3, InstallerMoves
<1>12. CASE UpdateFails(p) \/ InstallerDies(p)
  BY <1>3, <1>12 DEF UpdateFails, InstallerDies
<1> QED
  BY <1>4, <1>6, <1>7, <1>8, <1>9, <1>10, <1>11, <1>12 DEF update_cmd

\* The staged file takes the destination's name, and its directory goes to disk.
LEMMA InstallKept ==
  ASSUME UpdateInv, NEW p \in Installers,
         \/ \E ino \in Inodes : RenameStaged(p, ino)
         \/ SyncParent(p)
  PROVE  UpdateInv'
<1>1. InstallerSound(p)
  BY DEF UpdateInv
<1>2. ASSUME NEW ino \in Inodes, RenameStaged(p, ino) PROVE UpdateInv'
  <2> DEFINE c == [installer[p] EXCEPT !.pc = "renamed"]
  <2>1. c \in InstallerRecord /\ c.pc = "renamed" /\ c.manifest = installer[p].manifest
    BY InstallerFields DEF InstallerRecord, Steps
  <2>2. /\ installer' = [installer EXCEPT ![p] = c] /\ installer[p].pc = "unchanged"
        /\ UNCHANGED <<archive, installed_disk, reported>>
        /\ installed' = [kind |-> "file", ino |-> ino, content |-> installer[p].content,
                         synced |-> installer[p].synced, by |-> "update"]
    BY <1>2 DEF RenameStaged, At, To, Goes
  <2> HIDE DEF c
  <2>3. installed' \in EntryRecord /\ installed'.by = "update"
    BY <2>2, InstallerFields, UpdateBounds DEF EntryRecord
  <2>4. installed'.synced /\ installed'.content \in Signed
    BY <1>1, <2>2 DEF InstallerSound, Mine, Signed
  <2>5. UpdateShape'
    BY <2>1, <2>2, <2>3 DEF UpdateInv, UpdateShape
  <2>6. ASSUME NEW q \in Installers PROVE InstallerSound(q)'
    <3>1. CASE q = p
      <4>1. installer'[p] = c
        BY <2>2 DEF UpdateInv, UpdateShape
      <4> QED
        BY <1>1, <2>1, <2>2, <2>3, <3>1, <4>1 DEF InstallerSound, Mine, Steps
    <3>2. CASE q # p
      <4>1. installer'[q] = installer[q]
        BY <2>2, <3>2 DEF UpdateInv, UpdateShape
      <4> QED
        BY <2>3, <4>1 DEF UpdateInv, InstallerSound, Mine
    <3> QED
      BY <3>1, <3>2
  <2>7. EntrySigned(installed)' /\ EntrySigned(installed_disk)'
    BY <2>2, <2>4 DEF UpdateInv, EntrySigned, Signed
  <2> QED
    BY <2>2, <2>3, <2>5, <2>6, <2>7 DEF UpdateInv
<1>3. CASE SyncParent(p)
  <2>1. /\ installer' = [installer EXCEPT ![p] = Rest] /\ installer[p].pc = "renamed"
        /\ UNCHANGED <<archive, installed>> /\ installed_disk' = installed /\ reported' = TRUE
    BY <1>3 DEF SyncParent, At, Goes
  <2>2. UpdateShape'
    BY <2>1, InstallerFields DEF UpdateInv, UpdateShape
  <2>3. ASSUME NEW q \in Installers PROVE InstallerSound(q)'
    <3>1. installer'[q] = IF q = p THEN Rest ELSE installer[q]
      BY <2>1 DEF UpdateInv, UpdateShape
    <3> QED
      BY ZenonT(40), <2>1, <3>1, InstallerFields DEF UpdateInv, InstallerSound, Mine
  <2>4. EntrySigned(installed)' /\ EntrySigned(installed_disk)'
    BY <2>1 DEF UpdateInv, EntrySigned, Signed
  <2> QED
    BY <1>1, <2>1, <2>2, <2>3, <2>4 DEF UpdateInv, InstallerSound
<1> QED
  BY <1>2, <1>3

\* What happens behind the installers' back.
LEMMA WorldKept ==
  ASSUME UpdateInv,
         \/ LosePower
         \/ \E b \in DOMAIN Blobs : ReplaceArchive(b)
         \/ \E kind \in {"file", "other", "absent"}, ino \in Inodes : ReplaceDestination(kind, ino)
  PROVE  UpdateInv'
<1>1. CASE LosePower
  <2>1. PICK e \in {installed, installed_disk} : installed' = e /\ installed_disk' = e
    BY <1>1 DEF LosePower
  <2>2. installer' = [p \in Installers |-> Rest] /\ UNCHANGED <<archive, reported>>
    BY <1>1 DEF LosePower
  <2>3. Rest \in InstallerRecord
    BY DEF Rest, InstallerRecord, StagedContents
  <2>4. UpdateShape'
    BY <2>1, <2>2, <2>3 DEF UpdateInv, UpdateShape
  <2>5. \A p \in Installers : InstallerSound(p)'
    BY <2>2 DEF InstallerSound, Rest
  <2>6. EntrySigned(installed)' /\ EntrySigned(installed_disk)'
    BY <2>1 DEF UpdateInv, EntrySigned, Signed
  <2> QED
    BY <2>1, <2>2, <2>4, <2>5, <2>6 DEF UpdateInv
<1>2. ASSUME NEW b \in DOMAIN Blobs, ReplaceArchive(b) PROVE UpdateInv'
  <2>1. archive' = b /\ UNCHANGED <<installed, installed_disk, installer, reported>>
    BY <1>2 DEF ReplaceArchive
  <2>2. UpdateShape'
    BY <2>1 DEF UpdateInv, UpdateShape
  <2>3. \A p \in Installers : InstallerSound(p)'
    BY <2>1 DEF UpdateInv, InstallerSound, Mine
  <2>4. EntrySigned(installed)' /\ EntrySigned(installed_disk)'
    BY <2>1 DEF UpdateInv, EntrySigned, Signed
  <2> QED
    BY <2>1, <2>2, <2>3, <2>4 DEF UpdateInv
<1>3. ASSUME NEW kind \in {"file", "other", "absent"}, NEW ino \in Inodes, ReplaceDestination(kind, ino)
      PROVE  UpdateInv'
  <2>1. /\ installed_disk' = installed' /\ reported' = FALSE /\ UNCHANGED <<archive, installer>>
        /\ installed' = IF kind = "absent" THEN NoEntry
                        ELSE [kind |-> kind, ino |-> ino, content |-> "foreign", synced |-> TRUE,
                              by |-> "someone"]
    BY <1>3 DEF ReplaceDestination
  <2>2. installed' \in EntryRecord /\ installed'.by = "someone"
    BY <2>1, UpdateBounds DEF EntryRecord, NoEntry, StagedContents
  <2>3. UpdateShape'
    BY <2>1, <2>2 DEF UpdateInv, UpdateShape
  <2>4. \A p \in Installers : InstallerSound(p)'
    BY <2>1, <2>2 DEF UpdateInv, InstallerSound, Mine
  <2>5. EntrySigned(installed)' /\ EntrySigned(installed_disk)'
    BY <2>1, <2>2 DEF EntrySigned
  <2> QED
    BY <2>1, <2>3, <2>4, <2>5 DEF UpdateInv
<1> QED
  BY <1>1, <1>2, <1>3

\* Nothing is being installed at first.
LEMMA UpdateBegins == UpdateInit => UpdateInv
<1> SUFFICES ASSUME UpdateInit PROVE UpdateInv
  OBVIOUS
<1>1. Rest \in InstallerRecord /\ Rest.pc = "rest"
  BY DEF Rest, InstallerRecord, StagedContents
<1>2. Old \in EntryRecord /\ Old.by = "before"
  BY DEF Old, EntryRecord
<1>3. UpdateShape
  BY <1>1, <1>2 DEF UpdateInit, UpdateShape
<1>4. \A p \in Installers : InstallerSound(p)
  BY <1>1 DEF UpdateInit, InstallerSound
<1> QED
  BY <1>2, <1>3, <1>4 DEF UpdateInit, UpdateInv, EntrySigned

\* The update's invariant is inductive.
LEMMA UpdateInvKept ==
  ASSUME UpdateInv, [UpdateNext]_updateVars
  PROVE  UpdateInv'
<1>1. CASE UNCHANGED updateVars
  <2>1. UpdateShape'
    BY <1>1 DEF updateVars, UpdateInv, UpdateShape
  <2>2. \A p \in Installers : InstallerSound(p)'
    BY <1>1 DEF updateVars, UpdateInv, InstallerSound, Mine
  <2>3. EntrySigned(installed)' /\ EntrySigned(installed_disk)'
    BY <1>1 DEF updateVars, UpdateInv, EntrySigned, Signed
  <2> QED
    BY <1>1, <2>1, <2>2, <2>3 DEF updateVars, UpdateInv
<1>2. ASSUME UpdateNext PROVE UpdateInv'
  <2>1. ASSUME NEW p \in Installers,
               \/ update_cmd(p) \/ BindArchive(p) \/ CheckArchive(p) \/ LockAndStage(p)
               \/ Extract(p) \/ SyncStaged(p) \/ Recheck(p) \/ UpdateFails(p) \/ InstallerDies(p)
        PROVE  UpdateInv'
    BY <2>1, StagingKept
  <2>2. ASSUME NEW p \in Installers,
               (\E ino \in Inodes : RenameStaged(p, ino)) \/ SyncParent(p)
        PROVE  UpdateInv'
    BY <2>2, InstallKept
  <2> QED
    BY <1>2, <2>1, <2>2, WorldKept DEF UpdateNext
<1> QED
  BY <1>1, <1>2

\* What is installed is the old program, something someone else put there, or a
\* signed release, whole (install_archive).
THEOREM UpdateSafe == UpdateSpec => []InstalledIsSigned
<1>1. UpdateInv /\ [UpdateNext]_updateVars => UpdateInv'
  BY UpdateInvKept
<1>2. UpdateInv => InstalledIsSigned
  BY DEF UpdateInv, EntrySigned, InstalledIsSigned
<1> QED
  BY <1>1, <1>2, UpdateBegins, PTL DEF UpdateSpec

-----------------------------------------------------------------------------
(***************************************************************************)
(* The log                                                                 *)
(***************************************************************************)
ThreadRecord ==
  [pc : {"quiet", "wait", "rotate", "append", "mirror", "stderr"}, lost : Nat, index : 0..Keep]

LogShape ==
  /\ generation \in [0..Keep -> Seq(Nat)]
  /\ sink_lock \in LogThreads \cup {NoThread}
  /\ log_thread \in [LogThreads -> ThreadRecord]
  /\ appended \in Nat
  /\ lost_count \in [Processes -> Nat] /\ failed_lines \in [Processes -> Nat]
  /\ noticed \in [Processes -> Nat]

\* A thread at the file has the lock; on its way down the generations it leaves room for
\* the next to move up; and it carries a count only on its way to the file.
ThreadSound(t) ==
  LET c == log_thread[t] IN
  /\ c.pc \in {"rotate", "append"} => sink_lock = t
  /\ c.pc = "rotate" /\ c.index < Keep => generation[c.index + 1] = Absent
  /\ c.pc \in {"quiet", "mirror", "stderr"} => c.lost = 0

\* The lines appended, cut where one file ends and the next begins: file i holds those
\* after cut[i+1] up to cut[i].
Cuts(cut) ==
  /\ cut[0] = appended
  /\ \A i, j \in 0..Keep + 1 : i <= j => cut[j] <= cut[i]
  /\ \A i \in 0..Keep :
       /\ Len(Logged(i)) = cut[i] - cut[i + 1]
       /\ \A k \in 1..Len(Logged(i)) : Logged(i)[k] = cut[i + 1] + k

\* What each process lost is told of, in the counter, or on its way.
LossSound(p) ==
  /\ IsFiniteSet(Travelling(p))
  /\ failed_lines[p] <= lost_count[p] + noticed[p] + Cardinality(Travelling(p))

LogInv ==
  /\ LogShape
  /\ \A t \in LogThreads : ThreadSound(t)
  /\ \E cut \in [0..Keep + 1 -> Nat] : Cuts(cut)
  /\ \A p \in Processes : LossSound(p)

\* Keep is a number.
LEMMA KeepNat == Keep \in Nat
  BY LogAssumption, Zenon

\* The pieces of a record of a thread, and the numbers among the constants.
LEMMA ThreadFields ==
  ASSUME LogInv, NEW t \in LogThreads
  PROVE  /\ log_thread[t] \in ThreadRecord /\ log_thread[t].lost \in Nat /\ log_thread[t].index \in 0..Keep
         /\ ProcessOf[t] \in Processes /\ Keep \in Nat /\ NoThread # t
         /\ Quiet \in ThreadRecord /\ Quiet.lost = 0 /\ Quiet.pc = "quiet"
<1>1. Keep \in Nat /\ NoThread # t
  BY LogAssumption DEF NoThread
<1> QED
  BY <1>1 DEF LogInv, LogShape, ThreadRecord, Processes, Quiet

\* A file that is not there, or is empty, or holds lines.
LEMMA LoggedIs ==
  /\ \A i \in 0..Keep : generation[i] = Absent => Logged(i) = <<>>
  /\ \A i \in 0..Keep : generation[i] # Absent => Logged(i) = generation[i]
  BY DEF Logged, open_append

\* A line that carries a count of n has n of the lost lines with it.
LEMMA Carried ==
  ASSUME NEW t, NEW n \in Nat
  PROVE  IsFiniteSet({t} \X (1..n)) /\ Cardinality({t} \X (1..n)) = n
<1> DEFINE f == [k \in 1..n |-> <<t, k>>]
<1>1. f \in [1..n -> {t} \X (1..n)]
  OBVIOUS
<1>2. \A k \in 1..n : f[k] = <<t, k>>
  OBVIOUS
<1>3. \A a, b, c, d : <<a, b>> = <<c, d>> => a = c /\ b = d
  OBVIOUS
<1>4. \A x \in {t} \X (1..n) : \E k \in 1..n : x = <<t, k>>
  OBVIOUS
<1> HIDE DEF f
<1>5. \A x, y \in 1..n : f[x] = f[y] => x = y
  BY <1>2, <1>3
<1>6. \A x \in {t} \X (1..n) : \E k \in 1..n : f[k] = x
  BY <1>2, <1>4
<1>7. f \in Bijection(1..n, {t} \X (1..n))
  BY <1>1, <1>5, <1>6 DEF Bijection, Injection, Surjection, IsInjective
<1>8. ExistsBijection(1..n, {t} \X (1..n))
  BY <1>7 DEF ExistsBijection
<1> QED
  BY <1>8, FS_CountingElements, FS_NatBijection

\* What one line more carries is so much more.
LEMMA Added ==
  ASSUME NEW S, IsFiniteSet(S), NEW t, NEW n \in Nat, S \cap ({t} \X (1..n)) = {}
  PROVE  /\ IsFiniteSet(S \cup ({t} \X (1..n)))
         /\ Cardinality(S \cup ({t} \X (1..n))) = Cardinality(S) + n
<1> DEFINE R == {t} \X (1..n)
<1>1. IsFiniteSet(R) /\ Cardinality(R) = n
  BY Carried
<1>2. S \cap R = {}
  OBVIOUS
<1> HIDE DEF R
<1>3. IsFiniteSet(S \cup R) /\ Cardinality(S \cup R) = Cardinality(S) + Cardinality(R) - Cardinality(S \cap R)
  BY <1>1, FS_Union
<1>4. Cardinality(S \cap R) = 0
  BY <1>2, FS_EmptySet
<1>5. Cardinality(S) \in Nat
  BY FS_CardinalityType
<1> DEFINE m == Cardinality(S)
           u == Cardinality(S \cup R)
<1>6. u = m + n - 0 /\ m \in Nat
  BY <1>1, <1>3, <1>4, <1>5
<1> HIDE DEF m, u
<1>7. u = m + n
  BY <1>6
<1> QED
  BY <1>3, <1>7 DEF R, m, u

\* Of which process a line is lost, by its thread.
LEMMA TravellingAre ==
  ASSUME NEW p
  PROVE  \A x : x \in Travelling(p) <=>
           \E t \in LogThreads : ProcessOf[t] = p /\ x \in {t} \X (1..log_thread[t].lost)
  BY DEF Travelling

\* One thread's count changes, from nothing or to nothing.
LEMMA CountMoves ==
  ASSUME LogInv, NEW t \in LogThreads, NEW c \in ThreadRecord,
         log_thread' = [log_thread EXCEPT ![t] = c]
  PROVE  /\ \A p \in Processes : p # ProcessOf[t] \/ c.lost = log_thread[t].lost =>
              Travelling(p)' = Travelling(p)
         /\ log_thread[t].lost = 0 =>
              /\ IsFiniteSet(Travelling(ProcessOf[t])')
              /\ Cardinality(Travelling(ProcessOf[t])') = Cardinality(Travelling(ProcessOf[t])) + c.lost
         /\ c.lost = 0 =>
              /\ IsFiniteSet(Travelling(ProcessOf[t])')
              /\ Cardinality(Travelling(ProcessOf[t])) =
                   Cardinality(Travelling(ProcessOf[t])') + log_thread[t].lost
<1> DEFINE p == ProcessOf[t]
           old == Travelling(p)
           new == Travelling(p)'
<1>1. log_thread'[t] = c /\ \A u \in LogThreads \ {t} : log_thread'[u] = log_thread[u]
  BY DEF LogInv, LogShape
<1>2. c.lost \in Nat /\ log_thread[t].lost \in Nat /\ IsFiniteSet(old)
  BY ThreadFields DEF ThreadRecord, LogInv, LossSound
<1>3. \A q \in Processes : q # p \/ c.lost = log_thread[t].lost => Travelling(q)' = Travelling(q)
  <2> SUFFICES ASSUME NEW q \in Processes, q # p \/ c.lost = log_thread[t].lost
               PROVE  Travelling(q)' = Travelling(q)
    OBVIOUS
  <2>1. \A u \in LogThreads : ProcessOf[u] = q => log_thread'[u].lost = log_thread[u].lost
    BY <1>1
  <2> QED
    BY <2>1 DEF Travelling
<1>4. ASSUME log_thread[t].lost = 0
      PROVE  IsFiniteSet(new) /\ Cardinality(new) = Cardinality(old) + c.lost
  <2> DEFINE n == c.lost
  <2>1. new = old \cup ({t} \X (1..n))
    BY <1>1, <1>4 DEF Travelling
  <2>2. old \cap ({t} \X (1..n)) = {}
    BY <1>4 DEF Travelling
  <2>3. n \in Nat
    BY <1>2
  <2> HIDE DEF old, new, n
  <2>4. IsFiniteSet(new) /\ Cardinality(new) = Cardinality(old) + n
    BY <1>2, <2>1, <2>2, <2>3, Added
  <2> QED
    BY <2>4 DEF n
<1>5. ASSUME c.lost = 0
      PROVE  IsFiniteSet(new) /\ Cardinality(old) = Cardinality(new) + log_thread[t].lost
  <2> DEFINE n == log_thread[t].lost
  <2>1. old = new \cup ({t} \X (1..n))
    BY <1>1, <1>5 DEF Travelling
  <2>2. new \cap ({t} \X (1..n)) = {}
    BY <1>1, <1>5 DEF Travelling
  <2>3. n \in Nat
    BY <1>2
  <2> HIDE DEF old, new, n
  <2>4. IsFiniteSet(new)
    BY <1>2, <2>1, FS_Subset
  <2>5. Cardinality(old) = Cardinality(new) + n
    BY <2>1, <2>2, <2>3, <2>4, Added
  <2> QED
    BY <2>4, <2>5 DEF n
<1> QED
  BY <1>3, <1>4, <1>5

\* What a step of one thread leaves as it was.
LEMMA ThreadMoves ==
  ASSUME LogInv, NEW t \in LogThreads, NEW c \in ThreadRecord,
         log_thread' = [log_thread EXCEPT ![t] = c]
  PROVE  /\ log_thread' \in [LogThreads -> ThreadRecord]
         /\ log_thread'[t] = c
         /\ \A u \in LogThreads \ {t} : log_thread'[u] = log_thread[u]
  BY DEF LogInv, LogShape

\* A thread that is at the file is the only one there.
LEMMA AloneAtFile ==
  ASSUME LogInv, NEW t \in LogThreads, sink_lock \in {NoThread, t},
         NEW u \in LogThreads \ {t}
  PROVE  ~(log_thread[u].pc \in {"rotate", "append"})
  BY ThreadFields DEF LogInv, ThreadSound

\* The files and the counts stay when a step writes none of them and carries as much.
LEMMA FilesStay ==
  ASSUME LogInv, UNCHANGED <<generation, appended>>
  PROVE  /\ generation' \in [0..Keep -> Seq(Nat)] /\ appended' \in Nat
         /\ \E cut \in [0..Keep + 1 -> Nat] : Cuts(cut)'
<1>1. PICK cut \in [0..Keep + 1 -> Nat] : Cuts(cut)
  BY DEF LogInv
<1>2. Cuts(cut)'
  BY <1>1 DEF Cuts, Logged
<1> QED
  BY <1>2 DEF LogInv, LogShape

\* What is counted as lost stays when a thread's step changes none of it.
LEMMA CountsStay ==
  ASSUME LogInv, NEW t \in LogThreads, NEW c \in ThreadRecord, c.lost = log_thread[t].lost,
         log_thread' = [log_thread EXCEPT ![t] = c],
         UNCHANGED <<lost_count, failed_lines, noticed>>
  PROVE  \A p \in Processes : LossSound(p)'
<1>1. \A p \in Processes : Travelling(p)' = Travelling(p)
  BY CountMoves
<1> QED
  BY <1>1 DEF LogInv, LossSound

\* A thread goes to another place with the count it has.
LEMMA Elsewhere ==
  ASSUME NEW h \in ThreadRecord, NEW i \in 0..Keep
  PROVE  /\ [h EXCEPT !.pc = "rotate", !.index = i] \in ThreadRecord
         /\ [h EXCEPT !.pc = "rotate", !.index = i].pc = "rotate"
         /\ [h EXCEPT !.pc = "rotate", !.index = i].lost = h.lost
         /\ [h EXCEPT !.pc = "rotate", !.index = i].index = i
         /\ [h EXCEPT !.pc = "append", !.index = i] \in ThreadRecord
         /\ [h EXCEPT !.pc = "append", !.index = i].pc = "append"
         /\ [h EXCEPT !.pc = "append", !.index = i].lost = h.lost
         /\ [h EXCEPT !.pc = "append"] \in ThreadRecord
         /\ [h EXCEPT !.pc = "append"].pc = "append"
         /\ [h EXCEPT !.pc = "append"].lost = h.lost
         /\ [h EXCEPT !.index = i] \in ThreadRecord
         /\ [h EXCEPT !.index = i].pc = h.pc
         /\ [h EXCEPT !.index = i].lost = h.lost
         /\ [h EXCEPT !.index = i].index = i
  BY Zenon DEF ThreadRecord

\* Waiting for the lock, giving a rotation up, the mirror and the guards of it.
LEMMA ThreadOnlyKept ==
  ASSUME LogInv, NEW t \in LogThreads,
         AcquireLog(t) \/ RotateFails(t) \/ Mirrors(t) \/ WriteStderr(t)
  PROVE  LogInv'
<1> DEFINE c == log_thread'[t]
<1>1. /\ c \in ThreadRecord /\ c.lost = log_thread[t].lost
      /\ log_thread' = [log_thread EXCEPT ![t] = c]
      /\ sink_lock' \in {sink_lock, t} /\ (sink_lock' # sink_lock => sink_lock = NoThread)
      /\ c.pc \in {"rotate", "append"} => sink_lock' = t
      /\ ~(c.pc = "rotate" /\ c.index < Keep)
      /\ c.pc \in {"quiet", "mirror", "stderr"} => c.lost = 0
  <2>0. /\ log_thread \in [LogThreads -> ThreadRecord] /\ log_thread[t] \in ThreadRecord
        /\ Keep \in Nat /\ ThreadSound(t)
    BY ThreadFields DEF LogInv, LogShape
  <2>1. CASE AcquireLog(t)
    <3> DEFINE h == log_thread[t]
               a == [h EXCEPT !.pc = "rotate", !.index = Keep]
               b == [h EXCEPT !.pc = "append"]
    <3>1. Keep \in 0..Keep /\ ~(Keep < Keep)
      BY <2>0
    <3>2. /\ a \in ThreadRecord /\ a.pc = "rotate" /\ a.lost = h.lost /\ a.index = Keep
          /\ b \in ThreadRecord /\ b.pc = "append" /\ b.lost = h.lost
      BY ZenonT(40), <2>0, <3>1, Elsewhere
    <3>3. log_thread' = [log_thread EXCEPT ![t] = a] \/ log_thread' = [log_thread EXCEPT ![t] = b]
      BY <2>1 DEF AcquireLog, LogTo
    <3>4. sink_lock = NoThread /\ sink_lock' = t
      BY <2>1 DEF AcquireLog
    <3> HIDE DEF h, a, b
    <3>5. /\ c = a \/ c = b
          /\ log_thread' = [log_thread EXCEPT ![t] = c]
      BY <2>0, <3>3
    <3> HIDE DEF c
    <3> QED
      BY <3>1, <3>2, <3>4, <3>5 DEF h
  <2>2. CASE RotateFails(t)
    <3> DEFINE h == log_thread[t]
               a == [h EXCEPT !.pc = "append", !.index = 0]
    <3>1. 0 \in 0..Keep
      BY <2>0
    <3>2. a \in ThreadRecord /\ a.pc = "append" /\ a.lost = h.lost
      BY ZenonT(40), <2>0, <3>1, Elsewhere
    <3>3. log_thread' = [log_thread EXCEPT ![t] = a] /\ sink_lock' = sink_lock /\ sink_lock = t
      BY <2>0, <2>2 DEF RotateFails, LogTo, LogAt, ThreadSound
    <3> HIDE DEF h, a
    <3>4. c = a
      BY <2>0, <3>3
    <3> HIDE DEF c
    <3> QED
      BY <3>2, <3>3, <3>4 DEF h
  <2>3. CASE Mirrors(t)
    BY <2>0, <2>3 DEF Mirrors, LogAt, LogTo, ThreadRecord, ThreadSound, Quiet
  <2>4. CASE WriteStderr(t)
    BY <2>0, <2>4 DEF WriteStderr, LogAt, LogTo, ThreadRecord, ThreadSound, Quiet
  <2> QED
    BY <2>1, <2>2, <2>3, <2>4
<1>2. UNCHANGED <<generation, appended, lost_count, failed_lines, noticed>>
  BY DEF AcquireLog, RotateFails, Mirrors, WriteStderr
<1> HIDE DEF c
<1>3. log_thread' \in [LogThreads -> ThreadRecord] /\ \A u \in LogThreads \ {t} : log_thread'[u] = log_thread[u]
  BY <1>1, ThreadMoves
<1>4. \A u \in LogThreads : ThreadSound(u)'
  <2>1. ThreadSound(t)'
    BY <1>1 DEF ThreadSound, c
  <2>2. ASSUME NEW u \in LogThreads \ {t} PROVE ThreadSound(u)'
    <3>1. ThreadSound(u) /\ NoThread # u
      BY ThreadFields DEF LogInv
    <3>2. log_thread[u].pc \in {"rotate", "append"} => sink_lock' = u
      BY <1>1, <3>1 DEF ThreadSound
    <3> QED
      BY <1>2, <1>3, <3>1, <3>2 DEF ThreadSound
  <2> QED
    BY <2>1, <2>2
<1>5. \A p \in Processes : LossSound(p)'
  BY <1>1, <1>2, CountsStay
<1>6. sink_lock' \in LogThreads \cup {NoThread}
  BY <1>1 DEF LogInv, LogShape
<1>7. LogShape'
  BY <1>2, <1>3, <1>6, FilesStay DEF LogInv, LogShape
<1> QED
  BY <1>2, <1>4, <1>5, <1>7, FilesStay DEF LogInv

\* Suppressing the mirror is nothing to the log.
LEMMA SuppressKept ==
  ASSUME LogInv, UNCHANGED <<generation, lost_count, sink_lock, log_thread, appended, failed_lines, noticed>>
  PROVE  LogInv'
<1>1. LogShape'
  BY DEF LogInv, LogShape
<1>2. \A u \in LogThreads : ThreadSound(u)'
  BY DEF LogInv, ThreadSound
<1>3. \A p \in Processes : LossSound(p)'
  BY DEF LogInv, LossSound, Travelling
<1> QED
  BY <1>1, <1>2, <1>3, FilesStay DEF LogInv

\* A line is handed over and takes the count with it.
LEMMA EmitKept ==
  ASSUME LogInv, NEW t \in LogThreads, Emit(t)
  PROVE  LogInv'
<1> DEFINE c == [pc |-> "wait", lost |-> lost_count[ProcessOf[t]], index |-> 0]
           p == ProcessOf[t]
<1>0. log_thread[t].pc = "quiet" /\ ThreadSound(t) /\ Keep \in Nat /\ p \in Processes /\ lost_count[p] \in Nat
  BY ThreadFields DEF Emit, LogAt, LogInv, LogShape
<1>1. /\ c \in ThreadRecord /\ c.pc = "wait" /\ c.lost = lost_count[p]
      /\ log_thread' = [log_thread EXCEPT ![t] = c]
      /\ log_thread[t].lost = 0
  BY <1>0 DEF ThreadRecord, Emit, LogTo, ThreadSound
<1>2. UNCHANGED <<generation, sink_lock, appended, failed_lines, noticed>>
      /\ lost_count' = [lost_count EXCEPT ![p] = 0]
  BY DEF Emit
<1> HIDE DEF c, p
<1>3. log_thread' \in [LogThreads -> ThreadRecord] /\ log_thread'[t] = c
      /\ \A u \in LogThreads \ {t} : log_thread'[u] = log_thread[u]
  BY <1>1, ThreadMoves
<1>4. \A u \in LogThreads : ThreadSound(u)'
  <2>1. ThreadSound(t)'
    BY <1>1, <1>3 DEF ThreadSound
  <2>2. ASSUME NEW u \in LogThreads \ {t} PROVE ThreadSound(u)'
    BY <1>2, <1>3 DEF LogInv, ThreadSound
  <2> QED
    BY <2>1, <2>2
<1>5. \A q \in Processes : LossSound(q)'
  <2>1. ASSUME NEW q \in Processes \ {p} PROVE LossSound(q)'
    <3>1. Travelling(q)' = Travelling(q)
      BY <1>1, CountMoves DEF p
    <3>2. lost_count'[q] = lost_count[q]
      BY <1>2 DEF LogInv, LogShape
    <3> QED
      BY <1>2, <3>1, <3>2 DEF LogInv, LossSound
  <2>2. LossSound(p)'
    <3>1. IsFiniteSet(Travelling(p)') /\ Cardinality(Travelling(p)') = Cardinality(Travelling(p)) + lost_count[p]
      BY <1>1, CountMoves DEF p
    <3>2. lost_count'[p] = 0
      BY <1>0, <1>2 DEF LogInv, LogShape
    <3>3. failed_lines[p] <= lost_count[p] + noticed[p] + Cardinality(Travelling(p))
          /\ Cardinality(Travelling(p)) \in Nat
      BY <1>0, FS_CardinalityType DEF LogInv, LossSound
    <3>4. lost_count[p] \in Nat /\ noticed[p] \in Nat /\ failed_lines[p] \in Nat
      BY <1>0 DEF LogInv, LogShape
    <3> DEFINE m == Cardinality(Travelling(p))
               k == Cardinality(Travelling(p)')
    <3>5. k = m + lost_count[p] /\ m \in Nat /\ failed_lines[p] <= lost_count[p] + noticed[p] + m
      BY <3>1, <3>3
    <3> HIDE DEF m, k
    <3>6. failed_lines[p] <= 0 + noticed[p] + k
      BY <3>4, <3>5
    <3> QED
      BY <1>2, <3>1, <3>2, <3>6 DEF LossSound, k
  <2> QED
    BY <2>1, <2>2
<1>6. LogShape'
  BY <1>0, <1>2, <1>3, FilesStay DEF LogInv, LogShape
<1> QED
  BY <1>2, <1>4, <1>5, <1>6, FilesStay DEF LogInv

\* A file moves up, or out: the cut above it moves down to the cut below it.
LEMMA CutsMove ==
  ASSUME LogInv, NEW i \in 0..Keep, appended' = appended,
         NEW cut \in [0..Keep + 1 -> Nat], Cuts(cut),
         generation' \in [0..Keep -> Seq(Nat)],
         i < Keep => Logged(i + 1) = <<>> /\ Logged(i + 1)' = Logged(i),
         Logged(i)' = <<>>,
         \A j \in 0..Keep : j # i /\ j # i + 1 => Logged(j)' = Logged(j)
  PROVE  \E new \in [0..Keep + 1 -> Nat] : Cuts(new)'
<1> DEFINE new == [cut EXCEPT ![i + 1] = cut[i]]
<1>0. Keep \in Nat /\ i \in Nat /\ i \in 0..Keep + 1 /\ i + 1 \in 0..Keep + 1
  BY KeepNat
<1>1. new \in [0..Keep + 1 -> Nat] /\ new[i + 1] = cut[i] /\ \A j \in 0..Keep + 1 : j # i + 1 => new[j] = cut[j]
  BY <1>0
<1> HIDE DEF new
<1>2. \A j \in 0..Keep + 1 : cut[j] \in Nat
  OBVIOUS
<1>3. new[0] = appended'
  BY <1>0, <1>1 DEF Cuts
<1>4. ASSUME NEW a \in 0..Keep + 1, NEW b \in 0..Keep + 1, a <= b
      PROVE  new[b] <= new[a]
  <2>1. CASE a = i + 1 /\ b = i + 1
    BY <1>0, <1>1, <1>2, <2>1
  <2>2. CASE a = i + 1 /\ b # i + 1
    <3>1. i <= b
      BY <1>0, <1>4, <2>2
    <3> QED
      BY <1>0, <1>1, <2>2, <3>1 DEF Cuts
  <2>3. CASE a # i + 1 /\ b = i + 1
    <3>1. a <= i
      BY <1>0, <2>3, <1>4
    <3> QED
      BY <1>0, <1>1, <2>3, <3>1 DEF Cuts
  <2>4. CASE a # i + 1 /\ b # i + 1
    BY <1>1, <1>4, <2>4 DEF Cuts
  <2> QED
    BY <2>1, <2>2, <2>3, <2>4
<1>5. ASSUME NEW j \in 0..Keep
      PROVE  /\ Len(Logged(j)') = new[j] - new[j + 1]
             /\ \A k \in 1..Len(Logged(j)') : Logged(j)'[k] = new[j + 1] + k
  <2>0. j \in 0..Keep + 1 /\ j + 1 \in 0..Keep + 1 /\ j \in Nat
    BY <1>0
  <2>1. CASE j = i
    <3>1. Len(Logged(j)') = 0
      BY <2>1, EmptySeq
    <3>2. new[j] = cut[i] /\ new[j + 1] = cut[i] /\ cut[i] \in Nat
      BY <1>0, <1>1, <1>2, <2>1
    <3> QED
      BY <3>1, <3>2
  <2>2. CASE j = i + 1
    <3>1. i < Keep
      BY <1>0, <2>2
    <3>2. Len(Logged(j)) = 0 /\ Len(Logged(j)) = cut[j] - cut[j + 1]
      BY <2>2, <3>1, EmptySeq DEF Cuts
    <3>3. cut[i + 1] = cut[j + 1]
      BY <1>2, <2>0, <2>2, <3>2
    <3>4. new[j] = cut[i] /\ new[j + 1] = cut[i + 1]
      BY <1>0, <1>1, <2>0, <2>2, <3>3
    <3>5. Logged(j)' = Logged(i)
      BY <2>2, <3>1
    <3> QED
      BY <3>4, <3>5 DEF Cuts
  <2>3. CASE j # i /\ j # i + 1
    <3>1. new[j] = cut[j] /\ new[j + 1] = cut[j + 1]
      BY SMTT(30), <1>0, <1>1, <2>0, <2>3
    <3>2. Logged(j)' = Logged(j)
      BY <2>3
    <3> QED
      BY <3>1, <3>2 DEF Cuts
  <2> QED
    BY <2>1, <2>2, <2>3
<1>6. Cuts(new)'
  BY <1>3, <1>4, <1>5 DEF Cuts
<1> QED
  BY <1>1, <1>6

\* One step of a rotation.
LEMMA RotateStepKept ==
  ASSUME LogInv, NEW t \in LogThreads, RotateStep(t)
  PROVE  LogInv'
<1> DEFINE h == log_thread[t]
<1>a. h \in ThreadRecord /\ h.index \in 0..Keep
  BY ThreadFields
<1>b. PICK i \in 0..Keep : i = h.index
  BY <1>a
<1> DEFINE a == [h EXCEPT !.pc = "append", !.index = 0]
           b == [h EXCEPT !.index = i - 1]
<1>0. /\ h.pc = "rotate" /\ sink_lock = t /\ NoThread # t /\ h \in ThreadRecord
      /\ Keep \in Nat /\ i \in 0..Keep /\ (i < Keep => generation[i + 1] = Absent)
      /\ generation \in [0..Keep -> Seq(Nat)]
  BY <1>b, ThreadFields DEF RotateStep, LogAt, LogInv, LogShape, ThreadSound
<1>1. UNCHANGED <<sink_lock, appended, lost_count, failed_lines, noticed>>
  BY DEF RotateStep
<1>2. /\ i = 0 => log_thread' = [log_thread EXCEPT ![t] = a]
      /\ i # 0 => log_thread' = [log_thread EXCEPT ![t] = b]
  BY <1>b DEF RotateStep, LogTo
<1>c. generation' = CASE Keep = 0 -> [generation EXCEPT ![0] = <<>>]
                      [] Keep > 0 /\ i = Keep -> [generation EXCEPT ![Keep] = Absent]
                      [] Keep > 0 /\ i < Keep /\ generation[i] # Absent ->
                           [generation EXCEPT ![i + 1] = generation[i], ![i] = Absent]
                      [] OTHER -> generation
  BY <1>b DEF RotateStep
<1> HIDE DEF h
<1>3. PICK c \in ThreadRecord : /\ log_thread' = [log_thread EXCEPT ![t] = c]
                                /\ c.lost = h.lost /\ c.pc \in {"rotate", "append"}
                                /\ (c.pc = "rotate" => c.index + 1 = i)
  <2>1. CASE i = 0
    <3>1. 0 \in 0..Keep
      BY <1>0
    <3>2. a \in ThreadRecord /\ a.pc = "append" /\ a.lost = h.lost
      <4>1. a \in ThreadRecord
        BY ONLY <1>a, <3>1, Elsewhere
      <4>2. a.pc = "append"
        BY ONLY <1>a, <3>1, Elsewhere
      <4>3. a.lost = h.lost
        BY ONLY ZenonT(40), <1>a, <3>1, Elsewhere
      <4> QED
        BY <4>1, <4>2, <4>3
    <3> HIDE DEF a, b
    <3> QED
      BY <1>2, <2>1, <3>2
  <2>2. CASE i # 0
    <3>1. i - 1 \in 0..Keep /\ (i - 1) + 1 = i
      BY <1>0, <2>2
    <3>2. b \in ThreadRecord /\ b.pc = h.pc /\ b.lost = h.lost /\ b.index = i - 1
      BY <1>a, <3>1 DEF ThreadRecord
    <3> HIDE DEF a, b
    <3> QED
      BY <1>0, <1>2, <2>2, <3>1, <3>2
  <2> QED
    BY <2>1, <2>2
<1>4. \/ generation' = generation /\ generation[i] = Absent
      \/ /\ generation' \in [0..Keep -> Seq(Nat)]
         /\ generation'[i] \in {<<>>, Absent}
         /\ Keep > 0 => generation'[i] = Absent
         /\ i < Keep => generation'[i + 1] = generation[i] /\ generation[i] # Absent
         /\ \A j \in 0..Keep : j # i /\ j # i + 1 => generation'[j] = generation[j]
  <2>0. Absent \in Seq(Nat) /\ <<>> \in Seq(Nat)
    BY DEF Absent
  <2>1. CASE Keep = 0
    <3>1. generation' = [generation EXCEPT ![0] = <<>>] /\ i = 0
      BY <1>0, <1>c, <2>1
    <3> QED
      BY <1>0, <2>0, <2>1, <3>1
  <2>2. CASE Keep > 0 /\ i = Keep
    <3>1. generation' = [generation EXCEPT ![Keep] = Absent]
      BY <1>0, <1>c, <2>2
    <3> QED
      BY <1>0, <2>0, <2>2, <3>1
  <2>3. CASE Keep > 0 /\ i < Keep /\ generation[i] # Absent
    <3>1. generation' = [generation EXCEPT ![i + 1] = generation[i], ![i] = Absent]
      BY <1>0, <1>c, <2>3
    <3>2. i \in 0..Keep /\ i + 1 \in 0..Keep /\ i # i + 1
      BY <1>0, <2>3
    <3> QED
      BY <1>0, <2>0, <2>3, <3>1, <3>2
  <2>4. CASE Keep > 0 /\ i < Keep /\ generation[i] = Absent
    <3>1. generation' = generation
      BY <1>0, <1>c, <2>4
    <3> QED
      BY <2>4, <3>1
  <2> QED
    BY <1>0, <2>1, <2>2, <2>3, <2>4
<1> HIDE DEF a, b
<1>5. log_thread' \in [LogThreads -> ThreadRecord] /\ log_thread'[t] = c
      /\ \A u \in LogThreads \ {t} : log_thread'[u] = log_thread[u]
  BY <1>3, ThreadMoves
<1>6. \A u \in LogThreads : ThreadSound(u)'
  <2>1. ThreadSound(t)'
    <3>1. c.pc = "rotate" /\ c.index < Keep => generation'[c.index + 1] = Absent
      <4> SUFFICES ASSUME c.pc = "rotate", c.index < Keep PROVE generation'[i] = Absent
        BY <1>3
      <4>1. Keep > 0
        BY <1>0, ThreadFields DEF ThreadRecord
      <4> QED
        BY <1>4, <4>1
    <3> QED
      BY <1>0, <1>1, <1>3, <1>5, <3>1 DEF ThreadSound
  <2>2. ASSUME NEW u \in LogThreads \ {t} PROVE ThreadSound(u)'
    <3>1. ~(log_thread[u].pc \in {"rotate", "append"}) /\ ThreadSound(u)
      BY <1>0, AloneAtFile DEF LogInv
    <3> QED
      BY <1>5, <3>1 DEF ThreadSound
  <2> QED
    BY <2>1, <2>2
<1>7. \A p \in Processes : LossSound(p)'
  BY <1>1, <1>3, CountsStay DEF h
<1>8. generation' \in [0..Keep -> Seq(Nat)] /\ \E cut \in [0..Keep + 1 -> Nat] : Cuts(cut)'
  <2>1. CASE generation' = generation
    BY <1>1, <2>1, FilesStay
  <2>2. CASE generation' # generation
    <3>1. PICK cut \in [0..Keep + 1 -> Nat] : Cuts(cut)
      BY DEF LogInv
    <3>2. Logged(i)' = <<>>
      BY <1>4, <2>2 DEF Logged, open_append
    <3>3. i < Keep => Logged(i + 1) = <<>> /\ Logged(i + 1)' = Logged(i)
      <4>1. i < Keep => generation[i + 1] = Absent /\ generation'[i + 1] = generation[i]
        BY <1>0, <1>4, <2>2
      <4> QED
        BY <4>1 DEF Logged, open_append
    <3>4. \A j \in 0..Keep : j # i /\ j # i + 1 => Logged(j)' = Logged(j)
      BY <1>4, <2>2 DEF Logged
    <3> QED
      BY <1>0, <1>1, <1>4, <2>2, <3>1, <3>2, <3>3, <3>4, CutsMove
  <2> QED
    BY <2>1, <2>2
<1>9. LogShape'
  BY <1>1, <1>5, <1>8 DEF LogInv, LogShape
<1> QED
  BY <1>6, <1>7, <1>8, <1>9 DEF LogInv

\* Lines appended to the current file go on from its last.
LEMMA AddsKept ==
  ASSUME LogInv, NEW n \in Nat \ {0}, Adds(n)
  PROVE  /\ generation' \in [0..Keep -> Seq(Nat)] /\ appended' \in Nat
         /\ \E cut \in [0..Keep + 1 -> Nat] : Cuts(cut)'
<1> DEFINE front == Logged(0)
           more == [k \in 1..n |-> appended + k]
<1>0. /\ Keep \in Nat /\ 0 \in 0..Keep /\ 0 \in 0..Keep + 1 /\ 1 \in 0..Keep + 1 /\ appended \in Nat
      /\ generation \in [0..Keep -> Seq(Nat)]
  BY KeepNat DEF LogInv, LogShape
<1>1. PICK cut \in [0..Keep + 1 -> Nat] : Cuts(cut)
  BY DEF LogInv
<1>2. PICK new \in [0..Keep + 1 -> Nat] : /\ new[0] = appended + n
                                         /\ \A j \in 0..Keep + 1 : j # 0 => new[j] = cut[j]
  <2>1. [cut EXCEPT ![0] = appended + n] \in [0..Keep + 1 -> Nat]
    BY <1>0
  <2> QED
    BY <1>0, <2>1
<1>3. front \in Seq(Nat) /\ more \in Seq(Nat) /\ Len(more) = n /\ \A k \in 1..n : more[k] = appended + k
  <2>1. front \in Seq(Nat)
    BY <1>0 DEF Logged, open_append
  <2>2. more \in [1..n -> Nat]
    BY <1>0
  <2> QED
    BY <2>1, <2>2, LenProperties
<1>4. /\ cut[0] = appended /\ cut[1] \in Nat /\ cut[1] <= appended
      /\ Len(front) = appended - cut[1] /\ Len(front) \in Nat
      /\ \A k \in 1..Len(front) : front[k] = cut[1] + k
  <2>1. 0 + 1 = 1 /\ 0 <= 1
    OBVIOUS
  <2>2. cut[0] = appended /\ cut[1] <= cut[0] /\ cut[1] \in Nat
    BY <1>0, <1>1, <2>1 DEF Cuts
  <2>3. Len(front) \in Nat
    BY <1>3, LenProperties
  <2> QED
    BY <1>0, <1>1, <2>1, <2>2, <2>3 DEF Cuts
<1>5. generation' = [generation EXCEPT ![0] = front \o more] /\ appended' = appended + n
  BY DEF Adds, Logged
<1> HIDE DEF more, front
<1>6. /\ front \o more \in Seq(Nat) /\ Len(front \o more) = Len(front) + n
      /\ \A k \in 1..Len(front) + n : (front \o more)[k] = cut[1] + k
  <2>1. /\ front \o more \in Seq(Nat) /\ Len(front \o more) = Len(front) + Len(more)
        /\ \A k \in 1..Len(front) + Len(more) :
             (front \o more)[k] = IF k <= Len(front) THEN front[k] ELSE more[k - Len(front)]
    BY <1>3, ConcatProperties
  <2>2. ASSUME NEW k \in 1..Len(front) + n PROVE (front \o more)[k] = cut[1] + k
    <3>1. CASE k <= Len(front)
      <4>1. k \in 1..Len(front)
        BY <1>4, <3>1
      <4> QED
        BY <1>3, <1>4, <2>1, <3>1, <4>1
    <3>2. CASE ~(k <= Len(front))
      <4>1. k - Len(front) \in 1..n
        BY <1>4, <3>2
      <4>2. (front \o more)[k] = more[k - Len(front)]
        BY <1>3, <2>1, <3>2
      <4>3. (front \o more)[k] = appended + (k - Len(front))
        BY <1>3, <4>1, <4>2
      <4> DEFINE x == (front \o more)[k]
                 z == Len(front)
                 y == cut[1]
      <4>4. x = appended + (k - z) /\ z = appended - y /\ y \in Nat /\ z \in Nat /\ k \in Int
        BY <1>4, <4>3
      <4> HIDE DEF x, y, z
      <4>5. x = y + k
        BY <1>0, <4>4
      <4> QED
        BY <4>5 DEF x, y
    <3> QED
      BY <3>1, <3>2
  <2> QED
    BY <1>3, <2>1, <2>2
<1>7. /\ generation' \in [0..Keep -> Seq(Nat)] /\ generation'[0] = front \o more
      /\ \A j \in 0..Keep : j # 0 => generation'[j] = generation[j]
  BY <1>0, <1>5, <1>6
<1>8. Logged(0)' = front \o more
  <2>1. (front \o more)[1] = cut[1] + 1
    BY SMTT(30), <1>4, <1>6
  <2>2. Absent[1] = 0
    BY DEF Absent
  <2>3. cut[1] + 1 # 0
    BY <1>4
  <2>4. front \o more # Absent
    BY <2>1, <2>2, <2>3
  <2> QED
    BY <1>7, <2>4 DEF Logged, open_append
<1>9. \A j \in 0..Keep : j # 0 => Logged(j)' = Logged(j)
  BY <1>7 DEF Logged
<1>10. ASSUME NEW a \in 0..Keep + 1, NEW b \in 0..Keep + 1, a <= b
       PROVE  new[b] <= new[a]
  <2>0. cut[b] <= cut[a] /\ cut[a] \in Nat /\ cut[b] \in Nat /\ cut[b] <= cut[0]
    <3>1. 0 <= b /\ cut[a] \in Nat /\ cut[b] \in Nat
      BY <1>0
    <3>2. \A i, j \in 0..Keep + 1 : i <= j => cut[j] <= cut[i]
      BY <1>1 DEF Cuts
    <3> QED
      BY <1>0, <1>10, <3>1, <3>2
  <2>1. CASE a = 0 /\ b = 0
    BY <1>0, <1>2, <2>1
  <2>2. CASE a = 0 /\ b # 0
    BY <1>0, <1>2, <1>4, <2>0, <2>2
  <2>3. CASE a # 0
    <3>1. b # 0
      BY <1>0, <1>10, <2>3
    <3> QED
      BY <1>2, <2>0, <2>3, <3>1
  <2> QED
    BY <2>1, <2>2, <2>3
<1>11. ASSUME NEW j \in 0..Keep
       PROVE  /\ Len(Logged(j)') = new[j] - new[j + 1]
              /\ \A k \in 1..Len(Logged(j)') : Logged(j)'[k] = new[j + 1] + k
  <2>1. CASE j = 0
    <3>1. new[j] = appended + n /\ new[j + 1] = cut[1]
      BY <1>0, <1>2, <2>1
    <3>2. Len(front \o more) = new[j] - new[j + 1]
      BY <1>0, <1>4, <1>6, <3>1
    <3> QED
      BY <1>6, <1>8, <2>1, <3>1, <3>2
  <2>2. CASE j # 0
    <3>1. new[j] = cut[j] /\ new[j + 1] = cut[j + 1]
      BY <1>0, <1>2, <2>2
    <3> QED
      BY <1>1, <1>9, <2>2, <3>1 DEF Cuts
  <2> QED
    BY <2>1, <2>2
<1>12. Cuts(new)'
  BY <1>2, <1>5, <1>10, <1>11 DEF Cuts
<1>13. appended' \in Nat
  BY <1>0, <1>5
<1> QED
  BY <1>7, <1>12, <1>13

\* The line is written, or is not; the thread lets the file go.
LEMMA AppendKept ==
  ASSUME LogInv, NEW t \in LogThreads, Append1(t) \/ AppendFails(t)
  PROVE  LogInv'
<1> DEFINE c == [Quiet EXCEPT !.pc = "mirror"]
           p == ProcessOf[t]
           l == log_thread[t].lost
<1>0. /\ p \in Processes /\ l \in Nat /\ NoThread # t
      /\ lost_count \in [Processes -> Nat] /\ failed_lines \in [Processes -> Nat]
      /\ noticed \in [Processes -> Nat]
  BY ThreadFields DEF LogInv, LogShape
<1>1. c \in ThreadRecord /\ c.pc = "mirror" /\ c.lost = 0
  BY KeepNat DEF ThreadRecord, Quiet
<1>2. log_thread' = [log_thread EXCEPT ![t] = c]
  BY DEF Append1, AppendFails, LogTo
<1>3. /\ lost_count' \in [Processes -> Nat] /\ failed_lines' \in [Processes -> Nat]
      /\ noticed' \in [Processes -> Nat]
      /\ \A q \in Processes \ {p} : /\ lost_count'[q] = lost_count[q] /\ failed_lines'[q] = failed_lines[q]
                                    /\ noticed'[q] = noticed[q]
      /\ \/ lost_count'[p] = lost_count[p] /\ failed_lines'[p] = failed_lines[p]
            /\ noticed'[p] = noticed[p] + l
         \/ lost_count'[p] = lost_count[p] + l + 1 /\ failed_lines'[p] = failed_lines[p] + 1
            /\ noticed'[p] \in {noticed[p], noticed[p] + l}
  <2>1. CASE Append1(t)
    <3>1. /\ lost_count' = lost_count /\ failed_lines' = failed_lines
          /\ noticed' = [noticed EXCEPT ![p] = @ + l]
      BY <2>1 DEF Append1
    <3> HIDE DEF p, l
    <3> QED
      BY <1>0, <3>1
  <2>2. CASE AppendFails(t)
    <3>1. /\ lost_count' = [lost_count EXCEPT ![p] = @ + l + 1]
          /\ failed_lines' = [failed_lines EXCEPT ![p] = @ + 1]
          /\ noticed' = noticed \/ noticed' = [noticed EXCEPT ![p] = @ + l]
      BY <2>2 DEF AppendFails
    <3> HIDE DEF p, l
    <3> QED
      BY <1>0, <3>1
  <2> QED
    BY <2>1, <2>2
<1>4. /\ sink_lock' = (IF sink_lock = t THEN NoThread ELSE sink_lock)
      /\ \/ UNCHANGED <<generation, appended>>
         \/ sink_lock = t /\ \E n \in Nat \ {0} : Adds(n)
  <2>1. log_thread[t].pc = "append" => sink_lock = t
    BY DEF LogInv, ThreadSound
  <2>2. Payload(t) \in Nat \ {0} /\ 1 \in Nat \ {0}
    BY DEF Payload
  <2> QED
    BY <2>1, <2>2 DEF Append1, AppendFails, Unlocked1, LogAt
<1> HIDE DEF c, p, l
<1>5. log_thread' \in [LogThreads -> ThreadRecord] /\ log_thread'[t] = c
      /\ \A u \in LogThreads \ {t} : log_thread'[u] = log_thread[u]
  BY <1>1, <1>2, ThreadMoves
<1>6. \A u \in LogThreads : ThreadSound(u)'
  <2>1. ThreadSound(t)'
    BY <1>1, <1>5 DEF ThreadSound
  <2>2. ASSUME NEW u \in LogThreads \ {t} PROVE ThreadSound(u)'
    <3>1. ThreadSound(u)
      BY DEF LogInv
    <3>2. log_thread[u].pc \in {"rotate", "append"} =>
            /\ sink_lock = u /\ sink_lock' = u
            /\ generation' = generation
      BY <1>4, <3>1 DEF ThreadSound
    <3> QED
      BY <1>5, <3>1, <3>2 DEF ThreadSound
  <2> QED
    BY <2>1, <2>2
<1>7. \A q \in Processes : LossSound(q)'
  <2>1. ASSUME NEW q \in Processes \ {p} PROVE LossSound(q)'
    <3>1. Travelling(q)' = Travelling(q)
      BY <1>1, <1>2, CountMoves DEF p
    <3> QED
      BY <1>3, <3>1 DEF LogInv, LossSound
  <2>2. LossSound(p)'
    <3> DEFINE m == Cardinality(Travelling(p))
               k == Cardinality(Travelling(p)')
    <3>1. IsFiniteSet(Travelling(p)') /\ m = k + l
      BY <1>1, <1>2, CountMoves DEF p, l
    <3>2. k \in Nat
      BY <3>1, FS_CardinalityType
    <3>3. failed_lines[p] <= lost_count[p] + noticed[p] + m
      BY <1>0 DEF LogInv, LossSound
    <3> HIDE DEF m, k
    <3>4. lost_count[p] \in Nat /\ noticed[p] \in Nat /\ failed_lines[p] \in Nat
      BY <1>0
    <3>5. failed_lines'[p] <= lost_count'[p] + noticed'[p] + k
      BY <1>0, <1>3, <3>1, <3>2, <3>3, <3>4
    <3> QED
      BY <3>1, <3>5 DEF LossSound, k
  <2> QED
    BY <2>1, <2>2
<1>8. /\ generation' \in [0..Keep -> Seq(Nat)] /\ appended' \in Nat
      /\ \E cut \in [0..Keep + 1 -> Nat] : Cuts(cut)'
  BY <1>4, FilesStay, AddsKept
<1>9. sink_lock' \in LogThreads \cup {NoThread}
  BY <1>4 DEF LogInv, LogShape
<1>10. LogShape'
  BY <1>3, <1>5, <1>8, <1>9 DEF LogShape
<1> QED
  BY <1>6, <1>7, <1>8, <1>10 DEF LogInv

\* A process dies with what its threads carried.
LEMMA DiesKept ==
  ASSUME LogInv, NEW p \in Processes, LogDies(p)
  PROVE  LogInv'
<1>0. /\ \A t \in LogThreads : /\ log_thread[t] \in ThreadRecord /\ ThreadSound(t) /\ NoThread # t
                               /\ Quiet \in ThreadRecord /\ Quiet.lost = 0 /\ Quiet.pc = "quiet"
      /\ sink_lock \in LogThreads \cup {NoThread}
      /\ lost_count \in [Processes -> Nat] /\ failed_lines \in [Processes -> Nat]
      /\ noticed \in [Processes -> Nat]
  BY ThreadFields DEF LogInv, LogShape
<1>1. /\ \A t \in LogThreads : log_thread'[t] = IF ProcessOf[t] = p THEN Quiet ELSE log_thread[t]
      /\ log_thread' \in [LogThreads -> ThreadRecord]
  BY <1>0 DEF LogDies
<1>2. /\ sink_lock' \in LogThreads \cup {NoThread}
      /\ \A t \in LogThreads : sink_lock = t /\ ProcessOf[t] # p => sink_lock' = t
      /\ UNCHANGED <<generation, appended>>
  BY <1>0 DEF LogDies
<1>3. /\ lost_count' \in [Processes -> Nat] /\ failed_lines' \in [Processes -> Nat]
      /\ noticed' \in [Processes -> Nat]
      /\ lost_count'[p] = 0 /\ failed_lines'[p] = 0 /\ noticed'[p] = 0
      /\ \A q \in Processes \ {p} : /\ lost_count'[q] = lost_count[q] /\ failed_lines'[q] = failed_lines[q]
                                    /\ noticed'[q] = noticed[q]
  <2>1. /\ lost_count' = [lost_count EXCEPT ![p] = 0] /\ failed_lines' = [failed_lines EXCEPT ![p] = 0]
        /\ noticed' = [noticed EXCEPT ![p] = 0]
    BY DEF LogDies
  <2> QED
    BY <1>0, <2>1
<1>4. \A t \in LogThreads : ThreadSound(t)'
  BY <1>0, <1>1, <1>2 DEF ThreadSound
<1>5. \A q \in Processes : LossSound(q)'
  <2>1. ASSUME NEW q \in Processes \ {p} PROVE LossSound(q)'
    <3>1. \A t \in LogThreads : ProcessOf[t] = q => log_thread'[t].lost = log_thread[t].lost
      BY <1>1
    <3>2. Travelling(q)' = Travelling(q)
      BY <3>1 DEF Travelling
    <3> QED
      BY <1>3, <3>2 DEF LogInv, LossSound
  <2>2. LossSound(p)'
    <3>1. Travelling(p)' = {}
      BY <1>0, <1>1 DEF Travelling
    <3>2. IsFiniteSet(Travelling(p)') /\ Cardinality(Travelling(p)') = 0
      BY <3>1, FS_EmptySet
    <3> DEFINE k == Cardinality(Travelling(p)')
    <3>3. k = 0
      BY <3>2
    <3> HIDE DEF k
    <3>4. failed_lines'[p] <= lost_count'[p] + noticed'[p] + k
      BY <1>3, <3>3
    <3> QED
      BY <3>2, <3>4 DEF LossSound, k
  <2> QED
    BY <2>1, <2>2
<1>6. LogShape'
  BY <1>1, <1>2, <1>3, FilesStay DEF LogShape
<1> QED
  BY <1>2, <1>4, <1>5, <1>6, FilesStay DEF LogInv

\* A log begins empty, with nothing lost.
LEMMA LogBegins == LogInit => LogInv
<1> SUFFICES ASSUME LogInit PROVE LogInv
  OBVIOUS
<1>0. Keep \in Nat /\ 0 \in 0..Keep /\ <<>> \in Seq(Nat) /\ Absent \in Seq(Nat)
  BY KeepNat DEF Absent
<1>1. Quiet \in ThreadRecord /\ Quiet.lost = 0 /\ Quiet.pc = "quiet"
  BY <1>0 DEF Quiet, ThreadRecord
<1>2. LogShape
  BY <1>0, <1>1 DEF LogInit, LogShape
<1>3. \A t \in LogThreads : log_thread[t] = Quiet
  BY DEF LogInit
<1>4. \A t \in LogThreads : ThreadSound(t)
  BY <1>1, <1>3 DEF ThreadSound
<1>5. \A i \in 0..Keep : Logged(i) = <<>>
  BY <1>0 DEF LogInit, Logged, open_append
<1>6. \E cut \in [0..Keep + 1 -> Nat] : Cuts(cut)
  <2> DEFINE cut == [i \in 0..Keep + 1 |-> 0]
  <2>1. \A i \in 0..Keep : Len(Logged(i)) = 0
    BY <1>5, EmptySeq
  <2>2. cut \in [0..Keep + 1 -> Nat] /\ \A i \in 0..Keep + 1 : cut[i] = 0
    OBVIOUS
  <2>3. \A i \in 0..Keep : i \in 0..Keep + 1 /\ i + 1 \in 0..Keep + 1
    BY <1>0
  <2>4. 0 \in 0..Keep + 1 /\ appended = 0
    BY <1>0 DEF LogInit
  <2> HIDE DEF cut
  <2>5. Cuts(cut)
    BY <2>1, <2>2, <2>3, <2>4 DEF Cuts
  <2> QED
    BY <2>2, <2>5
<1>7. ASSUME NEW p \in Processes PROVE LossSound(p)
  <2>1. Travelling(p) = {}
    BY <1>1, <1>3 DEF Travelling
  <2>2. IsFiniteSet(Travelling(p)) /\ Cardinality(Travelling(p)) = 0
    BY <2>1, FS_EmptySet
  <2>3. failed_lines[p] = 0 /\ lost_count[p] = 0 /\ noticed[p] = 0
    BY DEF LogInit
  <2> DEFINE k == Cardinality(Travelling(p))
  <2>4. k = 0
    BY <2>2
  <2> HIDE DEF k
  <2>5. failed_lines[p] <= lost_count[p] + noticed[p] + k
    BY <2>3, <2>4
  <2> QED
    BY <2>2, <2>5 DEF LossSound, k
<1> QED
  BY <1>2, <1>4, <1>6, <1>7 DEF LogInv

\* No step of the log breaks its invariant.
LEMMA LogInvKept == LogInv /\ [LogNext]_logVars => LogInv'
<1> SUFFICES ASSUME LogInv, [LogNext]_logVars PROVE LogInv'
  OBVIOUS
<1>1. ASSUME NEW t \in LogThreads, Emit(t) PROVE LogInv'
  BY <1>1, EmitKept
<1>2. ASSUME NEW t \in LogThreads, AcquireLog(t) \/ RotateFails(t) \/ Mirrors(t) \/ WriteStderr(t) PROVE LogInv'
  BY <1>2, ThreadOnlyKept
<1>3. ASSUME NEW t \in LogThreads, RotateStep(t) PROVE LogInv'
  BY <1>3, RotateStepKept
<1>4. ASSUME NEW t \in LogThreads, Append1(t) \/ AppendFails(t) PROVE LogInv'
  BY <1>4, AppendKept
<1>5. ASSUME NEW p \in Processes, Suppress(p) PROVE LogInv'
  BY <1>5, SuppressKept DEF Suppress
<1>6. ASSUME NEW p \in Processes, LogDies(p) PROVE LogInv'
  BY <1>6, DiesKept
<1>7. CASE UNCHANGED logVars
  BY <1>7, SuppressKept DEF logVars
<1> QED
  BY <1>1, <1>2, <1>3, <1>4, <1>5, <1>6, <1>7 DEF LogNext

\* Between the cuts lies every line there is, in order and once; and no failure goes untold.
LEMMA LogTold == LogInv => LogIsSuffix /\ LossReported
<1> SUFFICES ASSUME LogInv PROVE LogIsSuffix /\ LossReported
  OBVIOUS
<1>1. LossReported
  BY DEF LogInv, LossSound, LossReported
<1>2. PICK cut \in [0..Keep + 1 -> Nat] : Cuts(cut)
  BY DEF LogInv
<1>3. /\ Keep \in Nat /\ appended \in Nat /\ generation \in [0..Keep -> Seq(Nat)]
      /\ \A i \in 0..Keep : i \in 0..Keep + 1 /\ i + 1 \in 0..Keep + 1 /\ i \in Nat
      /\ 0 \in 0..Keep + 1
  BY KeepNat DEF LogInv, LogShape
<1>4. \A i, j \in 0..Keep + 1 : i <= j => cut[j] <= cut[i]
  BY <1>2 DEF Cuts
<1>5. ASSUME NEW i \in 0..Keep
      PROVE  /\ Logged(i) \in Seq(Nat) /\ cut[i] \in Nat /\ cut[i + 1] \in Nat /\ cut[i] <= appended
             /\ DOMAIN Logged(i) = 1..Len(Logged(i)) /\ Len(Logged(i)) = cut[i] - cut[i + 1]
             /\ \A k \in DOMAIN Logged(i) : Logged(i)[k] = cut[i + 1] + k
  <2>1. Logged(i) \in Seq(Nat)
    BY <1>3 DEF Logged, open_append
  <2>2. DOMAIN Logged(i) = 1..Len(Logged(i))
    BY <2>1, LenProperties
  <2>3. 0 <= i
    BY <1>3
  <2>4. cut[i] <= cut[0] /\ cut[0] = appended
    BY <1>2, <1>3, <1>4, <2>3 DEF Cuts
  <2> QED
    BY <1>2, <1>3, <2>1, <2>2, <2>4 DEF Cuts
<1>6. ASSUME NEW i \in 0..Keep, NEW line
      PROVE  line \in Range(Logged(i)) <=> line \in Nat /\ cut[i + 1] < line /\ line <= cut[i]
  <2>1. ASSUME line \in Range(Logged(i))
        PROVE  line \in Nat /\ cut[i + 1] < line /\ line <= cut[i]
    <3>1. PICK k \in DOMAIN Logged(i) : line = Logged(i)[k]
      BY <2>1 DEF Range
    <3>2. k \in 1..(cut[i] - cut[i + 1]) /\ line = cut[i + 1] + k
      BY <1>5, <3>1
    <3> QED
      BY SMTT(30), <1>5, <3>2
  <2>2. ASSUME line \in Nat, cut[i + 1] < line, line <= cut[i]
        PROVE  line \in Range(Logged(i))
    <3> DEFINE k == line - cut[i + 1]
    <3>1. k \in 1..(cut[i] - cut[i + 1]) /\ cut[i + 1] + k = line
      BY <1>5, <2>2
    <3> HIDE DEF k
    <3>2. k \in DOMAIN Logged(i) /\ Logged(i)[k] = line
      BY <1>5, <3>1
    <3> QED
      BY <3>2 DEF Range
  <2> QED
    BY <2>1, <2>2
<1>7. ASSUME NEW i \in 0..Keep, NEW k \in DOMAIN Logged(i), NEW l \in DOMAIN Logged(i), k < l
      PROVE  Logged(i)[k] < Logged(i)[l]
  BY <1>5, <1>7
<1>8. ASSUME NEW i \in 0..Keep, NEW j \in 0..Keep, i < j,
             NEW newer \in Range(Logged(i)), NEW older \in Range(Logged(j))
      PROVE  older < newer
  <2>1. cut[j] <= cut[i + 1]
    BY <1>3, <1>4, <1>8
  <2>2. newer \in Nat /\ cut[i + 1] < newer /\ older \in Nat /\ older <= cut[j]
    BY <1>6
  <2> QED
    BY <1>5, <2>1, <2>2
<1>9. ASSUME NEW i \in 0..Keep, NEW line \in Range(Logged(i))
      PROVE  /\ line \in 1..appended
             /\ \A next \in line..appended : \E j \in 0..Keep : next \in Range(Logged(j))
  <2>1. line \in Nat /\ cut[i + 1] < line /\ line <= cut[i]
    BY <1>6
  <2>2. line \in 1..appended
    <3>1. cut[i] \in Nat /\ cut[i + 1] \in Nat /\ cut[i] <= appended
      BY <1>5
    <3>2. 1 <= line /\ line <= appended
      BY <1>3, <2>1, <3>1
    <3> QED
      BY <1>3, <2>1, <3>2
  <2>3. ASSUME NEW next \in line..appended
        PROVE  \E j \in 0..Keep : next \in Range(Logged(j))
    <3> DEFINE T == {j \in 0..Keep : cut[j + 1] < next}
    <3>1. next \in Nat /\ line <= next /\ next <= appended
      BY <1>3, <2>1, <2>3
    <3>2. i \in T
      BY <1>5, <2>1, <3>1
    <3>3. T \in SUBSET Nat /\ T # {}
      BY <1>3, <3>2
    <3>4. PICK j \in T : \A other \in T : j <= other
      BY <3>3, NatMin
    <3>5. j \in 0..Keep /\ cut[j + 1] < next
      OBVIOUS
    <3>6. next <= cut[j]
      <4>1. CASE j = 0
        BY <1>2, <3>1, <4>1 DEF Cuts
      <4>2. CASE j # 0
        <5>1. j - 1 \in 0..Keep /\ (j - 1) + 1 = j /\ ~(j <= j - 1)
          BY <1>3, <3>5, <4>2
        <5>2. j - 1 \notin T
          BY <3>4, <5>1
        <5>3. ~(cut[j] < next)
          BY <5>1, <5>2
        <5> QED
          BY <1>5, <3>1, <3>5, <5>3
      <4> QED
        BY <4>1, <4>2
    <3> QED
      BY <1>6, <3>1, <3>5, <3>6
  <2> QED
    BY <2>2, <2>3
<1>10. LogIsSuffix
  BY <1>7, <1>8, <1>9 DEF LogIsSuffix
<1> QED
  BY <1>1, <1>10

\* The log.
THEOREM LogSafe == LogSpec => [](LogIsSuffix /\ LossReported)
<1>1. LogSpec => []LogInv
  BY LogBegins, LogInvKept, PTL DEF LogSpec
<1> QED
  BY <1>1, LogTold, PTL

-----------------------------------------------------------------------------
(***************************************************************************)
(* Conversations                                                           *)
(***************************************************************************)
SavedSession == [there : BOOLEAN, turns : Seq(Nat)]
WorkRecord == [id : SessionIds \cup {NoSession}, turns : Seq(Nat)]
RunRecord ==
  [phase : {"off", "prompt", "turn", "saved"}, prompting : BOOLEAN,
   session : SessionIds \cup {NoSession}, work : WorkRecord]

ReplShape ==
  /\ run \in RunRecord
  /\ saved \in [SessionIds -> SavedSession] /\ told \in [SessionIds -> Seq(Nat)]
  /\ answers \in Nat /\ conversation \in Seq(Nat)

\* The turn that runs began from the conversation and its session's file; the turn that
\* was saved is one more than the conversation, of which the rest was told.
WorkSound ==
  /\ run.phase = "turn" =>
       /\ run.work.id \in SessionIds
       /\ run.work.turns = conversation /\ saved[run.work.id].turns = conversation
  /\ run.phase = "saved" =>
       /\ run.work.id \in SessionIds /\ saved[run.work.id].turns = run.work.turns
       /\ InOrder(told[run.work.id], conversation)
       /\ \E x \in Nat : run.work.turns = Append(conversation, x)

ReplInv ==
  /\ ReplShape /\ WorkSound /\ ConversationKept
  /\ \A i \in SessionIds : ~saved[i].there => saved[i].turns = <<>>

\* One more turn keeps the order of what was told, itself told or not.
LEMMA OneMoreTurn ==
  ASSUME NEW heard \in Seq(Nat), NEW turns \in Seq(Nat), NEW x \in Nat, InOrder(heard, turns)
  PROVE  InOrder(heard, Append(turns, x)) /\ InOrder(Append(heard, x), Append(turns, x))
<1>1. PICK at \in [DOMAIN heard -> DOMAIN turns] :
        /\ \A k \in DOMAIN heard : heard[k] = turns[at[k]]
        /\ \A k, l \in DOMAIN heard : k < l => at[k] < at[l]
  BY DEF InOrder
<1> DEFINE m == Len(heard)
           n == Len(turns)
<1>2. m \in Nat /\ n \in Nat /\ DOMAIN heard = 1..m /\ DOMAIN turns = 1..n
  BY LenProperties
<1>3. /\ DOMAIN Append(turns, x) = 1..n + 1 /\ Append(turns, x)[n + 1] = x
      /\ \A k \in 1..n : Append(turns, x)[k] = turns[k]
      /\ DOMAIN Append(heard, x) = 1..m + 1 /\ Append(heard, x)[m + 1] = x
      /\ \A k \in 1..m : Append(heard, x)[k] = heard[k]
  BY AppendProperties, LenProperties
<1> HIDE DEF m, n
<1>4. InOrder(heard, Append(turns, x))
  <2>1. at \in [DOMAIN heard -> 1..n + 1]
    BY <1>2
  <2>2. \A k \in DOMAIN heard : heard[k] = Append(turns, x)[at[k]]
    BY <1>1, <1>2, <1>3
  <2> QED
    BY <1>1, <1>3, <2>1, <2>2 DEF InOrder
<1>5. InOrder(Append(heard, x), Append(turns, x))
  <2> DEFINE longer == [k \in 1..m + 1 |-> IF k <= m THEN at[k] ELSE n + 1]
  <2>1. /\ longer \in [1..m + 1 -> 1..n + 1] /\ longer[m + 1] = n + 1
        /\ \A k \in 1..m : longer[k] = at[k] /\ at[k] \in 1..n
        /\ \A k \in 1..m + 1 : k \in 1..m \/ k = m + 1
    BY <1>2
  <2> HIDE DEF longer
  <2>2. \A k \in 1..m + 1 : Append(heard, x)[k] = Append(turns, x)[longer[k]]
    BY SMTT(30), <1>1, <1>2, <1>3, <2>1
  <2>3. ASSUME NEW k \in 1..m + 1, NEW l \in 1..m + 1, k < l
        PROVE  longer[k] < longer[l]
    <3>1. k \in 1..m
      BY <1>2, <2>3
    <3>2. CASE l \in 1..m
      BY <1>1, <1>2, <2>1, <2>3, <3>1, <3>2
    <3>3. CASE l = m + 1
      BY <1>2, <2>1, <3>1, <3>3
    <3> QED
      BY <2>1, <3>2, <3>3
  <2> QED
    BY <1>3, <2>1, <2>2, <2>3 DEF InOrder
<1> QED
  BY <1>4, <1>5

\* The pieces of the program's state.
LEMMA ReplFields ==
  ASSUME ReplInv
  PROVE  /\ run \in RunRecord /\ run.phase \in {"off", "prompt", "turn", "saved"}
         /\ run.prompting \in BOOLEAN /\ run.session \in SessionIds \cup {NoSession}
         /\ run.work \in WorkRecord /\ run.work.id \in SessionIds \cup {NoSession}
         /\ run.work.turns \in Seq(Nat) /\ NoSession \notin SessionIds
         /\ \A i \in SessionIds : /\ saved[i] \in SavedSession /\ saved[i].there \in BOOLEAN
                                  /\ saved[i].turns \in Seq(Nat) /\ told[i] \in Seq(Nat)
         /\ Off \in RunRecord /\ Off.phase = "off"
         /\ NoWork \in WorkRecord
<1>1. <<>> \in Seq(Nat)
  OBVIOUS
<1>2. NoSession \notin SessionIds
  BY ReplAssumption DEF NoSession
<1>3. NoWork \in WorkRecord
  BY <1>1 DEF NoWork, WorkRecord
<1>4. Off \in RunRecord /\ Off.phase = "off"
  BY <1>3 DEF Off, RunRecord
<1> QED
  BY <1>2, <1>3, <1>4 DEF ReplInv, ReplShape, RunRecord, WorkRecord, SavedSession

\* A run that ends, or goes where no turn is, with the files as they are.
LEMMA RunMoves ==
  ASSUME ReplInv, run' \in RunRecord, conversation' \in Seq(Nat), answers' = answers,
         UNCHANGED <<saved, told>>,
         \/ run'.phase = "off"
         \/ /\ run'.phase = "prompt"
            /\ conversation' = IF run'.session = NoSession THEN <<>> ELSE saved[run'.session].turns
         \/ /\ run'.phase = "turn" /\ run'.work.id \in SessionIds
            /\ run'.work.turns = conversation' /\ saved[run'.work.id].turns = conversation'
  PROVE  ReplInv'
<1>1. ReplShape'
  BY DEF ReplInv, ReplShape
<1>2. WorkSound'
  BY DEF WorkSound
<1>3. ConversationKept'
  BY DEF ReplInv, ConversationKept
<1> QED
  BY <1>1, <1>2, <1>3 DEF ReplInv

\* The process ends.
LEMMA ExitKept == ReplInv /\ Exit => ReplInv'
  BY ReplFields, RunMoves DEF Exit, ReplInv, ReplShape

\* A session is opened for a turn, or there is none.
LEMMA OpenSessionKept ==
  ASSUME ReplInv, NEW id \in SessionIds \cup {NoSession}, NEW prompting \in BOOLEAN,
         OpenSession(id, prompting), UNCHANGED <<saved, answers, told>>,
         conversation' = IF id = NoSession THEN <<>> ELSE saved[id].turns
  PROVE  ReplInv'
<1>0. conversation' \in Seq(Nat)
  BY ReplFields
<1>1. CASE id # NoSession /\ ~saved[id].there
  <2>1. run' = Off
    BY <1>1 DEF OpenSession
  <2> QED
    BY <1>0, <2>1, ReplFields, RunMoves
<1>2. CASE ~(id # NoSession /\ ~saved[id].there)
  <2> DEFINE w == IF id = NoSession THEN [id |-> generate, turns |-> <<>>]
                  ELSE [id |-> id, turns |-> saved[id].turns]
             r == [phase |-> "turn", prompting |-> prompting, session |-> id, work |-> w]
  <2>1. run' = r /\ (id = NoSession => Unused # {})
    BY <1>2 DEF OpenSession
  <2>2. id = NoSession => generate \in SessionIds /\ ~saved[generate].there
    BY <2>1 DEF generate, Unused, Used
  <2>3. /\ w \in WorkRecord /\ w.id \in SessionIds
        /\ w.turns = conversation' /\ saved[w.id].turns = conversation'
    <3>1. CASE id = NoSession
      BY <2>2, <3>1, ReplFields DEF WorkRecord, ReplInv
    <3>2. CASE id # NoSession
      BY <3>2, ReplFields DEF WorkRecord
    <3> QED
      BY <3>1, <3>2
  <2> HIDE DEF w
  <2>4. r \in RunRecord /\ r.phase = "turn" /\ r.work = w
    BY <2>3 DEF RunRecord
  <2> HIDE DEF r
  <2> QED
    BY <1>0, <2>1, <2>3, <2>4, RunMoves
<1> QED
  BY <1>1, <1>2

\* The command line is run.
LEMMA LaunchKept ==
  ASSUME ReplInv, NEW cli, Launch(cli)
  PROVE  ReplInv'
<1>1. CASE Exit
  BY <1>1, ExitKept
<1>2. CASE ~Exit
  <2>1. /\ cli.resume \in SessionIds \cup {NoSession}
        /\ IF cli.task THEN OpenSession(cli.resume, FALSE)
           ELSE run' = [Off EXCEPT !.phase = "prompt", !.prompting = TRUE]
        /\ conversation' = IF cli.task /\ cli.resume # NoSession THEN saved[cli.resume].turns ELSE <<>>
        /\ UNCHANGED <<saved, answers, told>>
    BY <1>2 DEF Launch
  <2>2. CASE cli.task
    BY <2>1, <2>2, OpenSessionKept
  <2>3. CASE ~cli.task
    <3> DEFINE r == [Off EXCEPT !.phase = "prompt", !.prompting = TRUE]
    <3>1. r \in RunRecord /\ r.phase = "prompt" /\ r.session = NoSession
      BY ReplFields DEF Off, RunRecord
    <3>2. run' = r /\ conversation' = <<>>
      BY <2>1, <2>3
    <3> HIDE DEF r
    <3>3. conversation' \in Seq(Nat)
      BY <3>2
    <3> QED
      BY <2>1, <3>1, <3>2, <3>3, RunMoves
  <2> QED
    BY <2>2, <2>3
<1> QED
  BY <1>1, <1>2

\* A turn is recorded and saved.
LEMMA TurnDoneKept == ReplInv /\ TurnDone => ReplInv'
<1> SUFFICES ASSUME ReplInv, TurnDone PROVE ReplInv'
  OBVIOUS
<1> DEFINE i == run.work.id
           x == answers + 1
           turns == Append(run.work.turns, x)
           r == [run EXCEPT !.phase = "saved", !.work.turns = turns]
           f == [there |-> TRUE, turns |-> turns]
<1>1. /\ answers' = x /\ run' = r /\ saved' = [saved EXCEPT ![i] = f]
      /\ UNCHANGED <<conversation, told>>
      /\ i \in SessionIds /\ run.work.turns = conversation /\ saved[i].turns = conversation
      /\ x \in Nat /\ conversation \in Seq(Nat)
  BY DEF TurnDone, ReplInv, ReplShape, WorkSound
<1>2. turns = Append(conversation, x) /\ turns \in Seq(Nat)
  BY <1>1, AppendProperties
<1> HIDE DEF turns, x
<1>3. r \in RunRecord /\ r.phase = "saved" /\ r.work.id = i /\ r.work.turns = turns
  BY <1>2, ReplFields DEF RunRecord, WorkRecord
<1>4. f \in SavedSession /\ f.turns = turns /\ f.there
  BY <1>2 DEF SavedSession
<1> HIDE DEF r, f, i
<1>5. /\ saved' \in [SessionIds -> SavedSession] /\ saved'[i] = f
      /\ \A j \in SessionIds \ {i} : saved'[j] = saved[j]
  BY <1>1, <1>4 DEF ReplInv, ReplShape
<1>6. ReplShape'
  BY <1>1, <1>3, <1>5 DEF ReplInv, ReplShape
<1>7. InOrder(told[i], conversation)
  BY <1>1 DEF ReplInv, ConversationKept
<1>8. WorkSound'
  BY <1>1, <1>2, <1>3, <1>4, <1>5, <1>7 DEF WorkSound
<1>9. InOrder(told[i], turns)
  BY <1>1, <1>2, <1>7, ReplFields, OneMoreTurn
<1>10. ConversationKept'
  BY <1>1, <1>3, <1>4, <1>5, <1>9 DEF ReplInv, ConversationKept
<1> QED
  BY <1>4, <1>5, <1>6, <1>8, <1>10 DEF ReplInv

\* Its answer is printed.
LEMMA AnsweredKept == ReplInv /\ Answered => ReplInv'
<1> SUFFICES ASSUME ReplInv, Answered PROVE ReplInv'
  OBVIOUS
<1> DEFINE i == run.work.id
           turns == run.work.turns
           r == [run EXCEPT !.phase = "prompt", !.session = run.work.id, !.work = NoWork]
<1>1. /\ i \in SessionIds /\ saved[i].turns = turns /\ InOrder(told[i], conversation)
      /\ conversation \in Seq(Nat) /\ told[i] \in Seq(Nat) /\ i # NoSession
  BY ReplFields DEF Answered, ReplInv, ReplShape, WorkSound
<1>2. PICK x \in Nat : turns = Append(conversation, x)
  BY DEF Answered, ReplInv, WorkSound
<1>3. Last(turns) = x /\ turns \in Seq(Nat)
  <2>1. turns \in Seq(Nat) /\ Len(turns) = Len(conversation) + 1 /\ turns[Len(conversation) + 1] = x
    BY <1>1, <1>2, AppendProperties
  <2> QED
    BY <2>1 DEF Last
<1>4. /\ conversation' = turns /\ told' = [told EXCEPT ![i] = Append(told[i], x)]
      /\ run' \in {r, Off} /\ UNCHANGED <<saved, answers>>
  BY <1>2, <1>3 DEF Answered
<1>5. r \in RunRecord /\ r.phase = "prompt" /\ r.session = i
  BY <1>1, ReplFields DEF RunRecord
<1> HIDE DEF i, turns, r
<1>6. Append(told[i], x) \in Seq(Nat)
  BY <1>1, AppendProperties
<1>7. /\ told' \in [SessionIds -> Seq(Nat)] /\ told'[i] = Append(told[i], x)
      /\ \A j \in SessionIds \ {i} : told'[j] = told[j]
  BY <1>1, <1>4, <1>6 DEF ReplInv, ReplShape
<1>8. ReplShape'
  BY <1>3, <1>4, <1>5, <1>7, ReplFields DEF ReplInv, ReplShape
<1>9. WorkSound'
  BY <1>4, <1>5, ReplFields DEF WorkSound
<1>10. InOrder(Append(told[i], x), turns)
  BY <1>1, <1>2, OneMoreTurn
<1>11. ConversationKept'
  BY <1>1, <1>4, <1>5, <1>7, <1>10, ReplFields DEF ReplInv, ConversationKept
<1> QED
  BY <1>4, <1>8, <1>9, <1>11 DEF ReplInv

\* A copy is made and gone on with.
LEMMA BranchKept == ReplInv /\ run.phase = "prompt" /\ Branch => ReplInv'
<1> SUFFICES ASSUME ReplInv, run.phase = "prompt", Branch PROVE ReplInv'
  OBVIOUS
<1>1. CASE Exit
  BY <1>1, ExitKept
<1>2. CASE ~Exit
  <2> DEFINE g == generate
             s == run.session
             r == [run EXCEPT !.session = g]
  <2>1. /\ s \in SessionIds /\ s # NoSession /\ Unused # {}
        /\ run' = r /\ saved' = [saved EXCEPT ![g] = saved[s]] /\ told' = [told EXCEPT ![g] = told[s]]
        /\ UNCHANGED <<answers, conversation>>
    BY <1>2, ReplFields DEF Branch
  <2>2. g \in SessionIds
    BY <2>1 DEF generate, Unused
  <2> HIDE DEF g
  <2>3. r \in RunRecord /\ r.phase = "prompt" /\ r.session = g
    BY <2>2, ReplFields DEF RunRecord
  <2>4. conversation = saved[s].turns /\ g # NoSession
    BY <2>1, <2>2, ReplFields DEF ReplInv, ConversationKept
  <2> HIDE DEF s, r
  <2>5. /\ saved' \in [SessionIds -> SavedSession] /\ told' \in [SessionIds -> Seq(Nat)]
        /\ saved'[g] = saved[s] /\ told'[g] = told[s]
        /\ \A j \in SessionIds \ {g} : saved'[j] = saved[j] /\ told'[j] = told[j]
    BY <2>1, <2>2 DEF ReplInv, ReplShape
  <2>6. ReplShape'
    BY <2>1, <2>3, <2>5 DEF ReplInv, ReplShape
  <2>7. WorkSound'
    BY <2>1, <2>3 DEF WorkSound
  <2>8. ConversationKept'
    BY <2>1, <2>3, <2>4, <2>5 DEF ReplInv, ConversationKept
  <2> QED
    BY <2>1, <2>5, <2>6, <2>7, <2>8 DEF ReplInv
<1> QED
  BY <1>1, <1>2

\* A line at the prompt.
LEMMA TypedKept ==
  ASSUME ReplInv, NEW line, Typed(line)
  PROVE  ReplInv'
<1> DEFINE said == dispatch(builtins, parse_line(line))
<1>0. run.phase = "prompt"
  BY DEF Typed
<1>1. Exit \/ New \/ Resume(said.args) \/ Branch \/ Export \/ Task(said.args) \/ Show
  BY DEF Typed
<1> HIDE DEF said
<1>2. ASSUME Show PROVE ReplInv'
  BY <1>2, <1>0, ReplFields, RunMoves DEF Show, ReplInv, ReplShape, ConversationKept
<1>3. CASE New
  <2> DEFINE r == [run EXCEPT !.session = NoSession]
  <2>1. r \in RunRecord /\ r.phase = "prompt" /\ r.session = NoSession
    BY <1>0, ReplFields DEF RunRecord
  <2>2. run' = r /\ conversation' = <<>> /\ UNCHANGED <<saved, answers, told>>
    BY <1>3 DEF New
  <2> HIDE DEF r
  <2>3. conversation' \in Seq(Nat)
    BY <2>2
  <2> QED
    BY <2>1, <2>2, <2>3, RunMoves
<1>4. CASE Resume(said.args)
  <2>1. CASE Exit
    BY <2>1, ExitKept
  <2>2. CASE ~Exit
    <3> DEFINE i == said.args[1]
               r == [run EXCEPT !.session = i]
    <3>1. /\ i \in SessionIds /\ run' = r /\ conversation' = saved[i].turns
          /\ UNCHANGED <<saved, answers, told>>
      BY <1>4, <2>2 DEF Resume
    <3> HIDE DEF i
    <3>2. r \in RunRecord /\ r.phase = "prompt" /\ r.session = i /\ i # NoSession
      BY <1>0, <3>1, ReplFields DEF RunRecord
    <3> HIDE DEF r
    <3>3. conversation' \in Seq(Nat)
      BY <3>1, ReplFields
    <3> QED
      BY <3>1, <3>2, <3>3, RunMoves
  <2> QED
    BY <2>1, <2>2
<1>5. CASE Export
  BY <1>2, <1>5, ExitKept DEF Export
<1>6. CASE Task(said.args)
  <2>1. CASE Show
    BY <1>2, <2>1
  <2>2. CASE ~Show
    <3>1. OpenSession(run.session, TRUE) /\ UNCHANGED <<saved, answers, conversation, told>>
      BY <1>6, <2>2 DEF Task
    <3>2. PICK id \in SessionIds \cup {NoSession} : id = run.session
      BY ReplFields
    <3>3. conversation' = IF id = NoSession THEN <<>> ELSE saved[id].turns
      BY <1>0, <3>1, <3>2 DEF ReplInv, ConversationKept
    <3>4. OpenSession(id, TRUE)
      BY <3>1, <3>2
    <3> QED
      BY <3>1, <3>3, <3>4, OpenSessionKept
  <2> QED
    BY <2>1, <2>2
<1> QED
  BY <1>0, <1>1, <1>2, <1>3, <1>4, <1>5, <1>6, ExitKept, BranchKept

\* No step of the program breaks the invariant.
LEMMA ReplInvKept == ReplInv /\ [ReplNext]_replVars => ReplInv'
<1> SUFFICES ASSUME ReplInv, [ReplNext]_replVars PROVE ReplInv'
  OBVIOUS
<1>1. ASSUME NEW cli \in Invocations, Launch(cli) PROVE ReplInv'
  BY <1>1, LaunchKept
<1>2. ASSUME NEW line \in PromptLines, Typed(line) PROVE ReplInv'
  BY <1>2, TypedKept
<1>3. CASE TurnFails \/ Killed
  BY <1>3, ExitKept DEF TurnFails, Killed
<1>4. CASE UNCHANGED replVars
  BY <1>4 DEF replVars, ReplInv, ReplShape, WorkSound, ConversationKept
<1> QED
  BY <1>1, <1>2, <1>3, <1>4, TurnDoneKept, AnsweredKept DEF ReplNext

\* No run, no session, nothing told.
LEMMA ReplBegins == ReplInit => ReplInv
<1> SUFFICES ASSUME ReplInit PROVE ReplInv
  OBVIOUS
<1>1. <<>> \in Seq(Nat)
  OBVIOUS
<1>2. Off \in RunRecord /\ Off.phase = "off"
  BY <1>1 DEF Off, RunRecord, NoWork, WorkRecord
<1>3. ReplShape
  BY <1>1, <1>2 DEF ReplInit, ReplShape, SavedSession
<1>4. WorkSound
  BY <1>2 DEF ReplInit, WorkSound
<1>5. InOrder(<<>>, <<>>)
  <2> DEFINE none == <<>>
             at == [k \in {} |-> 1]
  <2>1. DOMAIN none = {}
    BY EmptySeq, LenProperties
  <2>2. at \in [{} -> {}]
    OBVIOUS
  <2> HIDE DEF none, at
  <2>3. InOrder(none, none)
    BY <2>1, <2>2 DEF InOrder
  <2> QED
    BY <2>3 DEF none
<1>6. ConversationKept
  BY <1>2, <1>5 DEF ReplInit, ConversationKept
<1> QED
  BY <1>3, <1>4, <1>6 DEF ReplInit, ReplInv

\* Conversations.
THEOREM ConversationSafe == ReplSpec => []ConversationKept
<1>1. ReplSpec => []ReplInv
  BY ReplBegins, ReplInvKept, PTL DEF ReplSpec
<1>2. ReplInv => ConversationKept
  BY DEF ReplInv
<1> QED
  BY <1>1, <1>2, PTL

-----------------------------------------------------------------------------
(***************************************************************************)
(* The digest                                                              *)
(*                                                                         *)
(* Index and graph follow the events that were applied; what a scan puts   *)
(* in their place is what the tree held of every file no event touched     *)
(* meanwhile.                                                              *)
(***************************************************************************)
\* What the index holds of a text.
Idx(text) == IF Parses(text) THEN text ELSE NoText

\* A module's file is a file of that module, and an edge starts at a file.
GraphShape(g) ==
  /\ g = [modules |-> g.modules, edges |-> g.edges]
  /\ \A m \in DOMAIN g.modules : g.modules[m] \in Files /\ m \in Modules(g.modules[m])

\* The graph has of p what a graph made from this text would have.
GraphFits(g, p, text) ==
  /\ {e.to : e \in {x \in g.edges : x.from = p}} = Imports(p, text)
  /\ OwnModule(p) => ((p \in Range(g.modules)) <=> Parses(text))

IndexShape(index) ==
  /\ index \in [Files -> Texts \cup {NoText}]
  /\ \A p \in Files : index[p] = Idx(index[p])

\* The records of a scan and of the watcher.
ScanOf(phase, dirs, todo, index, graph, touched) ==
  [phase |-> phase, dirs |-> dirs, todo |-> todo, index |-> index, graph |-> graph, touched |-> touched]
WatchOf(queue, phase, path, text) == [queue |-> queue, phase |-> phase, path |-> path, text |-> text]

DigestEvent == [kind : {"remove", "modify"}, path : Files]
DigestShape ==
  /\ disk \in [Files -> Texts \cup {NoText}]
  /\ dscan = ScanOf(dscan.phase, dscan.dirs, dscan.todo, dscan.index, dscan.graph, dscan.touched)
  /\ watch = WatchOf(watch.queue, watch.phase, watch.path, watch.text)
  /\ IndexShape(dindex) /\ GraphShape(dgraph)
  /\ dscan.phase \in {"none", "read", "index", "graph"}
  /\ dscan.todo \subseteq Files /\ dscan.touched \subseteq Files /\ IndexShape(dscan.index) /\ GraphShape(dscan.graph)
  /\ watch.queue \in Seq(DigestEvent) /\ watch.phase \in {"none", "index", "graph"} /\ watch.text \in Texts \cup {NoText}
  /\ watch.phase # "none" => watch.path \in Files
  /\ unsure \subseteq Files /\ moved \subseteq Files /\ dchanges \in 0..MaxChanges

\* An event of p is being applied.
Applied(p, phase) == watch.phase = phase /\ watch.path = p

\* The last event of a file says whether it is there, unless it was renamed away.
EventsTell ==
  \A i \in DOMAIN watch.queue :
    (\A j \in DOMAIN watch.queue : j > i => watch.queue[j].path # watch.queue[i].path)
      => /\ watch.queue[i].kind = "remove" => disk[watch.queue[i].path] = NoText
         /\ disk[watch.queue[i].path] = NoText =>
              watch.queue[i].kind = "remove" \/ watch.queue[i].path \in moved

\* The text being applied is the file's, unless another event of it waits.
WatchSound ==
  /\ watch.phase # "none" => watch.text = disk[watch.path] \/ Queued(watch.path)
  /\ watch.phase = "index" => watch.text # NoText

\* Apart from what a scan has put back, index and graph follow the events.
Follows(p) ==
  /\ Applied(p, "graph") => dindex[p] = Idx(watch.text)
  /\ ~Applied(p, "graph") => GraphFits(dgraph, p, dindex[p])
  /\ watch.phase = "none" \/ watch.path # p => Queued(p) \/ dindex[p] = Idx(disk[p]) \/ p \in moved

\* What a scan has read of a file no event touched is what the file holds.
Scanned(p) ==
  /\ dscan.phase = "read" =>
       (DirOf[p] \in dscan.dirs /\ dscan.index[p] = NoText) \/ p \in dscan.todo \/ dscan.index[p] = Idx(disk[p])
  /\ dscan.phase = "index" => dscan.index[p] = Idx(disk[p]) /\ GraphFits(dscan.graph, p, Idx(disk[p]))
  /\ dscan.phase = "graph" => dindex[p] = Idx(disk[p]) /\ GraphFits(dscan.graph, p, Idx(disk[p]))

DigestInv ==
  /\ DigestShape /\ EventsTell /\ WatchSound
  /\ dscan.phase # "graph" => \A p \in Files \ unsure : Follows(p)
  /\ dscan.phase # "none" => \A p \in Files \ dscan.touched : Scanned(p)
  /\ dscan.phase # "none" /\ watch.phase = "graph" => watch.path \in dscan.touched

\* A text that is not indexed is none, and the index keeps what it indexes.
LEMMA IdxFacts ==
  ASSUME NEW text \in Texts \cup {NoText}, NEW p
  PROVE  /\ Idx(text) \in Texts \cup {NoText} /\ Idx(Idx(text)) = Idx(text)
         /\ Parses(Idx(text)) = Parses(text) /\ Imports(p, Idx(text)) = Imports(p, text)
         /\ Parses(text) \in BOOLEAN /\ ~Parses(NoText) /\ Idx(NoText) = NoText
         /\ (Parses(text) <=> Idx(text) # NoText) /\ (Parses(text) => Idx(text) = text)
<1>1. Parses(text) \in BOOLEAN /\ ~Parses(NoText)
  BY DigestAssumption DEF Parses
<1>2. CASE Parses(text)
  <2>1. Idx(text) = text /\ text # NoText
    BY <1>2 DEF Idx, Parses
  <2> QED
    BY <1>1, <1>2, <2>1 DEF Idx
<1>3. CASE ~Parses(text)
  <2>1. Idx(text) = NoText
    BY <1>3 DEF Idx
  <2>2. Parses(Idx(text)) = Parses(text)
    BY <1>1, <1>3, <2>1 DEF Parses
  <2> QED
    BY <1>1, <1>3, <2>1, <2>2 DEF Idx, Imports
<1> QED
  BY <1>1, <1>2, <1>3

\* Indexing one file changes its entry alone (index_bytes).
LEMMA IndexBytesIs ==
  ASSUME NEW index, IndexShape(index), NEW p \in Files, NEW text \in Texts \cup {NoText}
  PROVE  /\ IndexShape(index_bytes(index, p, text))
         /\ index_bytes(index, p, text)[p] = Idx(text)
         /\ \A q \in Files : q # p => index_bytes(index, p, text)[q] = index[q]
<1>1. index_bytes(index, p, text) = [index EXCEPT ![p] = Idx(text)]
  BY DEF index_bytes, Idx
<1>2. Idx(text) \in Texts \cup {NoText} /\ Idx(Idx(text)) = Idx(text)
  BY IdxFacts
<1> QED
  BY <1>1, <1>2 DEF IndexShape

\* The graph without a file is of the others what it was (graph_remove_file).
LEMMA FileRemoved ==
  ASSUME NEW g, GraphShape(g), NEW p \in Files, NEW r, r = graph_remove_file(g, p)
  PROVE  /\ GraphShape(r) /\ GraphFits(r, p, NoText)
         /\ \A q \in Files : \A t : q # p /\ GraphFits(g, q, t) => GraphFits(r, q, t)
<1>1. /\ r = [modules |-> r.modules, edges |-> r.edges]
      /\ r.edges = {e \in g.edges : e.from # p}
      /\ r.modules = Restrict(g.modules, {m \in DOMAIN g.modules : g.modules[m] # p})
  BY DEF graph_remove_file
<1>2. /\ DOMAIN r.modules = {m \in DOMAIN g.modules : g.modules[m] # p}
      /\ \A m \in DOMAIN r.modules : r.modules[m] = g.modules[m]
  BY <1>1 DEF Restrict
<1>3. GraphShape(r)
  BY <1>1, <1>2 DEF GraphShape
<1>4. GraphFits(r, p, NoText)
  <2>1. {e.to : e \in {x \in r.edges : x.from = p}} = {}
    BY <1>1
  <2>2. ~Parses(NoText) /\ Imports(p, NoText) = {}
    BY DEF Parses, Imports
  <2>3. p \notin Range(r.modules)
    BY <1>2 DEF Range
  <2> QED
    BY <2>1, <2>2, <2>3 DEF GraphFits
<1>5. ASSUME NEW q \in Files, NEW t, q # p, GraphFits(g, q, t) PROVE GraphFits(r, q, t)
  <2>1. {x \in r.edges : x.from = q} = {x \in g.edges : x.from = q}
    BY <1>1, <1>5
  <2>2. q \in Range(r.modules) <=> q \in Range(g.modules)
    BY <1>2, <1>5 DEF Range
  <2> QED
    BY <1>5, <2>1, <2>2 DEF GraphFits
<1> QED
  BY <1>3, <1>4, <1>5

\* Each target is an edge of the file's, and each edge a target (record_imports).
LEMMA EdgesAre ==
  ASSUME NEW modules, NEW p, NEW targets, NEW es, es = edges_of(modules, p, targets)
  PROVE  /\ \A e \in es : e.from = p /\ \E t \in targets : e.to = normalise_import(p, t)
         /\ \A t \in targets : \E e \in es : e.to = normalise_import(p, t)
<1>1. \A e \in es : e.from = p /\ \E t \in targets : e.to = normalise_import(p, t)
  BY DEF edges_of
<1>2. ASSUME NEW t \in targets PROVE \E e \in es : e.to = normalise_import(p, t)
  <2>1. [from |-> p, to |-> normalise_import(p, t),
         internal |-> resolve_module(modules, normalise_import(p, t)) # NoText] \in es
    BY DEF edges_of
  <2> QED
    BY <2>1
<1> QED
  BY <1>1, <1>2

\* A file put back into the graph has its module and its edges, and the others theirs.
LEMMA FileRecorded ==
  ASSUME NEW g, GraphShape(g), NEW p \in Files, GraphFits(g, p, NoText), NEW text \in Texts,
         NEW r, r = record_imports(register_module(g, p), p, import_targets(LanguageOf[p], text.items))
  PROVE  /\ GraphShape(r)
         /\ Parses(text) => GraphFits(r, p, text)
         /\ \A q \in Files : \A t : q # p /\ GraphFits(g, q, t) => GraphFits(r, q, t)
<1> DEFINE m1 == [m \in DOMAIN g.modules \cup Modules(p) |-> IF m \in Modules(p) THEN p ELSE g.modules[m]]
           es == edges_of(m1, p, import_targets(LanguageOf[p], text.items))
<1>1. register_module(g, p) = [modules |-> m1, edges |-> g.edges]
  BY DEF register_module, GraphShape
<1>2. r = [modules |-> m1, edges |-> g.edges \cup es]
  <2> DEFINE z == register_module(g, p)
  <2>1. z.modules = m1 /\ z.edges = g.edges /\ z = [modules |-> m1, edges |-> g.edges]
    BY ONLY <1>1
  <2>2. r = [z EXCEPT !.edges = @ \cup edges_of(z.modules, p, import_targets(LanguageOf[p], text.items))]
    BY DEF record_imports
  <2> HIDE DEF z
  <2>3. r = [z EXCEPT !.edges = g.edges \cup es]
    BY <2>1, <2>2
  <2> HIDE DEF m1, es
  <2> QED
    BY ONLY <2>1, <2>3
<1>3. (\A e \in es : e.from = p) /\ (Parses(text) => {e.to : e \in es} = Imports(p, text))
  <2> DEFINE mods == m1
             targets == import_targets(LanguageOf[p], text.items)
  <2>1. es = edges_of(mods, p, targets)
    OBVIOUS
  <2>2. Parses(text) => Imports(p, text) = {normalise_import(p, t) : t \in targets}
    BY DEF Imports
  <2> HIDE DEF mods, es, m1, targets
  <2>3. /\ \A e \in es : e.from = p /\ \E t \in targets : e.to = normalise_import(p, t)
        /\ \A t \in targets : \E e \in es : e.to = normalise_import(p, t)
    BY <2>1, EdgesAre
  <2> QED
    BY <2>2, <2>3
<1>4. /\ DOMAIN m1 = DOMAIN g.modules \cup Modules(p)
      /\ \A m \in Modules(p) : m1[m] = p
      /\ \A m \in DOMAIN g.modules : m \notin Modules(p) => m1[m] = g.modules[m]
  OBVIOUS
<1> HIDE DEF m1, es
<1>5. r.modules = m1 /\ r.edges = g.edges \cup es /\ r = [modules |-> r.modules, edges |-> r.edges]
  BY <1>2
<1>6. GraphShape(r)
  BY <1>4, <1>5 DEF GraphShape
<1>7. ASSUME Parses(text) PROVE GraphFits(r, p, text)
  <2>1. {e.to : e \in {x \in g.edges : x.from = p}} = {}
    BY DEF GraphFits, Imports, Parses
  <2>2. {x \in r.edges : x.from = p} = es
    BY <1>3, <1>5, <2>1
  <2>3. ASSUME OwnModule(p) PROVE p \in Range(r.modules)
    <3>1. module_path(p) \in Modules(p)
      BY <2>3 DEF OwnModule, Modules
    <3> QED
      BY <1>4, <1>5, <3>1 DEF Range
  <2> QED
    BY <1>3, <1>7, <2>2, <2>3 DEF GraphFits
<1>8. ASSUME NEW q \in Files, NEW t, q # p, GraphFits(g, q, t) PROVE GraphFits(r, q, t)
  <2>1. {x \in r.edges : x.from = q} = {x \in g.edges : x.from = q}
    BY <1>3, <1>5, <1>8
  <2>2. ASSUME OwnModule(q) PROVE q \in Range(r.modules) <=> q \in Range(g.modules)
    <3>1. ASSUME NEW m \in DOMAIN g.modules, g.modules[m] = q PROVE m \notin Modules(p)
      BY <1>8, <2>2, <3>1 DEF GraphShape, OwnModule, Modules
    <3> QED
      BY <1>4, <1>5, <1>8, <3>1 DEF Range
  <2> QED
    BY <1>8, <2>1, <2>2 DEF GraphFits
<1> QED
  BY <1>6, <1>7, <1>8

\* A graph made from the tree has of each file what its text says, where the index was
\* made from that text (build_graph).
LEMMA GraphBuilt ==
  ASSUME NEW index, IndexShape(index), NEW texts \in [Files -> Texts \cup {NoText}], NEW g, g = build_graph(index, texts)
  PROVE  /\ GraphShape(g)
         /\ \A p \in Files : index[p] = Idx(texts[p]) => GraphFits(g, p, Idx(texts[p]))
<1> DEFINE ps == indexed_paths(index)
           Registering(m) == {i \in DOMAIN Paths : Paths[i] \in ps /\ m \in Modules(Paths[i])}
           read == {p \in ps : texts[p] # NoText}
           Edges(p) == edges_of(RegisterAll(ps), p, import_targets(LanguageOf[p], texts[p].items))
<1>0. ps \subseteq Files /\ \A p \in Files : p \in ps <=> index[p] # NoText
  BY DEF indexed_paths
<1>1. g = [modules |-> RegisterAll(ps), edges |-> UNION {Edges(p) : p \in read}]
  BY DEF build_graph
<1>2. ASSUME NEW m, NEW p \in ps, m \in Modules(p)
      PROVE  Max(Registering(m)) \in Registering(m)
  <2>1. DOMAIN Paths = 1..Len(Paths) /\ Len(Paths) \in Nat
    BY DigestAssumption
  <2>2. Registering(m) \in SUBSET (0..Len(Paths))
    BY <2>1
  <2>3. PICK i \in DOMAIN Paths : Paths[i] = p
    BY <1>0 DEF Files, Range
  <2>4. i \in Registering(m)
    BY <1>2, <2>3
  <2>5. \E x \in Registering(m) : \A y \in Registering(m) : y <= x
    <3> HIDE DEF Registering
    <3> QED
      BY <2>1, <2>2, <2>4, NatMax
  <2>6. \E x \in Registering(m) : \A y \in Registering(m) : x >= y
    BY <2>1, <2>2, <2>5
  <2> QED
    BY <2>6 DEF Max
<1>3. /\ DOMAIN g.modules = UNION {Modules(p) : p \in ps}
      /\ \A m \in DOMAIN g.modules : g.modules[m] \in ps /\ m \in Modules(g.modules[m])
  <2>1. g.modules = [m \in UNION {Modules(p) : p \in ps} |-> Paths[Max(Registering(m))]]
    BY <1>1 DEF RegisterAll
  <2>2. ASSUME NEW m \in UNION {Modules(p) : p \in ps}
        PROVE  Paths[Max(Registering(m))] \in ps /\ m \in Modules(Paths[Max(Registering(m))])
    <3>1. Max(Registering(m)) \in Registering(m)
      BY <1>2
    <3> QED
      BY <3>1
  <2> HIDE DEF Registering, ps
  <2> QED
    BY <2>1, <2>2
<1>4. GraphShape(g)
  BY <1>0, <1>1, <1>3 DEF GraphShape
<1>5. ASSUME NEW p \in Files, index[p] = Idx(texts[p]) PROVE GraphFits(g, p, Idx(texts[p]))
  <2>0. texts[p] \in Texts \cup {NoText} /\ (p \in ps <=> Parses(texts[p])) /\ (Parses(texts[p]) => texts[p] # NoText)
    BY <1>0, <1>5, IdxFacts DEF Parses
  <2>1. \A q \in read : Parses(texts[q]) \/ q # p
    BY <2>0
  <2>2. \A q, e : e \in Edges(q) => e.from = q
    BY DEF edges_of
  <2>3. {x \in g.edges : x.from = p} = IF Parses(texts[p]) THEN Edges(p) ELSE {}
    <3> HIDE DEF Edges
    <3>1. g.edges = UNION {Edges(q) : q \in read}
      BY <1>1
    <3>2. p \in read <=> Parses(texts[p])
      BY <2>0
    <3> HIDE DEF read
    <3> QED
      BY <2>2, <3>1, <3>2
  <2>4. {e.to : e \in {x \in g.edges : x.from = p}} = Imports(p, texts[p])
    <3>1. CASE Parses(texts[p])
      <4>1. {e.to : e \in Edges(p)} = Imports(p, texts[p])
        <5> DEFINE es == Edges(p)
                   mods == RegisterAll(ps)
                   targets == import_targets(LanguageOf[p], texts[p].items)
        <5>1. es = edges_of(mods, p, targets) /\ Imports(p, texts[p]) = {normalise_import(p, t) : t \in targets}
          BY <3>1 DEF Imports
        <5> HIDE DEF es, mods, targets
        <5>2. /\ \A e \in es : e.from = p /\ \E t \in targets : e.to = normalise_import(p, t)
              /\ \A t \in targets : \E e \in es : e.to = normalise_import(p, t)
          BY <5>1, EdgesAre
        <5>3. {e.to : e \in es} = Imports(p, texts[p])
          BY <5>1, <5>2
        <5> QED
          BY <5>3 DEF es
      <4> HIDE DEF Edges
      <4> QED
        BY <2>3, <3>1, <4>1
    <3>2. CASE ~Parses(texts[p])
      BY <2>3, <3>2 DEF Imports
    <3> QED
      BY <3>1, <3>2
  <2>5. ASSUME OwnModule(p) PROVE p \in Range(g.modules) <=> p \in ps
    <3>1. ASSUME p \in ps PROVE p \in Range(g.modules)
      <4>1. module_path(p) \in Modules(p) /\ module_path(p) \in DOMAIN g.modules
        BY <1>3, <2>5, <3>1 DEF OwnModule, Modules
      <4>2. g.modules[module_path(p)] = p
        BY <1>0, <1>3, <2>5, <4>1 DEF OwnModule, Modules
      <4> QED
        BY <4>1, <4>2 DEF Range
    <3>2. ASSUME p \in Range(g.modules) PROVE p \in ps
      BY <1>3, <3>2 DEF Range
    <3> QED
      BY <3>1, <3>2
  <2> QED
    BY <2>0, <2>4, <2>5, IdxFacts DEF GraphFits
<1> QED
  BY <1>4, <1>5

\* What a queue is without its first event.
LEMMA QueueTail ==
  ASSUME NEW q \in Seq(DigestEvent), q # <<>>
  PROVE  /\ Tail(q) \in Seq(DigestEvent) /\ Head(q) \in DigestEvent /\ Head(q) = q[1] /\ 1 \in DOMAIN q
         /\ Len(q) \in Nat /\ DOMAIN q = 1..Len(q) /\ DOMAIN Tail(q) = 1..(Len(q) - 1)
         /\ \A i \in DOMAIN Tail(q) : i \in Nat /\ i + 1 \in DOMAIN q /\ Tail(q)[i] = q[i + 1]
         /\ \A i \in DOMAIN q : i # 1 => i - 1 \in DOMAIN Tail(q) /\ Tail(q)[i - 1] = q[i]
<1>1. Len(q) \in Nat /\ Len(q) # 0 /\ DOMAIN q = 1..Len(q) /\ Tail(q) \in Seq(DigestEvent) /\ Head(q) = q[1]
  OBVIOUS
<1>2. Len(Tail(q)) = Len(q) - 1 /\ DOMAIN Tail(q) = 1..(Len(q) - 1)
  OBVIOUS
<1>3. \A i \in DOMAIN Tail(q) : i \in Nat /\ i + 1 \in DOMAIN q /\ Tail(q)[i] = q[i + 1]
  BY <1>1, <1>2
<1>4. ASSUME NEW i \in DOMAIN q, i # 1 PROVE i - 1 \in DOMAIN Tail(q) /\ Tail(q)[i - 1] = q[i]
  <2>1. i - 1 \in DOMAIN Tail(q) /\ (i - 1) + 1 = i
    BY <1>1, <1>2, <1>4
  <2> QED
    BY <1>3, <2>1
<1>5. 1 \in DOMAIN q /\ Head(q) \in DigestEvent
  BY <1>1
<1> QED
  BY <1>1, <1>2, <1>3, <1>4, <1>5

\* An event taken off the queue tells of its file, unless a later one does.
LEMMA EventTaken ==
  ASSUME DigestShape, EventsTell, watch.queue # <<>>, disk' = disk, moved' = moved, watch'.queue = Tail(watch.queue),
         NEW p, p = Event.path
  PROVE  /\ p \in Files /\ Tail(watch.queue) \in Seq(DigestEvent) /\ EventsTell'
         /\ \A q : q # p /\ Queued(q) => Queued(q)'
         /\ Queued(p)' \/ ((Event.kind = "remove" => disk[p] = NoText) /\ (disk[p] = NoText => Event.kind = "remove" \/ p \in moved))
<1> DEFINE q == watch.queue
           r == Tail(q)
<1>1. q \in Seq(DigestEvent) /\ q # <<>>
  BY DEF DigestShape
<1> HIDE DEF q
<1>2. /\ r \in Seq(DigestEvent) /\ Head(q) \in DigestEvent /\ Head(q) = q[1] /\ 1 \in DOMAIN q
      /\ Len(q) \in Nat /\ DOMAIN q = 1..Len(q) /\ DOMAIN r = 1..(Len(q) - 1)
      /\ \A i \in DOMAIN r : i \in Nat /\ i + 1 \in DOMAIN q /\ r[i] = q[i + 1]
      /\ \A i \in DOMAIN q : i # 1 => i - 1 \in DOMAIN r /\ r[i - 1] = q[i]
  BY <1>1, QueueTail
<1> HIDE DEF r
<1>3. p = q[1].path /\ Event = q[1] /\ p \in Files
  BY <1>2 DEF Event, DigestEvent, q
<1>4. watch'.queue = r
  BY DEF q, r
<1>5. \A i \in DOMAIN q :
        (\A j \in DOMAIN q : j > i => q[j].path # q[i].path) =>
          /\ q[i].kind = "remove" => disk[q[i].path] = NoText
          /\ disk[q[i].path] = NoText => q[i].kind = "remove" \/ q[i].path \in moved
  BY DEF EventsTell, q
<1>6. ASSUME NEW i \in DOMAIN r, \A j \in DOMAIN r : j > i => r[j].path # r[i].path
      PROVE  /\ r[i].kind = "remove" => disk[r[i].path] = NoText
             /\ disk[r[i].path] = NoText => r[i].kind = "remove" \/ r[i].path \in moved
  <2>1. i + 1 \in DOMAIN q /\ r[i] = q[i + 1] /\ i \in Nat
    BY <1>2
  <2>2. ASSUME NEW j \in DOMAIN q, j > i + 1 PROVE q[j].path # q[i + 1].path
    <3>1. j - 1 \in DOMAIN r /\ r[j - 1] = q[j] /\ j - 1 > i
      BY <1>2, <2>1, <2>2
    <3> QED
      BY <1>6, <2>1, <3>1
  <2>3. /\ q[i + 1].kind = "remove" => disk[q[i + 1].path] = NoText
        /\ disk[q[i + 1].path] = NoText => q[i + 1].kind = "remove" \/ q[i + 1].path \in moved
    BY <1>5, <2>1, <2>2
  <2> QED
    BY <2>1, <2>3
<1>7. EventsTell'
  BY <1>4, <1>6 DEF EventsTell
<1>8. ASSUME NEW x, x # p, Queued(x) PROVE Queued(x)'
  <2>1. PICK i \in DOMAIN q : q[i].path = x
    BY <1>8 DEF Queued, q
  <2>2. i # 1
    BY <1>3, <1>8, <2>1
  <2>3. i - 1 \in DOMAIN r /\ r[i - 1].path = x
    BY <1>2, <2>1, <2>2
  <2> QED
    BY <1>4, <2>3 DEF Queued
<1>9. CASE \A j \in DOMAIN r : r[j].path # p
  <2>1. ASSUME NEW j \in DOMAIN q, j > 1 PROVE q[j].path # q[1].path
    BY <1>2, <1>3, <1>9, <2>1
  <2>2. (Event.kind = "remove" => disk[p] = NoText) /\ (disk[p] = NoText => Event.kind = "remove" \/ p \in moved)
    BY <1>2, <1>3, <1>5, <2>1
  <2> QED
    BY <1>2, <1>3, <1>7, <1>8, <2>2 DEF r, q
<1>10. CASE \E j \in DOMAIN r : r[j].path = p
  <2>1. Queued(p)'
    BY <1>4, <1>10 DEF Queued
  <2> QED
    BY <1>2, <1>3, <1>7, <1>8, <2>1 DEF r, q
<1> QED
  BY <1>9, <1>10

\* The watcher's queue after a change.
LEMMA EventHeard ==
  ASSUME NEW q \in Seq(DigestEvent), NEW e \in DigestEvent
  PROVE  /\ Append(q, e) \in Seq(DigestEvent) /\ Len(q) \in Nat
         /\ DOMAIN Append(q, e) = 1..(Len(q) + 1) /\ DOMAIN q = 1..Len(q)
         /\ Append(q, e)[Len(q) + 1] = e
         /\ \A i \in DOMAIN q : Append(q, e)[i] = q[i]
OBVIOUS

\* What the scan has to read again, once the index or the graph of a file is touched.
LEMMA Touched ==
  ASSUME NEW p \in Files, DigestShape, NEW touch, touch = Touch(p)
  PROVE  /\ touch = ScanOf(dscan.phase, dscan.dirs, dscan.todo, dscan.index, dscan.graph, touch.touched)
         /\ touch.touched \subseteq Files /\ dscan.touched \subseteq touch.touched
         /\ dscan.phase # "none" => p \in touch.touched
<1>1. CASE dscan.phase = "none"
  BY <1>1 DEF Touch, DigestShape
<1>2. CASE dscan.phase # "none"
  <2> DEFINE u == dscan.touched \cup {p}
  <2>1. touch = [dscan EXCEPT !.touched = u]
    BY <1>2 DEF Touch
  <2>2. dscan = ScanOf(dscan.phase, dscan.dirs, dscan.todo, dscan.index, dscan.graph, dscan.touched) /\ dscan.touched \subseteq Files
    BY DEF DigestShape
  <2>3. u \subseteq Files /\ dscan.touched \subseteq u /\ p \in u
    BY <2>2
  <2> HIDE DEF u
  <2>4. touch = ScanOf(touch.phase, touch.dirs, touch.todo, touch.index, touch.graph, touch.touched)
    BY <2>1, <2>2 DEF ScanOf
  <2>5. /\ touch.phase = dscan.phase /\ touch.dirs = dscan.dirs /\ touch.todo = dscan.todo /\ touch.index = dscan.index
        /\ touch.graph = dscan.graph /\ touch.touched = u
    BY <2>1, <2>2 DEF ScanOf
  <2> QED
    BY <2>3, <2>4, <2>5
<1> QED
  BY <1>1, <1>2

\* An edit is heard of, and makes what was read of the file old.
LEMMA ChangeFollowed ==
  ASSUME DigestInv, NEW p \in Files, NEW text \in Texts \cup {NoText},
         NEW heard \in {"remove", "modify"}, Change(p, text, heard)
  PROVE  DigestInv'
<1> DEFINE e == [kind |-> heard, path |-> p]
           q == watch.queue
           n == Len(q) + 1
<1>1. /\ disk' = [disk EXCEPT ![p] = text] /\ watch' = [watch EXCEPT !.queue = Append(q, e)] /\ dscan' = Touch(p)
      /\ dchanges < MaxChanges /\ dchanges' = dchanges + 1 /\ dindex' = dindex /\ dgraph' = dgraph /\ unsure' = unsure
      /\ heard = "remove" => text = NoText
      /\ moved' = IF text = NoText /\ heard = "modify" THEN moved \cup {p} ELSE moved \ {p}
  BY DEF Change
<1>2. DigestShape /\ q \in Seq(DigestEvent) /\ e \in DigestEvent
  BY DEF DigestInv, DigestShape, DigestEvent
<1> HIDE DEF e
<1>3. /\ watch' = WatchOf(watch'.queue, watch'.phase, watch'.path, watch'.text)
      /\ watch'.queue = Append(q, e) /\ watch'.phase = watch.phase /\ watch'.path = watch.path /\ watch'.text = watch.text
  <2>1. watch = WatchOf(watch.queue, watch.phase, watch.path, watch.text)
    BY <1>2 DEF DigestShape
  <2> HIDE DEF q
  <2> QED
    BY <1>1, <2>1 DEF WatchOf
<1>4. /\ dscan' = ScanOf(dscan.phase, dscan.dirs, dscan.todo, dscan.index, dscan.graph, dscan'.touched)
      /\ dscan'.touched \subseteq Files /\ dscan.touched \subseteq dscan'.touched
      /\ dscan.phase # "none" => p \in dscan'.touched
  BY <1>1, <1>2, Touched
<1>5. /\ dscan'.phase = dscan.phase /\ dscan'.dirs = dscan.dirs /\ dscan'.todo = dscan.todo /\ dscan'.index = dscan.index /\ dscan'.graph = dscan.graph
  BY <1>4 DEF ScanOf
<1>6. /\ Append(q, e) \in Seq(DigestEvent) /\ Len(q) \in Nat /\ DOMAIN Append(q, e) = 1..n /\ DOMAIN q = 1..Len(q)
      /\ Append(q, e)[n] = e /\ \A i \in DOMAIN q : Append(q, e)[i] = q[i]
  BY <1>2, EventHeard
<1>7. /\ disk' \in [Files -> Texts \cup {NoText}] /\ disk'[p] = text /\ \A x \in Files : x # p => disk'[x] = disk[x]
  BY <1>1, <1>2 DEF DigestShape
<1>8. DigestShape'
  <2>1. dchanges' \in 0..MaxChanges
    BY <1>1, <1>2, DigestAssumption DEF DigestShape
  <2>2. IndexShape(dindex)' /\ GraphShape(dgraph)' /\ IndexShape(dscan.index)' /\ GraphShape(dscan.graph)'
    BY <1>1, <1>2, <1>5 DEF DigestShape
  <2> HIDE DEF q, n
  <2> QED
    BY <1>1, <1>2, <1>3, <1>4, <1>5, <1>6, <1>7, <2>1, <2>2 DEF DigestShape
<1>9. Queued(p)' /\ \A x : Queued(x) => Queued(x)'
  <2>1. e.path = p /\ n \in 1..n
    BY <1>6 DEF e
  <2>2. Queued(p)'
    BY <1>3, <1>6, <2>1 DEF Queued
  <2>3. ASSUME NEW x, Queued(x) PROVE Queued(x)'
    <3>1. PICK i \in DOMAIN q : q[i].path = x
      BY <2>3 DEF Queued
    <3>2. i \in 1..n
      BY <1>6, <3>1
    <3> QED
      BY <1>3, <1>6, <3>1, <3>2 DEF Queued
  <2> QED
    BY <2>2, <2>3
<1>10. EventsTell'
  <2> SUFFICES ASSUME NEW i \in 1..n, \A j \in 1..n : j > i => Append(q, e)[j].path # Append(q, e)[i].path
               PROVE  /\ Append(q, e)[i].kind = "remove" => disk'[Append(q, e)[i].path] = NoText
                      /\ disk'[Append(q, e)[i].path] = NoText =>
                           Append(q, e)[i].kind = "remove" \/ Append(q, e)[i].path \in moved'
    BY <1>3, <1>6 DEF EventsTell
  <2>1. CASE i = n
    BY <1>1, <1>6, <1>7, <2>1 DEF e
  <2>2. CASE i # n
    <3>1. i \in DOMAIN q /\ n > i /\ n \in 1..n
      BY <1>6, <2>2
    <3>2. Append(q, e)[i] = q[i] /\ q[i].path # p /\ q[i].path \in Files
      <4>1. Append(q, e)[i] = q[i] /\ q[i] \in DigestEvent
        BY <1>2, <1>6, <3>1
      <4>2. Append(q, e)[n].path # Append(q, e)[i].path /\ Append(q, e)[n].path = p
        BY <1>6, <3>1 DEF e
      <4> QED
        BY <4>1, <4>2 DEF DigestEvent
    <3>3. \A j \in DOMAIN q : j > i => q[j].path # q[i].path
      BY <1>6, <3>1, <3>2
    <3>4. /\ q[i].kind = "remove" => disk[q[i].path] = NoText
          /\ disk[q[i].path] = NoText => q[i].kind = "remove" \/ q[i].path \in moved
      BY <3>1, <3>3 DEF DigestInv, EventsTell
    <3> QED
      BY <1>1, <1>7, <3>2, <3>4
  <2> QED
    BY <2>1, <2>2
<1> HIDE DEF q, n
<1>11. WatchSound'
  BY <1>1, <1>2, <1>3, <1>7, <1>9 DEF DigestInv, WatchSound, DigestShape
<1>12. ASSUME dscan.phase # "graph", NEW x \in Files \ unsure PROVE Follows(x)'
  <2>1. Follows(x) /\ (x # p => (x \in moved' <=> x \in moved))
    BY <1>1, <1>12 DEF DigestInv
  <2> QED
    BY <1>1, <1>3, <1>7, <1>9, <2>1 DEF Follows, Applied
<1>13. ASSUME dscan.phase # "none", NEW x \in Files \ dscan'.touched PROVE Scanned(x)'
  <2>1. Scanned(x) /\ x # p
    BY <1>4, <1>13 DEF DigestInv
  <2> QED
    BY <1>1, <1>5, <1>7, <2>1 DEF Scanned
<1>14. dscan.phase # "none" /\ watch.phase = "graph" => watch.path \in dscan'.touched
  BY <1>4 DEF DigestInv
<1> QED
  BY <1>1, <1>3, <1>5, <1>8, <1>10, <1>11, <1>12, <1>13, <1>14 DEF DigestInv

\* A removed file leaves the index, and its graph is to follow.
LEMMA RemovedFollowed ==
  ASSUME DigestInv, EventRemoved
  PROVE  DigestInv'
<1> DEFINE q == Tail(watch.queue)
<1>1. DigestShape /\ EventsTell
  BY DEF DigestInv
<1>2. PICK p : p = Event.path
  OBVIOUS
<1>3. /\ watch.phase = "none" /\ watch.queue # <<>> /\ Event.kind = "remove"
      /\ dindex' = [dindex EXCEPT ![p] = NoText] /\ dscan' = Touch(p)
      /\ watch' = [watch EXCEPT !.phase = "graph", !.path = p, !.text = NoText, !.queue = q]
      /\ disk' = disk /\ dgraph' = dgraph /\ unsure' = unsure /\ moved' = moved /\ dchanges' = dchanges
  BY <1>2 DEF EventRemoved
<1> HIDE DEF q
<1>4. /\ watch' = WatchOf(watch'.queue, watch'.phase, watch'.path, watch'.text)
      /\ watch'.queue = q /\ watch'.phase = "graph" /\ watch'.path = p /\ watch'.text = NoText
  <2>1. watch = WatchOf(watch.queue, watch.phase, watch.path, watch.text)
    BY <1>1 DEF DigestShape
  <2> QED
    BY <1>3, <2>1 DEF WatchOf
<1>5. /\ p \in Files /\ q \in Seq(DigestEvent) /\ EventsTell'
      /\ \A x : x # p /\ Queued(x) => Queued(x)'
      /\ Queued(p)' \/ ((Event.kind = "remove" => disk[p] = NoText) /\ (disk[p] = NoText => Event.kind = "remove" \/ p \in moved))
  BY <1>1, <1>2, <1>3, <1>4, EventTaken DEF q
<1>6. /\ dscan' = ScanOf(dscan.phase, dscan.dirs, dscan.todo, dscan.index, dscan.graph, dscan'.touched)
      /\ dscan'.touched \subseteq Files /\ dscan.touched \subseteq dscan'.touched
      /\ dscan.phase # "none" => p \in dscan'.touched
  BY <1>1, <1>3, <1>5, Touched
<1>7. /\ dscan'.phase = dscan.phase /\ dscan'.dirs = dscan.dirs /\ dscan'.todo = dscan.todo /\ dscan'.index = dscan.index /\ dscan'.graph = dscan.graph
  BY <1>6 DEF ScanOf
<1>8. Idx(NoText) = NoText
  BY DEF Idx
<1>9. IndexShape(dindex)' /\ dindex'[p] = NoText /\ \A x \in Files : x # p => dindex'[x] = dindex[x]
  BY <1>1, <1>3, <1>5, <1>8 DEF DigestShape, IndexShape
<1>10. DigestShape'
  <2>1. GraphShape(dgraph)' /\ IndexShape(dscan.index)' /\ GraphShape(dscan.graph)'
    BY <1>1, <1>3, <1>7 DEF DigestShape
  <2> QED
    BY <1>1, <1>3, <1>4, <1>5, <1>6, <1>7, <1>9, <2>1 DEF DigestShape
<1>11. WatchSound'
  BY <1>3, <1>4, <1>5 DEF WatchSound
<1>12. ASSUME dscan.phase # "graph", NEW x \in Files \ unsure PROVE Follows(x)'
  <2>1. Follows(x)
    BY <1>12 DEF DigestInv
  <2>2. CASE x = p
    BY <1>4, <1>8, <1>9, <2>2 DEF Follows, Applied
  <2>3. CASE x # p
    <3>1. GraphFits(dgraph, x, dindex[x])
      BY <1>3, <2>1 DEF Follows, Applied
    <3>2. Queued(x)' \/ dindex[x] = Idx(disk[x]) \/ x \in moved
      BY <1>3, <1>5, <2>1, <2>3 DEF Follows
    <3> QED
      BY <1>3, <1>4, <1>9, <2>3, <3>1, <3>2 DEF Follows, Applied
  <2> QED
    BY <2>2, <2>3
<1>13. ASSUME dscan.phase # "none", NEW x \in Files \ dscan'.touched PROVE Scanned(x)'
  <2>1. Scanned(x) /\ x # p
    BY <1>6, <1>13 DEF DigestInv
  <2> QED
    BY <1>3, <1>7, <1>9, <2>1 DEF Scanned
<1> QED
  BY <1>3, <1>4, <1>5, <1>6, <1>7, <1>10, <1>11, <1>12, <1>13 DEF DigestInv

\* A changed file is read, and what is read is what the file holds.
LEMMA ReadFollowed ==
  ASSUME DigestInv, EventRead
  PROVE  DigestInv'
<1> DEFINE q == Tail(watch.queue)
<1>1. DigestShape /\ EventsTell
  BY DEF DigestInv
<1>2. PICK p : p = Event.path
  OBVIOUS
<1> DEFINE over == disk[p] = NoText \/ is_current(dindex, p, disk[p])
           phase == IF over THEN "none" ELSE "index"
           text == IF over THEN NoText ELSE disk[p]
<1>3. /\ watch.phase = "none" /\ watch.queue # <<>> /\ Event.kind = "modify"
      /\ watch' = [watch EXCEPT !.queue = q, !.phase = phase, !.path = p, !.text = text]
      /\ disk' = disk /\ dindex' = dindex /\ dgraph' = dgraph /\ dscan' = dscan /\ unsure' = unsure /\ moved' = moved /\ dchanges' = dchanges
  BY <1>2 DEF EventRead
<1> HIDE DEF q, phase, text
<1>4. /\ watch' = WatchOf(watch'.queue, watch'.phase, watch'.path, watch'.text)
      /\ watch'.queue = q /\ watch'.phase = phase /\ watch'.path = p /\ watch'.text = text
  <2>1. watch = WatchOf(watch.queue, watch.phase, watch.path, watch.text)
    BY <1>1 DEF DigestShape
  <2> HIDE DEF over
  <2> QED
    BY <1>3, <2>1 DEF WatchOf
<1>5. /\ p \in Files /\ q \in Seq(DigestEvent) /\ EventsTell'
      /\ \A x : x # p /\ Queued(x) => Queued(x)'
      /\ Queued(p)' \/ ((Event.kind = "remove" => disk[p] = NoText) /\ (disk[p] = NoText => Event.kind = "remove" \/ p \in moved))
  BY <1>1, <1>2, <1>3, <1>4, EventTaken DEF q
<1>6. IF over THEN phase = "none" /\ text = NoText ELSE phase = "index" /\ text = disk[p] /\ text # NoText
  BY DEF phase, text
<1>7. DigestShape'
  <2>1. disk[p] \in Texts \cup {NoText}
    BY <1>1, <1>5 DEF DigestShape
  <2>2. IndexShape(dindex)' /\ GraphShape(dgraph)' /\ IndexShape(dscan.index)' /\ GraphShape(dscan.graph)'
    BY <1>1, <1>3 DEF DigestShape
  <2> HIDE DEF over
  <2> QED
    BY <1>1, <1>3, <1>4, <1>5, <1>6, <2>1, <2>2 DEF DigestShape
<1>8. WatchSound'
  <2> HIDE DEF over
  <2> QED
    BY <1>3, <1>4, <1>6 DEF WatchSound
<1>9. ASSUME dscan.phase # "graph", NEW x \in Files \ unsure PROVE Follows(x)'
  <2>1. GraphFits(dgraph, x, dindex[x]) /\ (Queued(x) \/ dindex[x] = Idx(disk[x]) \/ x \in moved)
    BY <1>3, <1>9 DEF DigestInv, Follows, Applied
  <2>2. ASSUME x = p, over PROVE Queued(x)' \/ dindex[x] = Idx(disk[x]) \/ x \in moved
    <3>1. CASE disk[p] = NoText
      BY <1>3, <1>5, <2>2, <3>1
    <3>2. CASE dindex[p] = disk[p]
      BY <1>1, <1>5, <2>2, <3>2 DEF DigestShape, IndexShape
    <3> QED
      BY <2>2, <3>1, <3>2 DEF is_current
  <2>3. x # p => Queued(x)' \/ dindex[x] = Idx(disk[x]) \/ x \in moved
    BY <1>5, <2>1
  <2> HIDE DEF over
  <2> QED
    BY <1>3, <1>4, <1>6, <2>1, <2>2, <2>3 DEF Follows, Applied
<1>10. ASSUME dscan.phase # "none", NEW x \in Files \ dscan.touched PROVE Scanned(x)'
  <2>1. Scanned(x)
    BY <1>10 DEF DigestInv
  <2> QED
    BY <1>3, <2>1 DEF Scanned
<1>11. watch'.phase # "graph"
  BY <1>4, <1>6
<1> HIDE DEF over
<1> QED
  BY <1>3, <1>5, <1>7, <1>8, <1>9, <1>10, <1>11 DEF DigestInv

\* What was read goes into the index, and the graph is to follow.
LEMMA IndexedFollowed ==
  ASSUME DigestInv, EventIndex
  PROVE  DigestInv'
<1>1. DigestShape /\ EventsTell /\ WatchSound
  BY DEF DigestInv
<1>2. PICK p : p = watch.path
  OBVIOUS
<1>3. /\ watch.phase = "index" /\ p \in Files /\ watch.text \in Texts \cup {NoText}
      /\ dindex' = index_bytes(dindex, p, watch.text) /\ dscan' = Touch(p)
      /\ watch' = [watch EXCEPT !.phase = "graph"]
      /\ disk' = disk /\ dgraph' = dgraph /\ unsure' = unsure /\ moved' = moved /\ dchanges' = dchanges
  BY <1>1, <1>2 DEF EventIndex, DigestShape
<1>4. /\ watch' = WatchOf(watch'.queue, watch'.phase, watch'.path, watch'.text)
      /\ watch'.queue = watch.queue /\ watch'.phase = "graph" /\ watch'.path = p /\ watch'.text = watch.text
  <2>1. watch = WatchOf(watch.queue, watch.phase, watch.path, watch.text)
    BY <1>1 DEF DigestShape
  <2> QED
    BY <1>2, <1>3, <2>1 DEF WatchOf
<1>5. /\ dscan' = ScanOf(dscan.phase, dscan.dirs, dscan.todo, dscan.index, dscan.graph, dscan'.touched)
      /\ dscan'.touched \subseteq Files /\ dscan.touched \subseteq dscan'.touched
      /\ dscan.phase # "none" => p \in dscan'.touched
  BY <1>1, <1>3, Touched
<1>6. /\ dscan'.phase = dscan.phase /\ dscan'.dirs = dscan.dirs /\ dscan'.todo = dscan.todo /\ dscan'.index = dscan.index /\ dscan'.graph = dscan.graph
  BY <1>5 DEF ScanOf
<1>7. IndexShape(dindex') /\ dindex'[p] = Idx(watch.text) /\ \A x \in Files : x # p => dindex'[x] = dindex[x]
  <2>1. IndexShape(dindex)
    BY <1>1 DEF DigestShape
  <2> QED
    BY <1>3, <2>1, IndexBytesIs
<1>8. \A x : Queued(x)' <=> Queued(x)
  BY <1>4 DEF Queued
<1>9. DigestShape'
  <2>1. GraphShape(dgraph)' /\ IndexShape(dscan.index)' /\ GraphShape(dscan.graph)' /\ IndexShape(dindex)'
    BY <1>1, <1>3, <1>6, <1>7 DEF DigestShape, IndexShape
  <2> QED
    BY <1>1, <1>3, <1>4, <1>5, <1>6, <2>1 DEF DigestShape
<1>10. EventsTell' /\ WatchSound'
  BY <1>1, <1>2, <1>3, <1>4, <1>8 DEF EventsTell, WatchSound
<1>11. ASSUME dscan.phase # "graph", NEW x \in Files \ unsure PROVE Follows(x)'
  <2>1. GraphFits(dgraph, x, dindex[x]) /\ (x = p \/ Queued(x) \/ dindex[x] = Idx(disk[x]) \/ x \in moved)
    BY <1>2, <1>3, <1>11 DEF DigestInv, Follows, Applied
  <2>2. CASE x = p
    BY <1>4, <1>7, <2>2 DEF Follows, Applied
  <2>3. CASE x # p
    BY <1>3, <1>4, <1>7, <1>8, <2>1, <2>3 DEF Follows, Applied
  <2> QED
    BY <2>2, <2>3
<1>12. ASSUME dscan.phase # "none", NEW x \in Files \ dscan'.touched PROVE Scanned(x)'
  <2>1. Scanned(x) /\ x # p
    BY <1>5, <1>12 DEF DigestInv
  <2> QED
    BY <1>3, <1>6, <1>7, <2>1 DEF Scanned
<1> QED
  BY <1>3, <1>4, <1>5, <1>6, <1>9, <1>10, <1>11, <1>12 DEF DigestInv

\* The file's module and edges follow what was indexed.
LEMMA GraphFollowed ==
  ASSUME DigestInv, EventGraph
  PROVE  DigestInv'
<1>1. DigestShape /\ EventsTell /\ WatchSound
  BY DEF DigestInv
<1>2. PICK p : p = watch.path
  OBVIOUS
<1> DEFINE text == watch.text
           dropped == graph_remove_file(dgraph, p)
           put == record_imports(register_module(dropped, p), p, import_targets(LanguageOf[p], text.items))
<1>3. /\ watch.phase = "graph" /\ p \in Files /\ text \in Texts \cup {NoText}
      /\ dgraph' = IF text = NoText \/ p \notin indexed_paths(dindex) THEN dropped ELSE put
      /\ dscan' = Touch(p) /\ watch' = [watch EXCEPT !.phase = "none", !.text = NoText]
      /\ disk' = disk /\ dindex' = dindex /\ unsure' = unsure /\ moved' = moved /\ dchanges' = dchanges
  BY <1>1, <1>2 DEF EventGraph, DigestShape
<1>4. /\ GraphShape(dropped) /\ GraphFits(dropped, p, NoText)
      /\ \A x \in Files : \A t : x # p /\ GraphFits(dgraph, x, t) => GraphFits(dropped, x, t)
  <2> HIDE DEF dropped
  <2>1. dropped = graph_remove_file(dgraph, p) /\ GraphShape(dgraph)
    BY <1>1 DEF DigestShape, dropped
  <2> QED
    BY <1>3, <2>1, FileRemoved
<1>5. ASSUME text # NoText
      PROVE  /\ GraphShape(put)
             /\ Parses(text) => GraphFits(put, p, text)
             /\ \A x \in Files : \A t : x # p /\ GraphFits(dropped, x, t) => GraphFits(put, x, t)
  <2>1. put = record_imports(register_module(dropped, p), p, import_targets(LanguageOf[p], text.items)) /\ text \in Texts
    BY <1>3, <1>5
  <2> HIDE DEF put, dropped, text
  <2> QED
    BY <1>3, <1>4, <2>1, FileRecorded
<1> HIDE DEF put, dropped
<1>6. /\ watch' = WatchOf(watch'.queue, watch'.phase, watch'.path, watch'.text)
      /\ watch'.queue = watch.queue /\ watch'.phase = "none" /\ watch'.path = p /\ watch'.text = NoText
  <2>1. watch = WatchOf(watch.queue, watch.phase, watch.path, watch.text)
    BY <1>1 DEF DigestShape
  <2> QED
    BY <1>2, <1>3, <2>1 DEF WatchOf
<1>7. /\ dscan' = ScanOf(dscan.phase, dscan.dirs, dscan.todo, dscan.index, dscan.graph, dscan'.touched)
      /\ dscan'.touched \subseteq Files /\ dscan.touched \subseteq dscan'.touched
      /\ dscan.phase # "none" => p \in dscan'.touched
  BY <1>1, <1>3, Touched
<1>8. /\ dscan'.phase = dscan.phase /\ dscan'.dirs = dscan.dirs /\ dscan'.todo = dscan.todo /\ dscan'.index = dscan.index /\ dscan'.graph = dscan.graph
  BY <1>7 DEF ScanOf
<1>9. \A x : Queued(x)' <=> Queued(x)
  BY <1>6 DEF Queued
<1>10. GraphShape(dgraph')
  BY <1>3, <1>4, <1>5
<1>11. \A x \in Files : \A t : x # p /\ GraphFits(dgraph, x, t) => GraphFits(dgraph', x, t)
  BY <1>3, <1>4, <1>5
<1>12. ASSUME dindex[p] = Idx(text) PROVE GraphFits(dgraph', p, dindex[p])
  <2>1. CASE text = NoText
    BY <1>3, <1>4, <1>12, <2>1 DEF Idx
  <2>2. CASE text # NoText /\ dindex[p] = NoText
    BY <1>3, <1>4, <2>2 DEF indexed_paths
  <2>3. CASE text # NoText /\ dindex[p] # NoText
    <3>1. Parses(text) /\ dindex[p] = text
      BY <1>12, <2>3 DEF Idx
    <3> QED
      BY <1>3, <1>5, <2>3, <3>1 DEF indexed_paths
  <2> QED
    BY <2>1, <2>2, <2>3
<1>13. DigestShape'
  <2>1. GraphShape(dgraph)' /\ IndexShape(dscan.index)' /\ GraphShape(dscan.graph)' /\ IndexShape(dindex)'
    BY <1>1, <1>3, <1>8, <1>10 DEF DigestShape, GraphShape
  <2> QED
    BY <1>1, <1>3, <1>6, <1>7, <1>8, <2>1 DEF DigestShape
<1>14. EventsTell' /\ WatchSound'
  BY <1>1, <1>3, <1>6 DEF EventsTell, WatchSound
<1>15. ASSUME dscan.phase # "graph", NEW x \in Files \ unsure PROVE Follows(x)'
  <2>1. Follows(x)
    BY <1>15 DEF DigestInv
  <2>2. CASE x = p
    <3>1. dindex[p] = Idx(text)
      BY <1>2, <1>3, <2>1, <2>2 DEF Follows, Applied
    <3>2. GraphFits(dgraph', p, dindex[p])
      BY <1>12, <3>1
    <3>3. Queued(p) \/ dindex[p] = Idx(disk[p])
      BY <1>1, <1>2, <1>3, <3>1 DEF WatchSound
    <3> QED
      BY <1>3, <1>6, <1>9, <2>2, <3>2, <3>3 DEF Follows, Applied
  <2>3. CASE x # p
    <3>1. GraphFits(dgraph', x, dindex[x]) /\ (Queued(x) \/ dindex[x] = Idx(disk[x]) \/ x \in moved)
      BY <1>2, <1>3, <1>11, <2>1, <2>3 DEF Follows, Applied
    <3> QED
      BY <1>3, <1>6, <1>9, <3>1 DEF Follows, Applied
  <2> QED
    BY <2>2, <2>3
<1>16. ASSUME dscan.phase # "none", NEW x \in Files \ dscan'.touched PROVE Scanned(x)'
  <2>1. Scanned(x)
    BY <1>7, <1>16 DEF DigestInv
  <2> QED
    BY <1>3, <1>8, <2>1 DEF Scanned
<1> QED
  BY <1>3, <1>6, <1>8, <1>13, <1>14, <1>15, <1>16 DEF DigestInv

\* A step of the scan that leaves the tree, the index, the graph and the watcher alone.
LEMMA ScanAlone ==
  ASSUME DigestInv, dscan.phase # "graph", dscan'.phase # "graph",
         UNCHANGED <<disk, dindex, dgraph, watch, unsure, moved, dchanges>>,
         dscan' = ScanOf(dscan'.phase, dscan'.dirs, dscan'.todo, dscan'.index, dscan'.graph, dscan'.touched),
         dscan'.phase \in {"none", "read", "index"},
         dscan'.todo \subseteq Files, dscan'.touched \subseteq Files, IndexShape(dscan'.index), GraphShape(dscan'.graph),
         dscan'.phase # "none" => \A p \in Files \ dscan'.touched : Scanned(p)',
         dscan'.phase # "none" /\ watch.phase = "graph" => watch.path \in dscan'.touched
  PROVE  DigestInv'
<1>1. disk' = disk /\ dindex' = dindex /\ dgraph' = dgraph /\ watch' = watch /\ unsure' = unsure /\ moved' = moved /\ dchanges' = dchanges
  OBVIOUS
<1>2. DigestShape'
  <2>1. IndexShape(dindex)' /\ GraphShape(dgraph)' /\ IndexShape(dscan.index)' /\ GraphShape(dscan.graph)'
    BY <1>1 DEF DigestInv, DigestShape, IndexShape, GraphShape
  <2> QED
    BY <1>1, <2>1 DEF DigestInv, DigestShape
<1>3. EventsTell' /\ WatchSound'
  BY <1>1 DEF DigestInv, EventsTell, WatchSound, Queued
<1>4. ASSUME NEW p \in Files \ unsure PROVE Follows(p)'
  BY <1>1, <1>4 DEF DigestInv, Follows, Applied, Queued
<1> QED
  BY <1>1, <1>2, <1>3, <1>4 DEF DigestInv

\* Nothing is scanned.
LEMMA NothingScanned ==
  /\ NoScan = ScanOf(NoScan.phase, NoScan.dirs, NoScan.todo, NoScan.index, NoScan.graph, NoScan.touched)
  /\ NoScan.phase = "none" /\ NoScan.dirs = {} /\ NoScan.todo = {} /\ NoScan.touched = {}
  /\ IndexShape(NoScan.index) /\ GraphShape(NoScan.graph)
  /\ \A p \in Files : NoScan.index[p] = NoText
<1>1. IndexShape([p \in Files |-> NoText])
  BY DEF IndexShape, Idx
<1>2. GraphShape(EmptyGraph)
  <2>1. DOMAIN << >> = {}
    OBVIOUS
  <2> QED
    BY <2>1 DEF GraphShape, EmptyGraph
<1> QED
  BY <1>1, <1>2 DEF NoScan, ScanOf

\* A scan has every directory to list.
LEMMA BeginFollowed ==
  ASSUME DigestInv, ScanBegin
  PROVE  DigestInv'
<1> DEFINE touched == IF watch.phase = "none" THEN {} ELSE {watch.path}
           dirs == {DirOf[p] : p \in Files}
           s == NoScan
<1>1. /\ dscan.phase = "none" /\ UNCHANGED <<disk, dindex, dgraph, watch, unsure, moved, dchanges>>
      /\ dscan' = [s EXCEPT !.phase = "read", !.dirs = dirs, !.touched = touched]
  BY DEF ScanBegin
<1>2. touched \subseteq Files /\ (watch.phase = "graph" => watch.path \in touched)
  BY DEF DigestInv, DigestShape
<1>3. \A p \in Files : DirOf[p] \in dirs
  OBVIOUS
<1>4. /\ s = ScanOf(s.phase, s.dirs, s.todo, s.index, s.graph, s.touched)
      /\ s.todo = {} /\ IndexShape(s.index) /\ GraphShape(s.graph) /\ \A p \in Files : s.index[p] = NoText
  BY NothingScanned
<1> HIDE DEF touched, dirs, s
<1>5. /\ dscan' = ScanOf(dscan'.phase, dscan'.dirs, dscan'.todo, dscan'.index, dscan'.graph, dscan'.touched)
      /\ dscan'.phase = "read" /\ dscan'.dirs = dirs /\ dscan'.todo = {} /\ dscan'.touched = touched
      /\ dscan'.index = s.index /\ dscan'.graph = s.graph
  <2>1. dscan' = ScanOf(dscan'.phase, dscan'.dirs, dscan'.todo, dscan'.index, dscan'.graph, dscan'.touched)
    BY <1>1, <1>4 DEF ScanOf
  <2>2. /\ dscan'.phase = "read" /\ dscan'.dirs = dirs /\ dscan'.todo = s.todo /\ dscan'.touched = touched
        /\ dscan'.index = s.index /\ dscan'.graph = s.graph
    BY <1>1, <1>4 DEF ScanOf
  <2> QED
    BY <1>4, <2>1, <2>2
<1>6. ASSUME NEW p \in Files PROVE Scanned(p)'
  BY <1>3, <1>4, <1>5 DEF Scanned
<1> QED
  BY <1>1, <1>2, <1>4, <1>5, <1>6, ScanAlone

\* A directory is listed as it is, and holds all there is to read of it.
LEMMA ListFollowed ==
  ASSUME DigestInv, NEW d, ScanDirectory(d)
  PROVE  DigestInv'
<1> DEFINE todo == {p \in Files : DirOf[p] = d /\ disk[p] # NoText}
<1>1. /\ dscan.phase = "read" /\ dscan.todo = {} /\ UNCHANGED <<disk, dindex, dgraph, watch, unsure, moved, dchanges>>
      /\ dscan' = [dscan EXCEPT !.dirs = dscan.dirs \ {d}, !.todo = todo]
  BY DEF ScanDirectory
<1>2. DigestShape
  BY DEF DigestInv
<1>3. todo \subseteq Files /\ \A p \in Files : p \in todo <=> DirOf[p] = d /\ disk[p] # NoText
  OBVIOUS
<1> HIDE DEF todo
<1>4. /\ dscan' = ScanOf(dscan'.phase, dscan'.dirs, dscan'.todo, dscan'.index, dscan'.graph, dscan'.touched)
      /\ dscan'.phase = "read" /\ dscan'.dirs = dscan.dirs \ {d} /\ dscan'.todo = todo /\ dscan'.touched = dscan.touched
      /\ dscan'.index = dscan.index /\ dscan'.graph = dscan.graph
  <2>1. dscan = ScanOf(dscan.phase, dscan.dirs, dscan.todo, dscan.index, dscan.graph, dscan.touched)
    BY <1>2 DEF DigestShape
  <2>2. dscan' = ScanOf(dscan'.phase, dscan'.dirs, dscan'.todo, dscan'.index, dscan'.graph, dscan'.touched)
    BY <1>1, <2>1 DEF ScanOf
  <2>3. /\ dscan'.phase = "read" /\ dscan'.dirs = dscan.dirs \ {d} /\ dscan'.todo = todo /\ dscan'.touched = dscan.touched
        /\ dscan'.index = dscan.index /\ dscan'.graph = dscan.graph
    BY <1>1, <2>1 DEF ScanOf
  <2> QED
    BY <2>2, <2>3
<1>5. ASSUME NEW p \in Files \ dscan.touched PROVE Scanned(p)'
  <2>1. (DirOf[p] \in dscan.dirs /\ dscan.index[p] = NoText) \/ dscan.index[p] = Idx(disk[p])
    BY <1>1, <1>5 DEF DigestInv, Scanned
  <2>2. CASE DirOf[p] = d /\ disk[p] # NoText
    BY <1>3, <1>4, <2>2 DEF Scanned
  <2>3. CASE DirOf[p] = d /\ disk[p] = NoText
    <3>1. Idx(disk[p]) = NoText
      BY <2>3 DEF Idx
    <3> QED
      BY <1>1, <1>4, <2>1, <3>1 DEF Scanned
  <2>4. CASE DirOf[p] # d
    BY <1>1, <1>4, <2>1, <2>4 DEF Scanned
  <2> QED
    BY <2>2, <2>3, <2>4
<1>6. dscan.touched \subseteq Files /\ IndexShape(dscan.index) /\ GraphShape(dscan.graph)
  BY <1>2 DEF DigestShape
<1>7. watch.phase = "graph" => watch.path \in dscan.touched
  BY <1>1 DEF DigestInv
<1> QED
  BY <1>1, <1>3, <1>4, <1>5, <1>6, <1>7, ScanAlone

\* A scan that fails is as if it had not been.
LEMMA FailFollowed ==
  ASSUME DigestInv, ScanFails
  PROVE  DigestInv'
<1>1. dscan.phase = "read" /\ dscan' = NoScan /\ UNCHANGED <<disk, dindex, dgraph, watch, unsure, moved, dchanges>>
  BY DEF ScanFails
<1> QED
  BY <1>1, NothingScanned, ScanAlone

\* A file is read as it is.
LEMMA FileFollowed ==
  ASSUME DigestInv, NEW p \in Files, ScanFile(p)
  PROVE  DigestInv'
<1> DEFINE index == index_bytes(dscan.index, p, disk[p])
<1>1. /\ dscan.phase = "read" /\ UNCHANGED <<disk, dindex, dgraph, watch, unsure, moved, dchanges>>
      /\ dscan' = [dscan EXCEPT !.index = index, !.todo = dscan.todo \ {p}]
  BY DEF ScanFile
<1>2. DigestShape
  BY DEF DigestInv
<1>3. IndexShape(index) /\ index[p] = Idx(disk[p]) /\ \A x \in Files : x # p => index[x] = dscan.index[x]
  <2>1. IndexShape(dscan.index) /\ disk[p] \in Texts \cup {NoText}
    BY <1>2 DEF DigestShape
  <2> QED
    BY <2>1, IndexBytesIs
<1> HIDE DEF index
<1>4. /\ dscan' = ScanOf(dscan'.phase, dscan'.dirs, dscan'.todo, dscan'.index, dscan'.graph, dscan'.touched)
      /\ dscan'.phase = "read" /\ dscan'.dirs = dscan.dirs /\ dscan'.todo = dscan.todo \ {p} /\ dscan'.touched = dscan.touched
      /\ dscan'.index = index /\ dscan'.graph = dscan.graph
  <2>1. dscan = ScanOf(dscan.phase, dscan.dirs, dscan.todo, dscan.index, dscan.graph, dscan.touched)
    BY <1>2 DEF DigestShape
  <2>2. dscan' = ScanOf(dscan'.phase, dscan'.dirs, dscan'.todo, dscan'.index, dscan'.graph, dscan'.touched)
    BY <1>1, <2>1 DEF ScanOf
  <2>3. /\ dscan'.phase = "read" /\ dscan'.dirs = dscan.dirs /\ dscan'.todo = dscan.todo \ {p} /\ dscan'.touched = dscan.touched
        /\ dscan'.index = index /\ dscan'.graph = dscan.graph
    BY <1>1, <2>1 DEF ScanOf
  <2> QED
    BY <2>2, <2>3
<1>5. ASSUME NEW x \in Files \ dscan.touched PROVE Scanned(x)'
  <2>1. (DirOf[x] \in dscan.dirs /\ dscan.index[x] = NoText) \/ x \in dscan.todo \/ dscan.index[x] = Idx(disk[x])
    BY <1>1, <1>5 DEF DigestInv, Scanned
  <2> QED
    BY <1>1, <1>3, <1>4, <2>1 DEF Scanned
<1>6. dscan.todo \ {p} \subseteq Files /\ dscan.touched \subseteq Files /\ GraphShape(dscan.graph)
  BY <1>2 DEF DigestShape
<1>7. watch.phase = "graph" => watch.path \in dscan.touched
  BY <1>1 DEF DigestInv
<1> QED
  BY <1>1, <1>3, <1>4, <1>5, <1>6, <1>7, ScanAlone

\* The graph of what was read is made from the tree.
LEMMA MakeFollowed ==
  ASSUME DigestInv, ScanGraph
  PROVE  DigestInv'
<1> DEFINE g == build_graph(dscan.index, disk)
<1>1. /\ dscan.phase = "read" /\ dscan.todo = {} /\ dscan.dirs = {} /\ UNCHANGED <<disk, dindex, dgraph, watch, unsure, moved, dchanges>>
      /\ dscan' = [dscan EXCEPT !.phase = "index", !.graph = g]
  BY DEF ScanGraph
<1>2. DigestShape
  BY DEF DigestInv
<1>3. GraphShape(g) /\ \A p \in Files : dscan.index[p] = Idx(disk[p]) => GraphFits(g, p, Idx(disk[p]))
  <2>1. IndexShape(dscan.index) /\ disk \in [Files -> Texts \cup {NoText}]
    BY <1>2 DEF DigestShape
  <2> QED
    BY <2>1, GraphBuilt
<1> HIDE DEF g
<1>4. /\ dscan' = ScanOf(dscan'.phase, dscan'.dirs, dscan'.todo, dscan'.index, dscan'.graph, dscan'.touched)
      /\ dscan'.phase = "index" /\ dscan'.dirs = dscan.dirs /\ dscan'.todo = dscan.todo /\ dscan'.touched = dscan.touched
      /\ dscan'.index = dscan.index /\ dscan'.graph = g
  <2>1. dscan = ScanOf(dscan.phase, dscan.dirs, dscan.todo, dscan.index, dscan.graph, dscan.touched)
    BY <1>2 DEF DigestShape
  <2>2. dscan' = ScanOf(dscan'.phase, dscan'.dirs, dscan'.todo, dscan'.index, dscan'.graph, dscan'.touched)
    BY <1>1, <2>1 DEF ScanOf
  <2>3. /\ dscan'.phase = "index" /\ dscan'.dirs = dscan.dirs /\ dscan'.todo = dscan.todo /\ dscan'.touched = dscan.touched
        /\ dscan'.index = dscan.index /\ dscan'.graph = g
    BY <1>1, <2>1 DEF ScanOf
  <2> QED
    BY <2>2, <2>3
<1>5. ASSUME NEW x \in Files \ dscan.touched PROVE Scanned(x)'
  <2>1. dscan.index[x] = Idx(disk[x])
    BY <1>1, <1>5 DEF DigestInv, Scanned
  <2>2. GraphFits(g, x, Idx(disk[x]))
    BY <1>3, <2>1
  <2> QED
    BY <1>1, <1>4, <2>1, <2>2 DEF Scanned
<1>6. dscan.todo \subseteq Files /\ dscan.touched \subseteq Files /\ IndexShape(dscan.index)
  BY <1>2 DEF DigestShape
<1>7. watch.phase = "graph" => watch.path \in dscan.touched
  BY <1>1 DEF DigestInv
<1> QED
  BY <1>1, <1>3, <1>4, <1>5, <1>6, <1>7, ScanAlone

\* The scanned index takes the index's place before the graph does.
LEMMA InstallIndexFollowed ==
  ASSUME DigestInv, InstallIndex
  PROVE  DigestInv'
<1>1. /\ dscan.phase = "index" /\ dindex' = dscan.index /\ dscan' = [dscan EXCEPT !.phase = "graph"]
      /\ disk' = disk /\ dgraph' = dgraph /\ watch' = watch /\ unsure' = unsure /\ moved' = moved /\ dchanges' = dchanges
  BY DEF InstallIndex
<1>2. DigestShape
  BY DEF DigestInv
<1>3. /\ dscan' = ScanOf(dscan'.phase, dscan'.dirs, dscan'.todo, dscan'.index, dscan'.graph, dscan'.touched)
      /\ dscan'.phase = "graph" /\ dscan'.dirs = dscan.dirs /\ dscan'.todo = dscan.todo /\ dscan'.touched = dscan.touched
      /\ dscan'.index = dscan.index /\ dscan'.graph = dscan.graph
  <2>1. dscan = ScanOf(dscan.phase, dscan.dirs, dscan.todo, dscan.index, dscan.graph, dscan.touched)
    BY <1>2 DEF DigestShape
  <2>2. dscan' = ScanOf(dscan'.phase, dscan'.dirs, dscan'.todo, dscan'.index, dscan'.graph, dscan'.touched)
    BY <1>1, <2>1 DEF ScanOf
  <2>3. /\ dscan'.phase = "graph" /\ dscan'.dirs = dscan.dirs /\ dscan'.todo = dscan.todo /\ dscan'.touched = dscan.touched
        /\ dscan'.index = dscan.index /\ dscan'.graph = dscan.graph
    BY <1>1, <2>1 DEF ScanOf
  <2> QED
    BY <2>2, <2>3
<1>4. DigestShape'
  <2>1. IndexShape(dindex)' /\ GraphShape(dgraph)' /\ IndexShape(dscan.index)' /\ GraphShape(dscan.graph)'
    BY <1>1, <1>2, <1>3 DEF DigestShape, IndexShape, GraphShape
  <2> QED
    BY <1>1, <1>2, <1>3, <2>1 DEF DigestShape
<1>5. EventsTell' /\ WatchSound'
  BY <1>1 DEF DigestInv, EventsTell, WatchSound, Queued
<1>6. ASSUME NEW p \in Files \ dscan.touched PROVE Scanned(p)'
  <2>1. dscan.index[p] = Idx(disk[p]) /\ GraphFits(dscan.graph, p, Idx(disk[p]))
    BY <1>1, <1>6 DEF DigestInv, Scanned
  <2> QED
    BY <1>1, <1>3, <2>1 DEF Scanned
<1>7. watch.phase = "graph" => watch.path \in dscan.touched
  BY <1>1 DEF DigestInv
<1> QED
  BY <1>1, <1>3, <1>4, <1>5, <1>6, <1>7 DEF DigestInv

\* Once both are in place, of every file no event touched they are the tree's.
LEMMA InstallGraphFollowed ==
  ASSUME DigestInv, InstallGraph
  PROVE  DigestInv'
<1>1. /\ dscan.phase = "graph" /\ dgraph' = dscan.graph /\ unsure' = dscan.touched /\ dscan' = NoScan
      /\ disk' = disk /\ dindex' = dindex /\ watch' = watch /\ dchanges' = dchanges
      /\ moved' \subseteq moved /\ \A p \in moved : Queued(p) => p \in moved'
  BY DEF InstallGraph
<1>2. DigestShape'
  <2>1. IndexShape(dindex)' /\ GraphShape(dgraph)' /\ IndexShape(dscan.index)' /\ GraphShape(dscan.graph)'
    BY <1>1, NothingScanned DEF DigestInv, DigestShape, IndexShape, GraphShape
  <2> QED
    BY <1>1, <2>1, NothingScanned DEF DigestInv, DigestShape
<1>3. EventsTell' /\ WatchSound'
  <2>1. EventsTell /\ WatchSound /\ \A i \in DOMAIN watch.queue : Queued(watch.queue[i].path)
    BY DEF DigestInv, Queued
  <2>2. EventsTell'
    BY <1>1, <2>1 DEF EventsTell
  <2>3. WatchSound'
    BY <1>1, <2>1 DEF WatchSound, Queued
  <2> QED
    BY <2>2, <2>3
<1>4. ASSUME NEW p \in Files \ dscan.touched PROVE Follows(p)'
  <2>1. dindex[p] = Idx(disk[p]) /\ GraphFits(dscan.graph, p, Idx(disk[p]))
    BY <1>1, <1>4 DEF DigestInv, Scanned
  <2>2. ~(watch.phase = "graph" /\ watch.path = p)
    BY <1>1, <1>4 DEF DigestInv
  <2> QED
    BY <1>1, <2>1, <2>2 DEF Follows, Applied
<1>5. dscan'.phase = "none"
  BY <1>1, NothingScanned
<1> QED
  BY <1>1, <1>2, <1>3, <1>4, <1>5 DEF DigestInv

\* The first scan is made before anything else runs.
LEMMA DigestBegins ==
  DigestInit => DigestInv
<1> SUFFICES ASSUME DigestInit PROVE DigestInv
  OBVIOUS
<1>1. /\ disk \in [Files -> Texts \cup {NoText}] /\ dindex = [p \in Files |-> Idx(disk[p])]
      /\ dgraph = build_graph(dindex, disk) /\ dscan = NoScan /\ watch = Watching
      /\ unsure = {} /\ moved = {} /\ dchanges = 0
  BY DEF DigestInit, ScanTree, Idx
<1>2. IndexShape(dindex)
  <2>1. \A p \in Files : Idx(disk[p]) \in Texts \cup {NoText} /\ Idx(Idx(disk[p])) = Idx(disk[p])
    BY <1>1, IdxFacts
  <2> QED
    BY <1>1, <2>1 DEF IndexShape
<1>3. GraphShape(dgraph) /\ \A p \in Files : GraphFits(dgraph, p, dindex[p])
  BY <1>1, <1>2, GraphBuilt
<1>4. /\ watch = WatchOf(watch.queue, watch.phase, watch.path, watch.text)
      /\ watch.queue = << >> /\ watch.phase = "none" /\ watch.text = NoText
  BY <1>1 DEF Watching, WatchOf
<1>5. /\ dscan = ScanOf(dscan.phase, dscan.dirs, dscan.todo, dscan.index, dscan.graph, dscan.touched)
      /\ dscan.phase = "none" /\ dscan.todo = {} /\ dscan.touched = {} /\ IndexShape(dscan.index) /\ GraphShape(dscan.graph)
  BY <1>1, NothingScanned
<1>6. DigestShape
  <2>1. dchanges \in 0..MaxChanges
    BY <1>1, DigestAssumption
  <2> QED
    BY <1>1, <1>2, <1>3, <1>4, <1>5, <2>1 DEF DigestShape
<1>7. EventsTell /\ WatchSound
  <2>1. DOMAIN watch.queue = {}
    BY <1>4
  <2> QED
    BY <1>4, <2>1 DEF EventsTell, WatchSound
<1>8. \A p \in Files : Follows(p)
  BY <1>1, <1>3, <1>4 DEF Follows, Applied
<1> QED
  BY <1>5, <1>6, <1>7, <1>8 DEF DigestInv

\* A step of the scan, of the watcher or of the tree keeps the digest.
LEMMA DigestStep ==
  DigestInv /\ [DigestNext]_digestVars => DigestInv'
<1> SUFFICES ASSUME DigestInv, [DigestNext]_digestVars PROVE DigestInv'
  OBVIOUS
<1>1. CASE \E p \in Files, text \in Texts \cup {NoText}, heard \in {"remove", "modify"} : Change(p, text, heard)
  BY <1>1, ChangeFollowed
<1>2. CASE EventRemoved
  BY <1>2, RemovedFollowed
<1>3. CASE EventRead
  BY <1>3, ReadFollowed
<1>4. CASE EventIndex
  BY <1>4, IndexedFollowed
<1>5. CASE EventGraph
  BY <1>5, GraphFollowed
<1>6. CASE ScanBegin
  BY <1>6, BeginFollowed
<1>7. CASE ScanFails
  BY <1>7, FailFollowed
<1>13. CASE \E d \in {DirOf[p] : p \in Files} : ScanDirectory(d)
  BY <1>13, ListFollowed
<1>8. CASE \E p \in Files : ScanFile(p)
  BY <1>8, FileFollowed
<1>9. CASE ScanGraph
  BY <1>9, MakeFollowed
<1>10. CASE InstallIndex
  BY <1>10, InstallIndexFollowed
<1>11. CASE InstallGraph
  BY <1>11, InstallGraphFollowed
<1>12. CASE UNCHANGED digestVars
  <2>1. /\ disk' = disk /\ dindex' = dindex /\ dgraph' = dgraph /\ dscan' = dscan /\ watch' = watch
        /\ unsure' = unsure /\ moved' = moved /\ dchanges' = dchanges
    BY <1>12 DEF digestVars
  <2> QED
    BY <2>1 DEF DigestInv, DigestShape, IndexShape, GraphShape, EventsTell, WatchSound, Queued, Follows, Applied, Scanned
<1> QED
  BY <1>1, <1>2, <1>3, <1>4, <1>5, <1>6, <1>7, <1>8, <1>9, <1>10, <1>11, <1>12, <1>13 DEF DigestNext

\* Of a settled file the index and the graph are the tree's.
LEMMA DigestSettles ==
  DigestInv => DigestFollowsTree
<1> SUFFICES ASSUME DigestInv, NEW p \in Files, Settled(p)
             PROVE  /\ dindex[p] = IF Parses(disk[p]) THEN disk[p] ELSE NoText
                    /\ {e.to : e \in {x \in dgraph.edges : x.from = p}} = Imports(p, disk[p])
                    /\ OwnModule(p) => ((p \in Range(dgraph.modules)) <=> Parses(disk[p]))
  BY DEF DigestFollowsTree
<1>1. Follows(p) /\ ~Queued(p) /\ p \notin moved /\ (watch.phase = "none" \/ watch.path # p)
  BY DEF DigestInv, Settled
<1>2. dindex[p] = Idx(disk[p]) /\ GraphFits(dgraph, p, Idx(disk[p]))
  BY <1>1 DEF Follows, Applied
<1>3. disk[p] \in Texts \cup {NoText}
  BY DEF DigestInv, DigestShape
<1>4. Imports(p, Idx(disk[p])) = Imports(p, disk[p]) /\ Parses(Idx(disk[p])) = Parses(disk[p])
  BY <1>3, IdxFacts
<1> QED
  BY <1>2, <1>4 DEF GraphFits, Idx

\* The digest follows the tree (apply_event, rescan_if_stale): of a file with no event
\* left to apply, none applied while the last scan ran and not renamed away since, the
\* index holds what the file declares and the graph has exactly its imports, in whatever order the watcher's
\* steps and a scan's interleave.
THEOREM DigestSafe == DigestSpec => []DigestFollowsTree
<1>1. DigestInit => DigestInv
  BY DigestBegins
<1>2. DigestInv /\ [DigestNext]_digestVars => DigestInv'
  BY DigestStep
<1>3. DigestInv => DigestFollowsTree
  BY DigestSettles
<1> QED
  BY <1>1, <1>2, <1>3, PTL DEF DigestSpec

-----------------------------------------------------------------------------
(***************************************************************************)
(* The program whole                                                       *)
(***************************************************************************)
\* In no scene does a component step otherwise than on its own.
LEMMA ScenesApart ==
  Spec => SecretsSpec /\ UpdateSpec /\ LogSpec /\ CarefulSpec /\ JournalSpec /\ ReplSpec /\ DigestSpec
<1>1. Init => SecretsInit /\ UpdateInit /\ LogInit /\ CarefulInit /\ JournalInit /\ ReplInit /\ DigestInit
  BY DEF Init
<1>2. [Next]_allVars => [SecretsNext]_secretVars
  BY DEF Next, allVars, Stores
<1>3. [Next]_allVars => [UpdateNext]_updateVars
  BY DEF Next, allVars, Stores
<1>4. [Next]_allVars => [LogNext]_logVars
  BY DEF Next, allVars, Stores
<1>5. [Next]_allVars => [CarefulNext]_sessionVars
  BY DEF Next, allVars, Conversations
<1>6. [Next]_allVars => [JournalNext]_journalVars
  BY DEF Next, allVars, Stores
<1>7. [Next]_allVars => [ReplNext]_replVars
  BY DEF Next, allVars, Conversations
<1>8. [Next]_allVars => [DigestNext]_digestVars
  BY DEF Next, allVars, Stores, Indexes
<1> QED
  BY <1>1, <1>2, <1>3, <1>4, <1>5, <1>6, <1>7, <1>8, PTL
     DEF Spec, SecretsSpec, UpdateSpec, LogSpec, CarefulSpec, JournalSpec, ReplSpec, DigestSpec

\* What several processes write is kept through crashes and power loss (FileStore,
\* install_archive, Sink::write_line), as long as the keyring a vault was opened beside
\* does not come and go.
THEOREM FilesSafe == ASSUME ~KeyringFlips PROVE Spec => []FilesKept
<1>1. SecretsKept /\ InstalledIsSigned /\ LogIsSuffix /\ LossReported => FilesKept
  BY DEF FilesKept
<1>2. Spec => [](SecretsKept /\ InstalledIsSigned /\ LogIsSuffix /\ LossReported)
  BY ScenesApart, SecretsSafe, UpdateSafe, LogSafe, PTL
<1> QED
  BY <1>1, <1>2, PTL

\* A session's file only moves forward, and undoing is marked only once it is on disk
\* (Session::save, Journal::undo).
THEOREM HistorySafe == Spec => HistoryKept
  BY ScenesApart, FileMovesForward, UndoIsDurable, PTL DEF HistoryKept

\* At the prompt the file is the conversation, and every answer told is in it
\* (repl, run, Session).
THEOREM ConversationsSafe == Spec => []ConversationKept
  BY ScenesApart, ConversationSafe, PTL

\* The digest's index and graph are the tree's, of every settled file (Digest).
THEOREM DigestFollows == Spec => []DigestFollowsTree
  BY ScenesApart, DigestSafe, PTL
=============================================================================
