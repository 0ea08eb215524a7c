------------------------------- MODULE Journal -------------------------------
(***************************************************************************)
(* Write-ahead snapshots of one file and their undo (supra_journal), by    *)
(* several processes that share the store and the file.  An undo holds the *)
(* store's write transaction across the whole restore: temporary file,     *)
(* rename, directory sync, mark, commit.  A process may fail or die        *)
(* between any two of these and the machine may lose power.                *)
(***************************************************************************)
EXTENDS Naturals, Sequences, FiniteSets

CONSTANTS
  Workers,       \* processes
  Bytes,         \* contents of the file
  Damaged,       \* what a damaged row holds: bytes of no snapshot
  MaxAttempts,   \* names TemporaryRestore::create tries (128 in the code)
  MaxClock,      \* bound: the last millisecond
  MaxRandom,     \* bound: random parts of an id
  MaxRenames     \* bound: undos that reach the rename

ASSUME JournalAssumption ==
  /\ Bytes # {} /\ Damaged \notin Bytes
  /\ "none" \notin Workers
  /\ MaxAttempts \in Nat \ {0}
  /\ MaxClock \in Nat /\ MaxRandom \in Nat /\ MaxRenames \in Nat

\* A ULID is a millisecond and random bits; ids order by the first, then the second.
SnapshotId == (0..MaxClock) \X (1..MaxRandom)
Newer(a, b) == a[1] > b[1] \/ (a[1] = b[1] /\ a[2] > b[2])

VARIABLES
  file,      \* the file: bytes and inode (a rename gives a new one)
  survives,  \* the files a power loss may leave
  rows,      \* journal_snapshot, by id: bytes, digest, undone
  scratch,   \* temporary files on disk: <<id, attempt>>
  writer,    \* the process inside an Immediate transaction, or none
  worker,    \* per process: what it is doing
  undo_acks,     \* history: undos that returned Ok, per id
  clock

journalVars == <<file, survives, rows, scratch, writer, worker, undo_acks, clock>>

NoWriter == "none"
NoId == <<0, 0>>
IdleWorker == [at |-> "idle", ino |-> 0, bytes |-> CHOOSE b \in Bytes : TRUE, id |-> NoId, attempt |-> 0]

File == [bytes : Bytes \cup {Damaged}, ino : Nat]
Row == [before : Bytes \cup {Damaged}, before_hash : Bytes, undone : BOOLEAN]

JournalTypeOK ==
  /\ file \in File
  /\ survives \subseteq File /\ file \in survives
  /\ DOMAIN rows \subseteq SnapshotId
  /\ \A id \in DOMAIN rows : rows[id] \in Row
  /\ scratch \subseteq SnapshotId \X (0..MaxAttempts - 1)
  /\ writer \in Workers \cup {NoWriter}

JournalInit ==
  /\ file = [bytes |-> CHOOSE b \in Bytes : TRUE, ino |-> 0]
  /\ survives = {file}
  /\ rows = <<>>
  /\ scratch = {}
  /\ writer = NoWriter
  /\ worker = [p \in Workers |-> IdleWorker]
  /\ undo_acks = [id \in SnapshotId |-> 0]
  /\ clock = 0

Goto(p, w) == worker' = [worker EXCEPT ![p] = w]

(***************************************************************************)
(* Journal::snapshot                                                       *)
(***************************************************************************)
\* SnapshotSource::read opens the file and remembers what it opened.
SnapshotOpen(p) ==
  /\ worker[p].at = "idle"
  /\ Goto(p, [IdleWorker EXCEPT !.at = "opened", !.ino = file.ino])
  /\ UNCHANGED <<file, survives, rows, scratch, writer, undo_acks, clock>>

\* The name must still lead to the opened file before the bytes are read...
SnapshotRead(p) ==
  /\ worker[p].at = "opened"
  /\ \/ /\ file.ino = worker[p].ino
        /\ Goto(p, [worker[p] EXCEPT !.at = "read", !.bytes = file.bytes])
     \/ /\ file.ino # worker[p].ino
        /\ Goto(p, IdleWorker)
  /\ UNCHANGED <<file, survives, rows, scratch, writer, undo_acks, clock>>

\* ...and after; otherwise PathIdentityChanged.  The id is minted here.
SnapshotVerify(p) ==
  /\ worker[p].at = "read"
  /\ \/ /\ file.ino = worker[p].ino
        /\ \E r \in 1..MaxRandom :
             /\ <<clock, r>> \notin DOMAIN rows
             /\ \A q \in Workers : worker[q].id # <<clock, r>>
             /\ Goto(p, [worker[p] EXCEPT !.at = "verified", !.id = <<clock, r>>])
     \/ /\ file.ino # worker[p].ino
        /\ Goto(p, IdleWorker)
  /\ UNCHANGED <<file, survives, rows, scratch, writer, undo_acks, clock>>

\* schema::insert in an Immediate transaction of its own; then Ok.
SnapshotInsert(p) ==
  LET w == worker[p] IN
  /\ w.at = "verified"
  /\ writer = NoWriter
  /\ rows' = [id \in DOMAIN rows \cup {w.id} |->
                IF id = w.id
                THEN [before |-> w.bytes, before_hash |-> w.bytes, undone |-> FALSE]
                ELSE rows[id]]
  /\ Goto(p, [IdleWorker EXCEPT !.at = "snapped"])
  /\ UNCHANGED <<file, survives, scratch, writer, undo_acks, clock>>

\* The caller's edit, allowed only after snapshot returned Ok: in place, not synced.
Edit(p) ==
  /\ worker[p].at = "snapped"
  /\ \E b \in Bytes :
       /\ file' = [file EXCEPT !.bytes = b]
       /\ survives' = survives \cup {file'}
  /\ Goto(p, IdleWorker)
  /\ UNCHANGED <<rows, scratch, writer, undo_acks, clock>>

(***************************************************************************)
(* Journal::undo.  Refusals (NotFound, AlreadyUndone, Corrupt) change      *)
(* nothing and are no steps.                                               *)
(***************************************************************************)
Undoable(id) ==
  /\ id \in DOMAIN rows
  /\ ~rows[id].undone
  /\ rows[id].before = rows[id].before_hash

UndoBegin(p, id) ==
  /\ worker[p].at = "idle"
  /\ writer = NoWriter
  /\ Undoable(id)
  /\ file.ino < MaxRenames
  /\ writer' = p
  /\ Goto(p, [IdleWorker EXCEPT !.at = "undoing", !.id = id, !.bytes = rows[id].before])
  /\ UNCHANGED <<file, survives, rows, scratch, undo_acks, clock>>

\* TemporaryRestore::create takes the first free name, restore_bytes fills and syncs it.
FreeAttempts(id) == {a \in 0..MaxAttempts - 1 : <<id, a>> \notin scratch}

UndoScratch(p) ==
  LET id == worker[p].id IN
  /\ worker[p].at = "undoing"
  /\ \E a \in FreeAttempts(id) :
       /\ \A b \in FreeAttempts(id) : a <= b
       /\ scratch' = scratch \cup {<<id, a>>}
       /\ Goto(p, [worker[p] EXCEPT !.at = "written", !.attempt = a])
  /\ UNCHANGED <<file, survives, rows, writer, undo_acks, clock>>

UndoRename(p) ==
  LET w == worker[p] IN
  /\ w.at = "written"
  /\ file' = [bytes |-> w.bytes, ino |-> file.ino + 1]
  /\ survives' = survives \cup {file'}
  /\ scratch' = scratch \ {<<w.id, w.attempt>>}
  /\ Goto(p, [w EXCEPT !.at = "renamed", !.ino = file.ino + 1])
  /\ UNCHANGED <<rows, writer, undo_acks, clock>>

\* Fault: the directory is never synced.
UndoSync_Missing(p) ==
  /\ worker[p].at = "renamed"
  /\ Goto(p, [worker[p] EXCEPT !.at = "synced"])
  /\ UNCHANGED <<file, survives, rows, scratch, writer, undo_acks, clock>>

\* The directory sync: what the rename replaced cannot come back.
UndoSync(p) ==
  /\ worker[p].at = "renamed"
  /\ survives' = {f \in survives : f.ino >= worker[p].ino}
  /\ Goto(p, [worker[p] EXCEPT !.at = "synced"])
  /\ UNCHANGED <<file, rows, scratch, writer, undo_acks, clock>>

\* Fault: the transaction is dropped without a commit, and rolls back.
UndoMark_Uncommitted(p) ==
  LET w == worker[p] IN
  /\ w.at = "synced"
  /\ ~rows[w.id].undone
  /\ undo_acks' = [undo_acks EXCEPT ![w.id] = @ + 1]
  /\ writer' = NoWriter
  /\ Goto(p, IdleWorker)
  /\ UNCHANGED <<file, survives, rows, scratch, clock>>

\* mark_undone updates a live row; the transaction commits and undo returns Ok.
UndoMark(p) ==
  LET w == worker[p] IN
  /\ w.at = "synced"
  /\ ~rows[w.id].undone
  /\ rows' = [rows EXCEPT ![w.id].undone = TRUE]
  /\ undo_acks' = [undo_acks EXCEPT ![w.id] = @ + 1]
  /\ writer' = NoWriter
  /\ Goto(p, IdleWorker)
  /\ UNCHANGED <<file, survives, scratch, clock>>

\* Any step of the restore, or the commit, may fail: the transaction rolls back
\* and dropping the TemporaryRestore removes a file that was not renamed.
UndoFails(p) ==
  LET w == worker[p] IN
  /\ w.at \in {"undoing", "written", "renamed", "synced"}
  /\ scratch' = IF w.at = "written" THEN scratch \ {<<w.id, w.attempt>>} ELSE scratch
  /\ writer' = NoWriter
  /\ Goto(p, IdleWorker)
  /\ UNCHANGED <<file, survives, rows, undo_acks, clock>>

\* A process dies: its transaction rolls back, its temporary file stays.
WorkerDies(p) ==
  /\ worker[p].at # "idle"
  /\ writer' = IF writer = p THEN NoWriter ELSE writer
  /\ Goto(p, IdleWorker)
  /\ UNCHANGED <<file, survives, rows, scratch, undo_acks, clock>>

JournalPowerLoss ==
  /\ file' \in survives
  /\ survives' = {file'}
  /\ writer' = NoWriter
  /\ worker' = [p \in Workers |-> IdleWorker]
  /\ UNCHANGED <<rows, scratch, undo_acks, clock>>

\* The environment damages a stored row; time passes.
Damage(id) ==
  /\ rows[id].before # Damaged
  /\ \A p \in Workers : worker[p].id # id
  /\ rows' = [rows EXCEPT ![id].before = Damaged]
  /\ UNCHANGED <<file, survives, scratch, writer, worker, undo_acks, clock>>

Tick ==
  /\ clock < MaxClock
  /\ clock' = clock + 1
  /\ UNCHANGED <<file, survives, rows, scratch, writer, worker, undo_acks>>

JournalNext ==
  \/ \E p \in Workers :
       \/ SnapshotOpen(p) \/ SnapshotRead(p) \/ SnapshotVerify(p) \/ SnapshotInsert(p)
       \/ Edit(p)
       \/ \E id \in DOMAIN rows : UndoBegin(p, id)
       \/ UndoScratch(p) \/ UndoRename(p) \/ UndoSync(p) \/ UndoMark(p) \/ UndoFails(p)
       \/ WorkerDies(p)
  \/ \E id \in DOMAIN rows : Damage(id)
  \/ JournalPowerLoss
  \/ Tick

JournalSpec == JournalInit /\ [][JournalNext]_journalVars

\* newest_for_path: what "undo the last edit to this file" would undo.
Live == {id \in DOMAIN rows : ~rows[id].undone}
newest_for_path == {id \in Live : \A other \in Live \ {id} : Newer(id, other)}

-----------------------------------------------------------------------------
\* Two processes undoing one row, or one retrying after a crash, are told Ok
\* once: the row's mark and the restore are one transaction.  While some row is
\* live, there is one that "undo the last edit" would undo (undo,
\* newest_for_path).
UndoneOnce ==
  /\ \A id \in SnapshotId :
       undo_acks[id] <= IF id \in DOMAIN rows /\ rows[id].undone THEN 1 ELSE 0
  /\ Live # {} => Cardinality(newest_for_path) = 1

\* A row turns undone only when its undamaged bytes replaced the file and no
\* power loss can bring back what they replaced (undo, steps 2 to 4).
UndoDurable ==
  [][\A id \in DOMAIN rows :
       ~rows[id].undone /\ rows'[id].undone =>
         \E p \in Workers :
           /\ worker[p].id = id
           /\ worker[p].bytes = rows[id].before_hash
           /\ \A f \in survives : f.ino >= worker[p].ino]_journalVars
=============================================================================
