---------------------------- MODULE SessionStore ----------------------------
(***************************************************************************)
(* One session's file (supra_session: store, checkpoint, session), shared  *)
(* by several processes.  A file is legacy (a list of turns) or a          *)
(* versioned checkpoint (turns and a revision).  Readers take no lock.     *)
(* Writers take the file lock next to it, decide from what they read under *)
(* the lock, write and sync a temporary, rename it over the file and sync  *)
(* the directory.  A process may die anywhere, an I/O call may fail, and   *)
(* the machine may lose power: a rename is certain only once the directory *)
(* has been synced.                                                        *)
(*                                                                         *)
(* Turns are numbers, each minted once; a turn's body never changes, so    *)
(* bodies are left out, as are a checkpoint's status, ledger and config,   *)
(* whose changes only show in the revision.  A refused save changes        *)
(* nothing and is no step.                                                 *)
(***************************************************************************)
EXTENDS Integers, Sequences, SequencesExt

CONSTANTS
  Proc,         \* processes working on this session
  MaxTurns,     \* bound: turns minted in a behaviour
  MaxRevision   \* bound: revisions a checkpoint reaches

ASSUME StoreAssumption ==
  MaxTurns \in Nat /\ MaxRevision \in Nat /\ "free" \notin Proc

VARIABLES
  party,        \* the processes at work on the session
  sessionFile,  \* what the path shows
  durable,      \* what the path may show after a power loss
  lock,         \* the process holding the file lock, or "free"
  pc,           \* Proc -> where its save is
  view,         \* Proc -> the session or checkpoint it has in memory
  out,          \* Proc -> the document it is publishing
  minted,       \* turns minted so far
  ackedTurns    \* history: turns in documents a save published and returned Ok

sessionVars == <<party, sessionFile, durable, lock, pc, view, out, minted, ackedTurns>>

NoFile == [form |-> "absent", turns |-> <<>>, revision |-> 0]
Legacy(turns) == [form |-> "legacy", turns |-> turns, revision |-> 0]
Versioned(turns, revision) ==
  [form |-> "versioned", turns |-> turns, revision |-> revision]

NoView == [form |-> "none", turns |-> <<>>, revision |-> 0, base |-> 0]

\* current_revision: a legacy file counts one revision per turn.
Revision(doc) == IF doc.form = "legacy" THEN Len(doc.turns) ELSE doc.revision

\* A session with one turn has been saved, in either form, or none has.
SessionInit ==
  /\ party \in SUBSET Proc \ {{}}
  /\ sessionFile \in {NoFile, Legacy(<<1>>), Versioned(<<1>>, 1)}
  /\ durable = {sessionFile}
  /\ lock = "free"
  /\ pc = [p \in Proc |-> "idle"]
  /\ view = [p \in Proc |-> NoView]
  /\ out = [p \in Proc |-> NoFile]
  /\ minted = Len(sessionFile.turns)
  /\ ackedTurns = {t \in 1..MaxTurns : t \in ToSet(sessionFile.turns)}

-----------------------------------------------------------------------------
(***************************************************************************)
(* What a process does in memory.                                          *)
(***************************************************************************)
\* Session::new: its id is fresh, so nobody else works on it yet.
NewSession(p) ==
  /\ sessionFile = NoFile /\ \A q \in Proc : view[q] = NoView
  /\ view' = [view EXCEPT ![p] = [NoView EXCEPT !.form = "session"]]
  /\ UNCHANGED <<party, sessionFile, durable, lock, pc, out, minted, ackedTurns>>

\* Session::resume.
ResumeSession(p) ==
  /\ pc[p] = "idle" /\ sessionFile # NoFile
  /\ view' = [view EXCEPT ![p] =
       [form |-> "session", turns |-> sessionFile.turns, revision |-> 0, base |-> 0]]
  /\ UNCHANGED <<party, sessionFile, durable, lock, pc, out, minted, ackedTurns>>

\* Session::resume_checkpoint; a legacy file is upgraded turn by turn.
ResumeCheckpoint(p) ==
  /\ pc[p] = "idle" /\ sessionFile # NoFile
  /\ view' = [view EXCEPT ![p] =
       [form |-> "checkpoint", turns |-> sessionFile.turns,
        revision |-> Revision(sessionFile), base |-> Revision(sessionFile)]]
  /\ UNCHANGED <<party, sessionFile, durable, lock, pc, out, minted, ackedTurns>>

\* Session::record_turn, SessionCheckpoint::push_turn.
RecordTurn(p) ==
  /\ pc[p] = "idle" /\ view[p] # NoView /\ minted < MaxTurns
  /\ minted' = minted + 1
  /\ \/ /\ view[p].form = "session"
        /\ view' = [view EXCEPT ![p].turns = Append(@, minted')]
     \/ /\ view[p].form = "checkpoint" /\ view[p].revision < MaxRevision
        /\ view' = [view EXCEPT ![p].turns = Append(@, minted'),
                                ![p].revision = @ + 1]
  /\ UNCHANGED <<party, sessionFile, durable, lock, pc, out, ackedTurns>>

\* set_status, set_ledger, set_config.
TouchCheckpoint(p) ==
  /\ pc[p] = "idle" /\ view[p].form = "checkpoint"
  /\ view[p].revision < MaxRevision
  /\ view' = [view EXCEPT ![p].revision = @ + 1]
  /\ UNCHANGED <<party, sessionFile, durable, lock, pc, out, minted, ackedTurns>>

-----------------------------------------------------------------------------
(***************************************************************************)
(* The decision under the lock.                                            *)
(***************************************************************************)
\* Fault: the turns are appended under the revision found.
Merged_SameRevision(turns) == Versioned(turns, sessionFile.revision)

\* merge_legacy_projection: one revision for each turn appended.
Merged(turns) ==
  Versioned(turns, sessionFile.revision + Len(turns) - Len(sessionFile.turns))

\* Fault: the caller's view replaces any file.
SaveLegacy_Replaces(p) ==
  /\ view[p].form = "session"
  /\ out' = [out EXCEPT ![p] = Legacy(view[p].turns)]

\* Session::save: a versioned file is only ever extended, and left alone when
\* there is nothing to add.  A legacy file is replaced by the caller's view.
SaveLegacy(p) ==
  /\ view[p].form = "session"
  /\ \/ /\ sessionFile.form # "versioned"
        /\ out' = [out EXCEPT ![p] = Legacy(view[p].turns)]
     \/ /\ sessionFile.form = "versioned"
        /\ IsStrictPrefix(sessionFile.turns, view[p].turns)
        /\ sessionFile.revision + Len(view[p].turns) - Len(sessionFile.turns) <= MaxRevision
        /\ out' = [out EXCEPT ![p] = Merged(view[p].turns)]

\* Fault: the expected revision is not compared.
ExpectedFound_Any(p, conditional) == TRUE

\* save_checkpoint: compare-and-swap when a revision is expected; and always
\* a strictly greater revision than the one on disk.
ExpectedFound(p, conditional) == conditional => view[p].base = Revision(sessionFile)

SaveCheckpoint(p, conditional) ==
  /\ view[p].form = "checkpoint"
  /\ ExpectedFound(p, conditional)
  /\ sessionFile # NoFile => view[p].revision > Revision(sessionFile)
  /\ out' = [out EXCEPT ![p] = Versioned(view[p].turns, view[p].revision)]

\* The lock is taken and the decision made; one that refuses is no step.
BeginSave(p, conditional) ==
  /\ pc[p] = "idle" /\ lock = "free"
  /\ SaveLegacy(p) \/ SaveCheckpoint(p, conditional)
  /\ lock' = p
  /\ pc' = [pc EXCEPT ![p] = "locked"]
  /\ UNCHANGED <<party, sessionFile, durable, view, minted, ackedTurns>>

\* save returns Ok at once when the merge adds nothing to a versioned file:
\* nothing is written and nothing is synced.
SaveNothing(p) ==
  /\ pc[p] = "idle" /\ lock = "free"
  /\ view[p].form = "session" /\ sessionFile.form = "versioned"
  /\ view[p].turns = sessionFile.turns
  /\ UNCHANGED sessionVars

-----------------------------------------------------------------------------
(***************************************************************************)
(* publish_unlocked.                                                       *)
(***************************************************************************)
\* The temporary is written and synced.
WriteTemporary(p) ==
  /\ pc[p] = "locked"
  /\ pc' = [pc EXCEPT ![p] = "written"]
  /\ UNCHANGED <<party, sessionFile, durable, lock, view, out, minted, ackedTurns>>

\* Fault: the temporary is renamed to a name nobody reads.
RenameSession_Elsewhere(p) ==
  /\ pc[p] = "written"
  /\ sessionFile' = NoFile
  /\ durable' = durable \cup {out[p]}
  /\ pc' = [pc EXCEPT ![p] = "renamed"]
  /\ UNCHANGED <<party, lock, view, out, minted, ackedTurns>>

RenameSession(p) ==
  /\ pc[p] = "written"
  /\ sessionFile' = out[p]
  /\ durable' = durable \cup {out[p]}
  /\ pc' = [pc EXCEPT ![p] = "renamed"]
  /\ UNCHANGED <<party, lock, view, out, minted, ackedTurns>>

\* Fault: the directory is not synced.
SyncSessionParent_Skipped(p) ==
  /\ pc[p] = "renamed"
  /\ ackedTurns' = ackedTurns \cup ToSet(out[p].turns)
  /\ pc' = [pc EXCEPT ![p] = "idle"]
  /\ lock' = "free"
  /\ view' = [view EXCEPT ![p].base = out[p].revision]
  /\ out' = [out EXCEPT ![p] = NoFile]
  /\ UNCHANGED <<party, sessionFile, durable, minted>>

\* The directory is synced, the lock released, and the save returns Ok.
SyncSessionParent(p) ==
  /\ pc[p] = "renamed"
  /\ durable' = {sessionFile}
  /\ ackedTurns' = ackedTurns \cup ToSet(out[p].turns)
  /\ pc' = [pc EXCEPT ![p] = "idle"]
  /\ lock' = "free"
  /\ view' = [view EXCEPT ![p].base = out[p].revision]
  /\ out' = [out EXCEPT ![p] = NoFile]
  /\ UNCHANGED <<party, sessionFile, minted>>

\* An I/O call fails: the temporary is removed, or the rename has happened
\* and only its sync is in doubt.  The caller is told of an error.
SaveFails(p) ==
  /\ pc[p] # "idle"
  /\ pc' = [pc EXCEPT ![p] = "idle"]
  /\ lock' = "free"
  /\ out' = [out EXCEPT ![p] = NoFile]
  /\ UNCHANGED <<party, sessionFile, durable, view, minted, ackedTurns>>

-----------------------------------------------------------------------------
\* The process dies; the system releases its lock.
SessionCrash(p) ==
  /\ view[p] # NoView
  /\ pc' = [pc EXCEPT ![p] = "idle"]
  /\ view' = [view EXCEPT ![p] = NoView]
  /\ out' = [out EXCEPT ![p] = NoFile]
  /\ lock' = IF lock = p THEN "free" ELSE lock
  /\ UNCHANGED <<party, sessionFile, durable, minted, ackedTurns>>

PowerLoss ==
  /\ sessionFile' \in durable
  /\ durable' = {sessionFile'}
  /\ lock' = "free"
  /\ pc' = [p \in Proc |-> "idle"]
  /\ view' = [p \in Proc |-> NoView]
  /\ out' = [p \in Proc |-> NoFile]
  /\ UNCHANGED <<party, minted, ackedTurns>>

\* What a process may do, its saves of checkpoints with no expected revision
\* aside.
Step(p) ==
  \/ NewSession(p) \/ ResumeSession(p) \/ ResumeCheckpoint(p) \/ RecordTurn(p) \/ TouchCheckpoint(p)
  \/ BeginSave(p, TRUE) \/ SaveNothing(p) \/ WriteTemporary(p) \/ RenameSession(p)
  \/ SyncSessionParent(p) \/ SaveFails(p) \/ SessionCrash(p)

SessionNext == (\E p \in party : Step(p)) \/ PowerLoss

\* Any processes, on a file of either form.
SessionSpec == SessionInit /\ [][SessionNext]_sessionVars

\* Careful use: several processes share a session only once it has been
\* upgraded, and only one that is alone saves without an expected revision.
CarefulInit == SessionInit /\ (sessionFile.form = "versioned" \/ \E p \in Proc : party = {p})

CarefulNext == SessionNext \/ \E p \in Proc : party = {p} /\ BeginSave(p, FALSE)

CarefulSpec == CarefulInit /\ [][CarefulNext]_sessionVars

-----------------------------------------------------------------------------
(***************************************************************************)
(* Properties.                                                             *)
(***************************************************************************)
\* Types.
SessionTypeOK ==
  /\ sessionFile.form \in {"absent", "legacy", "versioned"}
  /\ sessionFile \in durable
  /\ lock \in Proc \cup {"free"}
  /\ \A p \in Proc : pc[p] \in {"idle", "locked", "written", "renamed"}
  /\ \A p \in Proc : view[p].form \in {"none", "session", "checkpoint"}
  /\ minted \in 0..MaxTurns
  /\ ackedTurns \subseteq 1..MaxTurns

\* Under careful use no turn that a save published and returned Ok for is
\* ever lost: it is in the file and in whatever a power loss may leave, across
\* stale writers of both kinds, crashes and failed syncs.
AckedTurnsKept ==
  \A doc \in durable \cup {sessionFile} : ackedTurns \subseteq ToSet(doc.turns)

\* A revision names one content: a writer whose expected revision is the one
\* on disk has everything that is on disk, so its compare-and-swap is sound.
RevisionNamesContent ==
  \A p \in Proc :
    /\ view[p].form = "checkpoint" /\ pc[p] = "idle"
    /\ view[p].base = Revision(sessionFile)
    => IsPrefix(sessionFile.turns, view[p].turns)

\* While the machine keeps its power the file on disk only moves forward: its
\* turns are extended, its revision grows with every change, and a versioned
\* file never becomes a legacy one.
OnlyForward ==
  [][~PowerLoss /\ sessionFile' # sessionFile =>
       /\ sessionFile.form = "versioned" => sessionFile'.form = "versioned"
       /\ IsPrefix(sessionFile.turns, sessionFile'.turns)
       /\ sessionFile # NoFile => Revision(sessionFile') > Revision(sessionFile)]_sessionVars

\* store.rs, save_checkpoint: "publication is compare-and-swap: a stale writer
\* refuses instead of replacing a newer checkpoint".
StaleWriterRefuses ==
  [][\A p \in Proc : RenameSession(p) /\ out[p].form = "versioned" =>
       IsPrefix(sessionFile.turns, out[p].turns)]_sessionVars
=============================================================================
