------------------------------- MODULE Update -------------------------------
(***************************************************************************)
(* The local updater (supra_update): a signed manifest pins an archive and *)
(* the one executable in it; check_local verifies them, apply_local also   *)
(* extracts the executable beside the installed one and renames it over.   *)
(* Installers interleave, the archive and the installed file may be        *)
(* replaced behind their back between any two reads, any step may fail, a  *)
(* process may die and the machine lose power.  A digest stands for what   *)
(* it is computed from: two contents never share one.                      *)
(***************************************************************************)
EXTENDS Naturals, Sequences, FiniteSets

CONSTANTS
  Installers,        \* process ids of the processes running an update command
  Blobs,             \* Blobs[b] = [kind, size, members]: the archives that exist
  Manifests,         \* Manifests[m]: the manifests that exist, signed or not
  Target,            \* the target this build expects
  ArchiveName,       \* the name of the archive given
  MaxArchiveBytes, MaxExecutableBytes, MaxArchiveEntries,
  PlainNames,        \* strings validate_filename takes
  PortablePaths,     \* strings validate_member_path takes
  TargetTriples,     \* strings that read as a target triple
  Unix,              \* whether the platform can apply an update
  MaxNonces,         \* staging names one process id tries (128 in the code)
  Inodes,            \* what the file system numbers files with, again after they go
  MaxReplaced        \* bound: replacements behind the installers' back

ASSUME UpdateAssumption ==
  /\ MaxArchiveBytes \in Nat /\ MaxExecutableBytes \in Nat /\ MaxArchiveEntries \in Nat
  /\ MaxReplaced \in Nat /\ MaxNonces \in Nat /\ Unix \in BOOLEAN /\ Inodes \subseteq Nat
  /\ "unlocked" \notin Installers /\ "no manifest" \notin DOMAIN Manifests

VARIABLES
  archive,         \* the blob at the archive's path
  installed,       \* the entry at install_path as processes see it
  installed_disk,  \* the entry a power loss leaves
  update_lock,     \* who holds .name.update.lock
  installer,       \* installer[p]: what p is doing
  staging,         \* staging[p]: the nonces of .name.update.p.nonce that exist
  reported,        \* the last apply reported Ok and nobody touched install_path since
  replaced

updateVars == <<archive, installed, installed_disk, update_lock, installer, staging, reported, replaced>>

Unlocked == "unlocked"
\* by is history: what install_path held before, what an update put there, or someone.
Entry == [kind : {"absent", "file", "other"}, ino : Nat, content : STRING, synced : BOOLEAN,
          by : {"before", "update", "someone"}]
NoEntry == [kind |-> "absent", ino |-> 0, content |-> "nothing", synced |-> TRUE, by |-> "someone"]
Old == [kind |-> "file", ino |-> 1, content |-> "old", synced |-> TRUE, by |-> "before"]
Rest == [pc |-> "rest", manifest |-> "no manifest", apply |-> FALSE, before |-> 0,
         nonce |-> 0, content |-> "nothing", synced |-> FALSE]
Steps == {"sized", "bound", "checked", "staged", "extracted", "synced", "unchanged", "renamed"}

UpdateTypeOK ==
  /\ archive \in DOMAIN Blobs
  /\ installed \in Entry /\ installed_disk \in Entry
  /\ update_lock \in Installers \cup {Unlocked}
  /\ \A p \in Installers :
       /\ installer[p].pc \in Steps \cup {"rest"}
       /\ installer[p].pc # "rest" => installer[p].manifest \in DOMAIN Manifests
       /\ staging[p] \subseteq 0..MaxNonces - 1
  /\ reported \in BOOLEAN /\ replaced \in 0..MaxReplaced

UpdateInit ==
  /\ archive \in DOMAIN Blobs
  /\ installed = Old /\ installed_disk = Old
  /\ update_lock = Unlocked /\ installer = [p \in Installers |-> Rest]
  /\ staging = [p \in Installers |-> {}]
  /\ reported = FALSE /\ replaced = 0

(***************************************************************************)
(* What is verified                                                        *)
(***************************************************************************)
\* The manifest, its signature and the key are regular files within their bounds, and
\* text (read_bounded, read_text_bounded).
readable(m) == m.readable

\* verify: the signature given over the manifest's bytes, under the key given.
verify(m) == m.signed

\* parse_manifest: the version is semver written canonically, the names and the paths
\* stay in their place, the digests are digests and the sizes within bounds.
parse_manifest(m) ==
  /\ m.schema = 1 /\ m.canonical
  /\ m.archive \in PlainNames /\ m.path \in PortablePaths
  /\ m.archive_size \in 1..MaxArchiveBytes /\ m.size \in 1..MaxExecutableBytes
  /\ m.target \in TargetTriples

\* read_bounded: a regular file (no link) that is no larger than the limit.
read_bounded(b, limit) == Blobs[b].kind = "file" /\ Blobs[b].size <= limit

\* verify_file_binding: what the file's metadata says, then the digest of what is read.
size_bound(m, b) == Blobs[b].kind = "file" /\ Blobs[b].size = m.archive_size
digest_bound(m, b) == read_bounded(b, MaxArchiveBytes) /\ b = m.archive_digest

\* validate_archive_path: relative, no traversal, no backslash.
validate_archive_path(path) == path \in PortablePaths

\* Fault: the member is not hashed against the manifest.
inspect_archive_Unhashed(m, b) ==
  LET members == Blobs[b].members IN
  /\ Len(members) \in 1..MaxArchiveEntries
  /\ \A i \in 1..Len(members) :
       /\ validate_archive_path(members[i].path) /\ members[i].kind = "file"
       /\ members[i].path = m.path

\* inspect_archive, which opens whatever is at the path: exactly one member, regular,
\* the one the manifest names, of the size and the digest it pins.
inspect_archive(m, b) ==
  LET members == Blobs[b].members IN
  /\ Len(members) \in 1..MaxArchiveEntries
  /\ \A i, j \in 1..Len(members) : i # j => members[i].path # members[j].path
  /\ \A i \in 1..Len(members) :
       /\ validate_archive_path(members[i].path) /\ members[i].kind = "file"
       /\ members[i].path = m.path
       /\ members[i].size = m.size /\ members[i].size <= MaxExecutableBytes
       /\ members[i].content = m.digest

Goes(p, new) == installer' = [installer EXCEPT ![p] = new]
At(p, pc) == installer[p].pc = pc
To(p, pc) == Goes(p, [installer[p] EXCEPT !.pc = pc])
Mine(p) == Manifests[installer[p].manifest]
Releases(p) == update_lock' = IF update_lock = p THEN Unlocked ELSE update_lock
destinationVars == <<installed, installed_disk, reported, replaced>>

\* check_local: the manifest, and the archive's metadata.  What fails here is refused.
CheckManifest(p, k, apply) ==
  LET m == Manifests[k] IN
  /\ At(p, "rest")
  /\ readable(m) /\ verify(m) /\ parse_manifest(m) /\ m.target = Target
  /\ m.archive = ArchiveName /\ size_bound(m, archive)
  /\ Goes(p, [Rest EXCEPT !.pc = "sized", !.manifest = k, !.apply = apply])
  /\ UNCHANGED <<archive, update_lock, staging, destinationVars>>

\* The archive is read for its digest,
BindArchive(p) ==
  /\ At(p, "sized") /\ digest_bound(Mine(p), archive)
  /\ To(p, "bound")
  /\ UNCHANGED <<archive, update_lock, staging, destinationVars>>

\* and opened again for its members; a check ends here.
CheckArchive(p) ==
  /\ At(p, "bound") /\ inspect_archive(Mine(p), archive)
  /\ Goes(p, IF installer[p].apply THEN [installer[p] EXCEPT !.pc = "checked"] ELSE Rest)
  /\ UNCHANGED <<archive, update_lock, staging, destinationVars>>

(***************************************************************************)
(* apply_verified                                                          *)
(***************************************************************************)
\* destination_identity: an error unless a regular file or nothing is there.
destination_identity == installed.ino
DestinationOk == installed.kind \in {"file", "absent"}

\* create_staging_path: the first of the process's names no file has.
FreeNonces(p) == 0..MaxNonces - 1 \ staging[p]
create_staging_path(p) == CHOOSE n \in FreeNonces(p) : \A o \in FreeNonces(p) : n <= o

\* Takes the lock, waiting for it; notes the destination; makes the staging file.
LockAndStage(p) ==
  /\ Unix /\ At(p, "checked") /\ update_lock = Unlocked /\ DestinationOk /\ FreeNonces(p) # {}
  /\ update_lock' = p
  /\ staging' = [staging EXCEPT ![p] = @ \cup {create_staging_path(p)}]
  /\ Goes(p, [installer[p] EXCEPT !.pc = "staged", !.before = destination_identity,
                                  !.nonce = create_staging_path(p), !.content = "partial"])
  /\ UNCHANGED <<archive, destinationVars>>

\* The archive is opened a third time and its member verified as it is copied.
Extract(p) ==
  /\ At(p, "staged") /\ inspect_archive(Mine(p), archive)
  /\ Goes(p, [installer[p] EXCEPT !.pc = "extracted", !.content = Blobs[archive].members[1].content])
  /\ UNCHANGED <<archive, update_lock, staging, destinationVars>>

\* Fault: renamed before its bytes are on disk.
SyncStaged_Missing(p) ==
  /\ At(p, "extracted") /\ To(p, "synced")
  /\ UNCHANGED <<archive, update_lock, staging, destinationVars>>

SyncStaged(p) ==
  /\ At(p, "extracted")
  /\ Goes(p, [installer[p] EXCEPT !.pc = "synced", !.synced = TRUE])
  /\ UNCHANGED <<archive, update_lock, staging, destinationVars>>

\* The second look at the destination.
Recheck(p) ==
  /\ At(p, "synced") /\ DestinationOk /\ destination_identity = installer[p].before
  /\ To(p, "unchanged")
  /\ UNCHANGED <<archive, update_lock, staging, destinationVars>>

\* The staging file takes the destination's name, with the inode it was made with.
RenameStaged(p, ino) ==
  /\ At(p, "unchanged") /\ ino # installed.ino
  /\ installed' = [kind |-> "file", ino |-> ino, content |-> installer[p].content,
                   synced |-> installer[p].synced, by |-> "update"]
  /\ staging' = [staging EXCEPT ![p] = @ \ {installer[p].nonce}]
  /\ To(p, "renamed")
  /\ UNCHANGED <<archive, installed_disk, update_lock, reported, replaced>>

SyncParent(p) ==
  /\ At(p, "renamed")
  /\ installed_disk' = installed /\ reported' = TRUE
  /\ Goes(p, Rest) /\ Releases(p)
  /\ UNCHANGED <<archive, installed, staging, replaced>>

\* A step fails or refuses: the staging file is removed, the lock goes with its handle.
UpdateFails(p) ==
  /\ ~At(p, "rest")
  /\ staging' = IF installer[p].pc \in {"staged", "extracted", "synced", "unchanged"}
                THEN [staging EXCEPT ![p] = @ \ {installer[p].nonce}] ELSE staging
  /\ Goes(p, Rest) /\ Releases(p)
  /\ UNCHANGED <<archive, destinationVars>>

\* The process dies: its staging file stays, in the way of a later one of its id.
InstallerDies(p) ==
  /\ ~At(p, "rest")
  /\ Goes(p, Rest) /\ Releases(p)
  /\ UNCHANGED <<archive, staging, destinationVars>>

(***************************************************************************)
(* The world                                                               *)
(***************************************************************************)
ReplaceArchive(b) ==
  /\ replaced < MaxReplaced /\ b # archive
  /\ archive' = b /\ replaced' = replaced + 1
  /\ UNCHANGED <<installed, installed_disk, update_lock, installer, staging, reported>>

\* Something else is put at install_path, durably: another file (its inode may be the one
\* of the file that went), a link, nothing.
ReplaceDestination(kind, ino) ==
  /\ replaced < MaxReplaced
  /\ installed' = IF kind = "absent" THEN NoEntry
                  ELSE [kind |-> kind, ino |-> ino, content |-> "foreign", synced |-> TRUE, by |-> "someone"]
  /\ installed_disk' = installed' /\ replaced' = replaced + 1 /\ reported' = FALSE
  /\ UNCHANGED <<archive, update_lock, installer, staging>>

LosePower ==
  /\ \E e \in {installed, installed_disk} : installed' = e /\ installed_disk' = e
  /\ installer' = [p \in Installers |-> Rest] /\ update_lock' = Unlocked
  /\ UNCHANGED <<archive, staging, reported, replaced>>

\* `supra update check` and `supra update apply`: both begin with check_local.
update_cmd(p) ==
  \E k \in DOMAIN Manifests : \E apply \in BOOLEAN : CheckManifest(p, k, apply)

UpdateNext ==
  \/ LosePower
  \/ \E b \in DOMAIN Blobs : ReplaceArchive(b)
  \/ \E kind \in {"file", "other", "absent"}, ino \in Inodes : ReplaceDestination(kind, ino)
  \/ \E p \in Installers :
       \/ update_cmd(p)
       \/ BindArchive(p) \/ CheckArchive(p) \/ LockAndStage(p) \/ Extract(p) \/ SyncStaged(p)
       \/ Recheck(p) \/ (\E ino \in Inodes : RenameStaged(p, ino)) \/ SyncParent(p) \/ UpdateFails(p) \/ InstallerDies(p)

UpdateSpec == UpdateInit /\ [][UpdateNext]_updateVars

(***************************************************************************)
(* Properties                                                              *)
(***************************************************************************)
Signed == {Manifests[k].digest : k \in {j \in DOMAIN Manifests : Manifests[j].signed /\ Manifests[j].target = Target}}

\* Whatever is replaced between the checks and whenever the power goes, what an
\* update leaves at install_path is a whole executable that a signed manifest
\* for this target pins; and after an update that reported Ok no power loss
\* brings back what was there before it.
InstalledIsSigned ==
  /\ \A e \in {installed, installed_disk} : e.by = "update" => e.synced /\ e.content \in Signed
  /\ reported => installed_disk.by # "before"
=============================================================================
