------------------------------ MODULE MCDurable -----------------------------
(***************************************************************************)
(* What the program keeps: a session, the database schema, the edit        *)
(* journal, secrets, the installed program, the log, the vector index, the *)
(* project digest, and a conversation.  They share no state, so each is    *)
(* explored in a scene of its own while the others stay as they begin.     *)
(***************************************************************************)
EXTENDS SessionStore, StoreSchema, Journal, Secrets, Update, LogSink,
        Vector, Digest, Repl, TLC

CONSTANT Scenes
VARIABLE scene

AllScenes ==
  {"session", "schema", "journal", "secrets", "update", "log", "vector", "digest", "repl"}

(***************************************************************************)
(* Instances                                                               *)
(***************************************************************************)
\* An older and a newer program open one database.
McLatest == (1 :> [core |-> 2, component |-> 1]) @@ (2 :> [core |-> 3, component |-> 2])

\* A release, a forgery nobody signed, and a signed archive with a member too many.
Member(path, content) == [path |-> path, kind |-> "file", size |-> 1, content |-> content]
McBlobs ==
  "good" :> [kind |-> "file", size |-> 2, members |-> <<Member("bin", "new")>>]
  @@ "evil" :> [kind |-> "link", size |-> 2, members |-> <<Member("bin", "forged")>>]
  @@ "extra" :> [kind |-> "file", size |-> 2, members |-> <<Member("bin", "new"), Member("readme", "x")>>]
Manifest(signed, blob, digest) ==
  [readable |-> TRUE, signed |-> signed, schema |-> 1, canonical |-> TRUE, target |-> "t", archive |-> "a.tgz",
   path |-> "bin", archive_size |-> 2, archive_digest |-> blob, size |-> 1, digest |-> digest]
McManifests ==
  "good" :> Manifest(TRUE, "good", "new") @@ "forged" :> Manifest(FALSE, "evil", "forged")
  @@ "extra" :> Manifest(TRUE, "extra", "new")

\* Two threads of one process and one of another write one log.
McProcessOf == ("a1" :> "a") @@ ("a2" :> "a") @@ ("b1" :> "b")

\* A writing thread and a searching one share a handle; a third has its own.
McHandleOf == [t \in VThreads |-> IF t = "t3" THEN "B" ELSE "A"]
McEmbeddings == {<<3, 4>>, <<4, -3>>}
McQuery == <<3, 4>>
McQueryTerms == <<"x">>
Model(name, threshold) == [model |-> name, dims |-> 2, threshold |-> threshold]
McModels == {Model("m", <<0, 0>>), Model("n", <<0, 0>>), Model("m", <<0, 0, 0>>)}
\* Two lanes of three documents, each ranking some of them.
McLanes ==
  {s \in UNION {[1..k -> 1..3] : k \in 0..3} : \A i, j \in DOMAIN s : i # j => s[i] # s[j]}
LanesFused == \A one, two \in McLanes : FusionFaithful(<<one, two>>)

\* Two Rust files, and the texts each may hold: with the import after a comment or
\* not, and with a syntax error.
McPaths == <<"a", "b">>
McDirOf == [a |-> <<"src">>, b |-> <<"src", "b">>]
McStemOf == [a |-> "a", b |-> "mod"]
McLanguageOf == [p \in {"a", "b"} |-> "Rust"]
Item(kind, root, supers, rest) ==
  [kind |-> kind, relative |-> FALSE, target |-> [root |-> root, supers |-> supers, rest |-> rest]]
UseB == Item("use", "crate", 0, <<"b">>)
McTexts ==
  {[clean |-> TRUE, declares |-> {"f"}, items |-> <<Item("comment", "", 0, <<>>), UseB>>],
   [clean |-> TRUE, declares |-> {"g"},
    items |-> <<UseB, Item("use", "", 1, <<"a">>), Item("code", "", 0, <<"fn">>)>>],
   [clean |-> FALSE, declares |-> {}, items |-> <<>>]}

McSessionIds == {"i1", "i2", "i3"}
McInvocations ==
  [ignore_project_config : {FALSE}, sandbox_off : BOOLEAN, yes : {FALSE},
   resume : {NoSession, "i1", "i2", "junk"}, task : BOOLEAN]
McPromptLines ==
  {[slash |-> FALSE, words |-> <<>>], [slash |-> FALSE, words |-> <<"do">>]}
  \cup {[slash |-> TRUE, words |-> <<c>>] : c \in {"new", "branch", "export", "help", "exit", "bogus"}}
  \cup {[slash |-> TRUE, words |-> <<"resume", i>>] : i \in {"i1", "i2", "junk"}}

(***************************************************************************)
(* Scenes                                                                  *)
(***************************************************************************)
Init ==
  /\ scene \in Scenes
  /\ CarefulInit /\ SchemaInit /\ JournalInit /\ SecretsInit /\ UpdateInit
  /\ LogInit /\ VectorInit /\ DigestInit /\ ReplInit
  /\ scene # "session" => party = Proc
  /\ scene # "secrets" => vault = NoVault /\ ~keyring_up
  /\ scene # "update" => archive = "good"
  /\ scene # "digest" => disk = [f \in Files |-> NoText]

Conversations == <<sessionVars, replVars>>
Stores == <<schemaVars, journalVars, secretVars, updateVars, logVars>>
Indexes == <<vectorVars, digestVars>>
allVars == <<Conversations, Stores, Indexes, scene>>

Next ==
  \/ /\ scene = "session" /\ CarefulNext /\ UNCHANGED <<replVars, Stores, Indexes, scene>>
  \/ /\ scene = "repl" /\ ReplNext /\ UNCHANGED <<sessionVars, Stores, Indexes, scene>>
  \/ /\ scene = "schema" /\ SchemaNext
     /\ UNCHANGED <<Conversations, journalVars, secretVars, updateVars, logVars, Indexes, scene>>
  \/ /\ scene = "journal" /\ JournalNext
     /\ UNCHANGED <<Conversations, schemaVars, secretVars, updateVars, logVars, Indexes, scene>>
  \/ /\ scene = "secrets" /\ SecretsNext
     /\ UNCHANGED <<Conversations, schemaVars, journalVars, updateVars, logVars, Indexes, scene>>
  \/ /\ scene = "update" /\ UpdateNext
     /\ UNCHANGED <<Conversations, schemaVars, journalVars, secretVars, logVars, Indexes, scene>>
  \/ /\ scene = "log" /\ LogNext
     /\ UNCHANGED <<Conversations, schemaVars, journalVars, secretVars, updateVars, Indexes, scene>>
  \/ /\ scene = "vector" /\ VectorNext /\ UNCHANGED <<Conversations, Stores, digestVars, scene>>
  \/ /\ scene = "digest" /\ DigestNext /\ UNCHANGED <<Conversations, Stores, vectorVars, scene>>

Spec == Init /\ [][Next]_allVars

(***************************************************************************)
(* What must hold                                                          *)
(***************************************************************************)
\* The state of the component that moves is of its type.
TypesOK ==
  CASE scene = "session" -> SessionTypeOK [] scene = "repl" -> ReplTypeOK
    [] scene = "schema" -> SchemaTypeOK   [] scene = "journal" -> JournalTypeOK
    [] scene = "secrets" -> SecretsTypeOK [] scene = "update" -> UpdateTypeOK
    [] scene = "log" -> LogTypeOK         [] scene = "vector" -> VectorTypeOK
    [] scene = "digest" -> DigestTypeOK

\* While the machine keeps its power a session's file only moves forward, and a
\* row of the journal turns undone only once the bytes it restores are durable
\* (Session::save, save_checkpoint, Journal::undo).
HistoryKept == OnlyForward /\ UndoDurable

\* Files several processes write, across crashes and power loss: no secret whose
\* write was reported is lost or another's, the installed program is a signed
\* release whole, and the log is the last lines written, in order, with every
\* line that was lost told of (FileStore, install_archive, Sink::write_line).
FilesKept ==
  CASE scene = "secrets" -> SecretsKept
    [] scene = "update" -> InstalledIsSigned
    [] scene = "log" -> LogIsSuffix /\ LossReported
    [] OTHER -> TRUE

\* A search answers from the index file as it was when it began, whatever was
\* cached, unless its handle wrote past another's write; lanes are fused in the
\* order they agree on; and once its events are applied a file that was not renamed away
\* since the last scan is in the digest, and among the anchors, as it is now
\* (sync_if_stale, fuse, apply_event, retrieve).
IndexesFresh ==
  CASE scene = "vector" -> FreshInTurn /\ LanesFused
    [] scene = "digest" -> DigestFollowsTree /\ AnchorsPoint
    [] OTHER -> TRUE
=============================================================================
