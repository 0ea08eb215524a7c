------------------------------- MODULE Digest -------------------------------
(***************************************************************************)
(* The repository digest (supra_digest): an index of the symbols each file *)
(* declares and a graph of what it imports, built by a scan, patched by a  *)
(* watcher's events and rebuilt when a retrieval finds the scan too old.   *)
(* The watcher's thread and a retrieving one share the index and the graph *)
(* under a lock each, held for one look or one change.                     *)
(*                                                                         *)
(* A source text is abstracted to whether it parses, what it declares and  *)
(* its items in order: imports, comments and other code.  A module path is *)
(* a sequence of its parts.                                                *)
(***************************************************************************)
EXTENDS Integers, Sequences, FiniteSets, FiniteSetsExt, SequencesExt, Functions

CONSTANTS Paths,        \* source files, in the order of their paths: a sequence
          DirOf, StemOf,\* where a file lies, and its name without the extension
          LanguageOf,   \* Language::detect of its extension
          Texts,        \* what a file may hold
          NoText,       \* a file that is not there
          DMAX_ANCHORS,
          MaxChanges    \* bound: changes to the tree

ASSUME DigestAssumption ==
  /\ Paths \in Seq(Range(Paths)) /\ MaxChanges \in Nat
  /\ NoText \notin Texts /\ \A t \in Texts : t.clean \in BOOLEAN

VARIABLES disk,         \* each path's text, or NoText
          dindex,       \* the symbol index: per path, the text it was made from
          dgraph,       \* [modules, edges]
          dscan,        \* the rescan in flight
          watch,        \* the watcher: its queue and the event it is applying
          unsure,       \* history: paths the last scan may have put back in time
          moved,        \* history: paths renamed away that no scan has missed since
          dchanges

digestVars == <<disk, dindex, dgraph, dscan, watch, unsure, moved, dchanges>>

Files == Range(Paths)

(***************************************************************************)
(* Module paths                                                            *)
(***************************************************************************)
\* A file that is mod or __init__ at the root is no module, <<>> here.
module_path(p) ==
  IF StemOf[p] \in {"mod", "__init__"} THEN DirOf[p] ELSE Append(DirOf[p], StemOf[p])

\* normalise_import: a target is [root, supers, rest].  super:: is stripped, and
\* what is left then has to begin with self:: to be rewritten at all.
normalise_import(p, target) ==
  LET up == SubSeq(DirOf[p], 1, Max({0, Len(DirOf[p]) - target.supers})) IN
  IF target.root = "crate" THEN DirOf[p] \o target.rest
  ELSE IF target.root = "self" THEN up \o target.rest
  ELSE [i \in 1..target.supers |-> "super"] \o target.rest

\* import_targets, over the whole text of a file.  Rust is cut at semicolons,
\* which end an import and neither a comment nor a block: what a piece begins
\* with decides whether it is read as a target.  Quoted modules are kept unless
\* relative; the other languages are read line by line.
import_targets(language, items) ==
  {items[i].target : i \in {j \in DOMAIN items :
     CASE language = "Rust" -> /\ items[j].kind # "comment"
                               /\ j = 1 \/ items[j - 1].kind = "use"
       [] language \in {"Go", "JavaScript", "TypeScript"} -> items[j].kind = "use" /\ ~items[j].relative
       [] language \in {"Python", "C", "Cpp"} -> items[j].kind = "use"}}

\* resolve: the longest prefix that is a registered module.
resolve_module(modules, path) ==
  LET known == {SubSeq(path, 1, n) : n \in 1..Len(path)} \cap DOMAIN modules IN
  IF known = {} THEN NoText ELSE modules[CHOOSE m \in known : \A k \in known : Len(k) <= Len(m)]

(***************************************************************************)
(* The graph                                                               *)
(***************************************************************************)
EmptyGraph == [modules |-> <<>>, edges |-> {}]
Modules(p) == {module_path(p)} \ {<<>>}
\* A module registered before goes to the file that registers it now.
register_module(g, p) ==
  [g EXCEPT !.modules = [m \in DOMAIN @ \cup Modules(p) |-> IF m \in Modules(p) THEN p ELSE @[m]]]
edges_of(modules, p, targets) ==
  {LET to == normalise_import(p, t) IN
   [from |-> p, to |-> to, internal |-> resolve_module(modules, to) # NoText] : t \in targets}
record_imports(g, p, targets) == [g EXCEPT !.edges = @ \cup edges_of(g.modules, p, targets)]

\* Fault: a re-read file keeps the edges its old text declared.
graph_remove_file_Kept(g, p) ==
  [g EXCEPT !.modules = Restrict(@, {m \in DOMAIN @ : @[m] # p})]

graph_remove_file(g, p) ==
  [modules |-> Restrict(g.modules, {m \in DOMAIN g.modules : g.modules[m] # p}),
   edges |-> {e \in g.edges : e.from # p}]

\* The modules of these files registered in the order of their paths.
RegisterAll(paths) ==
  [m \in UNION {Modules(p) : p \in paths} |->
     Paths[Max({i \in DOMAIN Paths : Paths[i] \in paths /\ m \in Modules(Paths[i])})]]

\* dependents: the files that reach p over internal edges, p included.
Importers(g, ps) ==
  {e.from : e \in {x \in g.edges : x.internal /\ resolve_module(g.modules, x.to) \in ps}}
dependents(g, p) ==
  IF p \notin Range(g.modules) THEN {}
  ELSE FoldFunction(LAMBDA n, ps : ps \cup Importers(g, ps), {p}, [n \in 1..Len(Paths) |-> n])

(***************************************************************************)
(* The symbol index                                                        *)
(***************************************************************************)
Parses(text) == text # NoText /\ text.clean
\* index_bytes: a text that does not parse takes the file out of the index.
index_bytes(index, p, text) == [index EXCEPT ![p] = IF Parses(text) THEN text ELSE NoText]
indexed_paths(index) == {p \in Files : index[p] # NoText}
\* is_current: the fingerprint of an indexed file's text.
is_current(index, p, text) == index[p] = text

ScanTree == [p \in Files |-> IF Parses(disk[p]) THEN disk[p] ELSE NoText]
\* Modules first, and then the imports of every file that can be read again.
build_graph(index, texts) ==
  LET modules == RegisterAll(indexed_paths(index))
      read == {p \in indexed_paths(index) : texts[p] # NoText} IN
  [modules |-> modules,
   edges |-> UNION {edges_of(modules, p, import_targets(LanguageOf[p], texts[p].items)) : p \in read}]

NoScan == [phase |-> "none", dirs |-> {}, todo |-> {}, index |-> [p \in Files |-> NoText],
           graph |-> EmptyGraph, touched |-> {}]
Watching == [queue |-> <<>>, phase |-> "none", path |-> Paths[1], text |-> NoText]

\* open: the first scan, before any thread shares the digest.
DigestInit ==
  /\ disk \in [Files -> Texts \cup {NoText}]
  /\ dindex = ScanTree
  /\ dgraph = build_graph(ScanTree, disk)
  /\ dscan = NoScan /\ watch = Watching
  /\ unsure = {} /\ moved = {} /\ dchanges = 0

Queued(p) == \E i \in DOMAIN watch.queue : watch.queue[i].path = p

Touch(p) == IF dscan.phase = "none" THEN dscan ELSE [dscan EXCEPT !.touched = @ \cup {p}]

\* Someone edits, creates, deletes or renames a file; the watcher hears of it.
\* A rename is heard of at the old path as a modification, Modify(Name(From)).
Change(p, text, heard) ==
  /\ dchanges < MaxChanges /\ disk[p] # text
  /\ heard = "remove" => text = NoText
  /\ disk' = [disk EXCEPT ![p] = text]
  /\ watch' = [watch EXCEPT !.queue = Append(@, [kind |-> heard, path |-> p])]
  /\ dscan' = Touch(p)
  /\ moved' = IF text = NoText /\ heard = "modify" THEN moved \cup {p} ELSE moved \ {p}
  /\ dchanges' = dchanges + 1
  /\ UNCHANGED <<dindex, dgraph, unsure>>

(***************************************************************************)
(* apply_event                                                             *)
(***************************************************************************)
Event == Head(watch.queue)
EventRemoved ==
  /\ watch.phase = "none" /\ watch.queue # <<>> /\ Event.kind = "remove"
  /\ dindex' = [dindex EXCEPT ![Event.path] = NoText]
  /\ watch' = [watch EXCEPT !.phase = "graph", !.path = Event.path, !.text = NoText, !.queue = Tail(@)]
  /\ dscan' = Touch(Event.path)
  /\ UNCHANGED <<disk, dgraph, unsure, moved, dchanges>>

\* The file is read; one that is gone or unchanged ends the event, and what
\* was known of a file renamed away stays.
EventRead ==
  /\ watch.phase = "none" /\ watch.queue # <<>> /\ Event.kind = "modify"
  /\ LET text == disk[Event.path]
         over == text = NoText \/ is_current(dindex, Event.path, text) IN
     watch' = [watch EXCEPT !.queue = Tail(@), !.phase = IF over THEN "none" ELSE "index",
                            !.path = Event.path, !.text = IF over THEN NoText ELSE text]
  /\ UNCHANGED <<disk, dindex, dgraph, dscan, unsure, moved, dchanges>>

EventIndex ==
  /\ watch.phase = "index"
  /\ dindex' = index_bytes(dindex, watch.path, watch.text)
  /\ watch' = [watch EXCEPT !.phase = "graph"]
  /\ dscan' = Touch(watch.path)
  /\ UNCHANGED <<disk, dgraph, unsure, moved, dchanges>>

EventGraph ==
  LET p == watch.path
      dropped == graph_remove_file(dgraph, p) IN
  /\ watch.phase = "graph"
  /\ dgraph' = IF watch.text = NoText \/ p \notin indexed_paths(dindex) THEN dropped
               ELSE record_imports(register_module(dropped, p), p,
                                   import_targets(LanguageOf[p], watch.text.items))
  /\ watch' = [watch EXCEPT !.phase = "none", !.text = NoText]
  /\ dscan' = Touch(p)
  /\ UNCHANGED <<disk, dindex, unsure, moved, dchanges>>

(***************************************************************************)
(* rescan_if_stale                                                         *)
(***************************************************************************)
\* A directory is listed and its files are read one by one, then the next one is.
ScanBegin ==
  /\ dscan.phase = "none"
  /\ dscan' = [NoScan EXCEPT !.phase = "read", !.dirs = {DirOf[p] : p \in Files},
                             !.touched = IF watch.phase = "none" THEN {} ELSE {watch.path}]
  /\ UNCHANGED <<disk, dindex, dgraph, watch, unsure, moved, dchanges>>

ScanDirectory(d) ==
  /\ dscan.phase = "read" /\ dscan.todo = {} /\ d \in dscan.dirs
  /\ dscan' = [dscan EXCEPT !.dirs = @ \ {d}, !.todo = {p \in Files : DirOf[p] = d /\ disk[p] # NoText}]
  /\ UNCHANGED <<disk, dindex, dgraph, watch, unsure, moved, dchanges>>

\* A file listed and gone makes the scan an error: nothing is installed.
ScanFails ==
  /\ dscan.phase = "read" /\ \E p \in dscan.todo : disk[p] = NoText
  /\ dscan' = NoScan
  /\ UNCHANGED <<disk, dindex, dgraph, watch, unsure, moved, dchanges>>

ScanFile(p) ==
  /\ dscan.phase = "read" /\ p \in dscan.todo /\ disk[p] # NoText
  /\ dscan' = [dscan EXCEPT !.index = index_bytes(@, p, disk[p]), !.todo = @ \ {p}]
  /\ UNCHANGED <<disk, dindex, dgraph, watch, unsure, moved, dchanges>>

\* build_graph reads every indexed file again.
ScanGraph ==
  /\ dscan.phase = "read" /\ dscan.todo = {} /\ dscan.dirs = {}
  /\ dscan' = [dscan EXCEPT !.phase = "index", !.graph = build_graph(dscan.index, disk)]
  /\ UNCHANGED <<disk, dindex, dgraph, watch, unsure, moved, dchanges>>

InstallIndex ==
  /\ dscan.phase = "index"
  /\ dindex' = dscan.index
  /\ dscan' = [dscan EXCEPT !.phase = "graph"]
  /\ UNCHANGED <<disk, dgraph, watch, unsure, moved, dchanges>>

InstallGraph ==
  /\ dscan.phase = "graph"
  /\ dgraph' = dscan.graph
  /\ unsure' = dscan.touched
  /\ moved' = {p \in moved : p \in dscan.touched \/ Queued(p)}
  /\ dscan' = NoScan
  /\ UNCHANGED <<disk, dindex, watch, dchanges>>

DigestNext ==
  \/ \E p \in Files, text \in Texts \cup {NoText}, heard \in {"remove", "modify"} : Change(p, text, heard)
  \/ EventRemoved \/ EventRead \/ EventIndex \/ EventGraph
  \/ ScanBegin \/ (\E d \in {DirOf[p] : p \in Files} : ScanDirectory(d)) \/ ScanFails \/ (\E p \in Files : ScanFile(p))
  \/ ScanGraph \/ InstallIndex \/ InstallGraph

DigestSpec == DigestInit /\ [][DigestNext]_digestVars

(***************************************************************************)
(* Anchors                                                                 *)
(***************************************************************************)
\* candidate_pool: the symbols whose name a term of the task names, file by file.
candidate_pool(index, terms) ==
  FoldLeft(LAMBDA pool, p : pool \o SetToSeq({[path |-> p, name |-> n] : n \in index[p].declares \cap terms}),
           <<>>, SelectSeq(Paths, LAMBDA p : index[p] # NoText))

\* rank_pool: embedded candidates are put into the vector index under scratch
\* names; the fused ranking may return them in any order, other entries with
\* them; without a semantic answer the lexical fallback ranks the whole pool.
rank_pool(pool, embedded, query, hits) ==
  LET mine == SelectSeq(hits, LAMBDA h : h \in embedded)
      semantic == IF query THEN [i \in 1..Min({Len(mine), DMAX_ANCHORS}) |-> pool[mine[i]]] ELSE <<>>
      lexical == [i \in 1..Min({Len(pool), DMAX_ANCHORS}) |-> pool[i]] IN
  IF semantic # <<>> THEN semantic ELSE lexical

\* retrieve: no terms or no candidate is an empty answer.
retrieve(index, terms, embedded, query, hits) ==
  LET pool == candidate_pool(index, terms) IN
  IF terms = {} \/ pool = <<>> THEN <<>> ELSE rank_pool(pool, embedded, query, hits)

(***************************************************************************)
(* What the digest promises                                                *)
(***************************************************************************)
DigestTypeOK ==
  /\ disk \in [Files -> Texts \cup {NoText}]
  /\ dindex \in [Files -> Texts \cup {NoText}]
  /\ Range(dgraph.modules) \subseteq Files
  /\ dscan.phase \in {"none", "read", "index", "graph"}
  /\ watch.phase \in {"none", "index", "graph"}
  /\ moved \subseteq Files /\ dchanges \in 0..MaxChanges

Imports(p, text) ==
  IF Parses(text) THEN {normalise_import(p, t) : t \in import_targets(LanguageOf[p], text.items)} ELSE {}

\* Where no other file is the same module.
OwnModule(p) == module_path(p) # <<>> /\ \A q \in Files : module_path(q) = module_path(p) => q = p

\* Nothing is left to apply for p, nor was while the last scan ran, and p is
\* no file renamed away since the last scan (see GoneFilesDropped).
Settled(p) ==
  /\ p \notin unsure \cup moved /\ dscan.phase = "none"
  /\ ~Queued(p)
  /\ watch.phase = "none" \/ watch.path # p

\* The digest follows the tree: for a file with no event left to apply, none
\* applied while the last scan ran, and not renamed away since, the index holds
\* what the file declares now, and the graph has exactly the edges its text
\* declares, and its module when no other file is the same one, as a.c and a.h
\* are (apply_event: "The dependency graph moves with the index both ways").
DigestFollowsTree ==
  \A p \in Files : Settled(p) =>
    /\ dindex[p] = IF Parses(disk[p]) THEN disk[p] ELSE NoText
    /\ {e.to : e \in {x \in dgraph.edges : x.from = p}} = Imports(p, disk[p])
    /\ OwnModule(p) => ((p \in Range(dgraph.modules)) <=> Parses(disk[p]))

\* An anchor of a settled file points at a symbol the file declares now; none is
\* returned twice, nor more than were asked for, whatever subset of the pool was
\* embedded and whatever the index ranked among it (retrieve, rank_pool).
AnchorsPoint ==
  \A terms \in SUBSET UNION {t.declares : t \in Texts}, query \in BOOLEAN :
    LET places == [i \in 1..Len(candidate_pool(dindex, terms)) |-> i] IN
    \A embedded \in SUBSET DOMAIN places, hits \in {<<0>> \o places, <<0>> \o Reverse(places)} :
      LET anchors == retrieve(dindex, terms, embedded, query, hits) IN
      /\ Len(anchors) <= DMAX_ANCHORS /\ IsInjective(anchors)
      /\ \A i \in 1..Len(anchors) :
           Settled(anchors[i].path) => anchors[i].name \in disk[anchors[i].path].declares \cap terms

\* What apply_event says of the graph: "a re-read file drops its old edges and
\* re-records the imports the new bytes declare", each of them an edge.
ImportsRecorded ==
  \A p \in Files : (Settled(p) /\ Parses(disk[p])) =>
    \A i \in DOMAIN disk[p].items : disk[p].items[i].kind = "use" =>
      \E e \in dgraph.edges : e.from = p /\ e.to = normalise_import(p, disk[p].items[i].target)

\* What apply_event says of itself, "re-index changed files, drop deleted ones":
\* with nothing pending and no scan since, a file that is gone is in neither.
\* One renamed away is in both until the next scan: it is told as a
\* modification, cannot be read, and is skipped.
GoneFilesDropped ==
  \A p \in Files :
    /\ watch.queue = <<>> /\ watch.phase = "none" /\ dscan.phase = "none" /\ p \notin unsure
    /\ disk[p] = NoText
    => dindex[p] = NoText /\ \A e \in dgraph.edges : e.from # p

\* What the blast radius claims: with nothing pending, what the graph reaches is
\* what a graph built from the tree would reach.
BlastRadiusFollows ==
  (watch.queue = <<>> /\ watch.phase = "none" /\ dscan.phase = "none" /\ unsure = {})
    => \A p \in Files : dependents(dgraph, p) = dependents(build_graph(ScanTree, disk), p)

=============================================================================
