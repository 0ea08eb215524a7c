------------------------------- MODULE Skills -------------------------------
(***************************************************************************)
(* The skill loader (supra_skill): a directory of SKILL.md files loaded at *)
(* start and kept up with through watcher events.  The author edits files, *)
(* the watcher reports the paths in order, and an event is applied later,  *)
(* to what the file holds by then.                                         *)
(***************************************************************************)
EXTENDS Naturals, Sequences, SequencesExt, FiniteSets

CONSTANTS
  SkillPaths,   \* files, in the order of their names
  SkillNames,   \* names a skill may declare, in order
  MaxEvents     \* bound: events the watcher has not delivered

ASSUME SkillsAssumption ==
  MaxEvents \in Nat /\ SkillPaths \in Seq({SkillPaths[i] : i \in DOMAIN SkillPaths})

VARIABLES
  disk,      \* disk[p]: the file's front matter, Bad or Absent
  by_name,   \* Skills::by_name
  sources,   \* Skills::sources
  events,    \* watcher events not applied yet
  refused    \* whether a load or an event was ever refused

skillVars == <<disk, by_name, sources, events, refused>>

Range1(f) == {f[x] : x \in DOMAIN f}
Named == UNION {[1..n -> Range1(SkillNames)] : n \in 0..1}
Contents == [name : Range1(SkillNames), requires : Named]
Absent == [name |-> "", requires |-> <<>>]
Bad == [name |-> "?", requires |-> <<>>]
Empty == [n \in {} |-> {}]
With(f, k, v) == [n \in DOMAIN f \cup {k} |-> IF n = k THEN v ELSE f[n]]

\* Skill::parse_str: fences, name and description, or an error.
Parses(p) == disk[p] \notin {Bad, Absent}

(***************************************************************************)
(* Dependencies                                                            *)
(***************************************************************************)
\* visit: depth first along requires; a name met again on the way is a cycle.
Walk == [visiting : Seq(Range1(SkillNames)), done : SUBSET Range1(SkillNames), cycle : BOOLEAN]
visit(skills, start, from) ==
  LET step[name \in Range1(SkillNames), walk \in Walk] ==
        IF name \in walk.done \/ walk.cycle THEN walk
        ELSE IF Contains(walk.visiting, name) THEN [walk EXCEPT !.cycle = TRUE]
        ELSE LET down == FoldLeft(LAMBDA w, r : step[r, w],
                                  [walk EXCEPT !.visiting = Append(@, name)], skills[name].requires)
             IN IF down.cycle THEN down
                ELSE [down EXCEPT !.visiting = Front(@), !.done = @ \cup {name}]
  IN step[start, from]

\* Fault: only the names are looked up, the walk is forgotten.
resolve_dependencies_Shallow(skills) ==
  \A n \in DOMAIN skills : \A i \in DOMAIN skills[n].requires :
    skills[n].requires[i] \in DOMAIN skills

\* resolve_dependencies: every required name exists and no skill needs itself.
resolve_dependencies(skills) ==
  /\ \A n \in DOMAIN skills : \A i \in DOMAIN skills[n].requires :
       skills[n].requires[i] \in DOMAIN skills
  /\ ~FoldLeft(LAMBDA w, n : visit(skills, n, w),
               [visiting |-> <<>>, done |-> {}, cycle |-> FALSE],
               SelectSeq(SkillNames, LAMBDA n : n \in DOMAIN skills)).cycle

\* topological: each skill after what it requires, names in order otherwise.
push_order(skills, start, before) ==
  LET step[name \in Range1(SkillNames), order \in Seq(Range1(SkillNames))] ==
        IF Contains(order, name) \/ name \notin DOMAIN skills THEN order
        ELSE Append(FoldLeft(LAMBDA o, r : step[r, o], order, skills[name].requires), name)
  IN step[start, before]
topological == FoldLeft(LAMBDA o, n : push_order(by_name, n, o), <<>>,
                        SelectSeq(SkillNames, LAMBDA n : n \in DOMAIN by_name))

(***************************************************************************)
(* Loading and reloading                                                   *)
(***************************************************************************)
\* A set of skills with the file each came from, or an error.
Loaded(skills, from) == [ok |-> TRUE, skills |-> skills, from |-> from]
Refused == [ok |-> FALSE]

\* load: files by path; a name already taken is refused.
Added(acc, p) ==
  IF ~acc.ok \/ disk[p] = Absent THEN acc
  ELSE IF ~Parses(p) \/ disk[p].name \in DOMAIN acc.skills THEN Refused
  ELSE Loaded(With(acc.skills, disk[p].name, disk[p]), With(acc.from, disk[p].name, p))
loaded[n \in 0..Len(SkillPaths)] ==
  IF n = 0 THEN Loaded(Empty, Empty) ELSE Added(loaded[n - 1], SkillPaths[n])
load ==
  LET all == loaded[Len(SkillPaths)]
  IN IF all.ok /\ resolve_dependencies(all.skills) THEN all ELSE Refused

NameAt(p) == {n \in DOMAIN sources : sources[n] = p}
Dropped(p) ==
  Loaded([n \in DOMAIN by_name \ NameAt(p) |-> by_name[n]],
         [n \in DOMAIN sources \ NameAt(p) |-> sources[n]])

\* apply_event_in_place, for an event of one path: the old row of the path goes
\* before the duplicate check.
apply_event_in_place(e) ==
  LET less == Dropped(e.path)
      new  == disk[e.path]
      next == IF e.kind = "remove" THEN less
              ELSE IF ~Parses(e.path) \/ new.name \in DOMAIN less.skills THEN Refused
              ELSE Loaded(With(less.skills, new.name, new), With(less.from, new.name, e.path))
  IN IF next.ok /\ resolve_dependencies(next.skills) THEN next ELSE Refused

SkillsTypeOK ==
  /\ \A p \in Range1(SkillPaths) : disk[p] \in Contents \cup {Bad, Absent}
  /\ Len(events) <= MaxEvents /\ refused \in BOOLEAN
  /\ DOMAIN by_name = DOMAIN sources

SkillsInit ==
  /\ disk = [p \in Range1(SkillPaths) |-> Absent]
  /\ by_name = Empty /\ sources = Empty /\ events = <<>> /\ refused = FALSE

\* The author writes or removes a file; the watcher reports it.
Edit(p, c) ==
  /\ Len(events) < MaxEvents /\ disk[p] # c
  /\ disk' = [disk EXCEPT ![p] = c]
  /\ events' = Append(events, [path |-> p, kind |-> IF c = Absent THEN "remove" ELSE "modify"])
  /\ UNCHANGED <<by_name, sources, refused>>

\* Fault: the set is changed although the event is refused.
apply_event_InPlace ==
  /\ events # <<>>
  /\ LET e == Head(events)
         next == IF apply_event_in_place(e).ok THEN apply_event_in_place(e) ELSE Dropped(e.path)
     IN /\ by_name' = next.skills /\ sources' = next.from
        /\ refused' = (refused \/ ~apply_event_in_place(e).ok)
  /\ events' = Tail(events) /\ UNCHANGED disk

\* apply_event: on a copy, adopted when everything resolved.
apply_event ==
  /\ events # <<>>
  /\ LET next == apply_event_in_place(Head(events))
     IN IF next.ok THEN by_name' = next.skills /\ sources' = next.from /\ UNCHANGED refused
        ELSE refused' = TRUE /\ UNCHANGED <<by_name, sources>>
  /\ events' = Tail(events) /\ UNCHANGED disk

\* A new session loads the directory, or has no skills.
Reload ==
  /\ by_name' = IF load.ok THEN load.skills ELSE Empty
  /\ sources' = IF load.ok THEN load.from ELSE Empty
  /\ refused' = ~load.ok /\ events' = <<>> /\ UNCHANGED disk

SkillsNext ==
  \/ \E p \in Range1(SkillPaths) : \E c \in Contents \cup {Bad, Absent} : Edit(p, c)
  \/ apply_event \/ Reload

SkillsSpec == SkillsInit /\ [][SkillsNext]_skillVars

(***************************************************************************)
(* Properties                                                              *)
(***************************************************************************)
\* Names that reach themselves, by the definition of a cycle.
Requires(a) == Range1(by_name[a].requires)
Reaches(a, b) ==
  \E n \in 1..Len(SkillNames) : \E path \in [0..n -> DOMAIN by_name] :
    path[0] = a /\ path[n] = b /\ \A i \in 1..n : path[i] \in Requires(path[i - 1])

\* "A reload that would break the set is refused and the previous state stands"
\* (loader.rs): whatever the edits and the order their events are applied in,
\* the session's skills resolve, no skill needs itself, and the load order lists
\* every skill once, after what it requires.
SkillsResolve ==
  /\ \A n \in DOMAIN by_name : Requires(n) \subseteq DOMAIN by_name /\ ~Reaches(n, n)
  /\ Range1(topological) = DOMAIN by_name /\ Len(topological) = Cardinality(DOMAIN by_name)
  /\ \A i \in DOMAIN topological : Requires(topological[i]) \subseteq {topological[j] : j \in 1..i - 1}

\* When every event was applied and none was refused, the session has exactly
\* the skills of the directory, each from its file's last content.
SkillsFollowDisk ==
  events = <<>> /\ ~refused =>
    /\ \A n \in DOMAIN by_name : disk[sources[n]] = by_name[n] /\ by_name[n].name = n
    /\ \A p \in Range1(SkillPaths) : disk[p] # Absent => p \in Range1(sources)
=============================================================================
