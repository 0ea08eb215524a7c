------------------------------ MODULE Commands ------------------------------
(***************************************************************************)
(* What a line at the prompt means (supra_command registry and command,    *)
(* supra_cli slash), and which invocations run (supra_cli args).           *)
(*                                                                         *)
(* A registry maps names to classes.  In the palette a name is a sequence  *)
(* of characters: 0 and up are those a name may have, in byte order, and   *)
(* -c is the capital of the letter c.                                      *)
(***************************************************************************)
EXTENDS Integers, Sequences, FiniteSets, FiniteSetsExt, SequencesExt, Functions

(***************************************************************************)
(* The registry                                                            *)
(***************************************************************************)
ClassRank == [Agent |-> 0, Host |-> 1, User |-> 2]
permits(class, invoker) == ClassRank[class] <= ClassRank[invoker]

Usable(name) == name # <<>> /\ \A i \in DOMAIN name : name[i] >= 0

\* Registry::register: a bad or a taken name leaves the registry as it was.
register(registry, name, class) ==
  IF ~Usable(name) \/ name \in DOMAIN registry THEN registry ELSE registry @@ (name :> class)

builtins ==
  [n \in {"help", "exit", "clear", "model", "new", "resume", "branch", "export", "permissions",
          "telemetry", "mode"} |-> "Agent"] @@ ("sandbox" :> "Host")

\* Registry::resolve.
resolve(registry, name, invoker) ==
  IF name \notin DOMAIN registry THEN "Unknown"
  ELSE IF ~permits(registry[name], invoker) THEN "Authority" ELSE name

(***************************************************************************)
(* The palette                                                             *)
(***************************************************************************)
lower(c) == IF c < 0 THEN -c ELSE c

Lesser(a, b) ==
  \/ IsStrictPrefix(a, b)
  \/ \E i \in DOMAIN a \cap DOMAIN b : SubSeq(a, 1, i - 1) = SubSeq(b, 1, i - 1) /\ a[i] < b[i]

\* Registry::all: in name order.
all(registry) == SetToSortSeq(DOMAIN registry, Lesser)

\* Fault: the characters may come in any order.
subsequence_Unordered(needle, haystack) == Range(needle) \subseteq Range(haystack)

\* subsequence: one pass, the character wanted advancing at each hit.
subsequence(needle, haystack) ==
  LET found == FoldLeft(LAMBDA hits, c :
                 IF hits < Len(needle) /\ c = needle[hits + 1] THEN hits + 1 ELSE hits, 0, haystack) IN
  found = Len(needle)

\* Registry::search.
search(registry, query) ==
  LET needle == [i \in DOMAIN query |-> lower(query[i])] IN
  IF query = <<>> THEN all(registry) ELSE SelectSeq(all(registry), LAMBDA n : subsequence(needle, n))

\* However the names were registered, the palette offers in name order exactly
\* the names the query, in lower case, is spread over; typing on only narrows
\* it, and every name offered resolves for the user.
PaletteExact(names, query) ==
  LET registry == FoldLeft(LAMBDA r, n : register(r, n, "Agent"), <<>>, names)
      hits == search(registry, query)
      Spread(name) == \E at \in [DOMAIN query -> DOMAIN name] :
        /\ \A i \in DOMAIN query : name[at[i]] = lower(query[i])
        /\ \A i, j \in DOMAIN query : i < j => at[i] < at[j] IN
  /\ Range(hits) = {n \in Range(names) : Usable(n) /\ Spread(n)}
  /\ \A i, j \in DOMAIN hits : i < j => Lesser(hits[i], hits[j])
  /\ query # <<>> => Range(hits) \subseteq Range(search(registry, Front(query)))
  /\ \A i \in DOMAIN hits : resolve(registry, hits[i], "User") = hits[i]

(***************************************************************************)
(* Lines and invocations                                                   *)
(***************************************************************************)
\* parse_line: a line is [slash, words], the first word of a command already
\* lowered.
parse_line(line) ==
  IF ~line.slash THEN [kind |-> "Task", name |-> "", args |-> line.words]
  ELSE [kind |-> "Slash", name |-> IF line.words = <<>> THEN "" ELSE line.words[1],
        args |-> IF line.words = <<>> THEN <<>> ELSE Tail(line.words)]

\* dispatch: a task, a command's own action, or the registry's refusal.
dispatch(registry, parsed) ==
  IF parsed.kind = "Task" THEN [action |-> "task", args |-> parsed.args]
  ELSE [action |-> resolve(registry, parsed.name, "User"), args |-> parsed.args]

\* Cli::validate: the overrides that loosen safety need --yes.
validate(cli) == (cli.ignore_project_config \/ cli.sandbox_off) => cli.yes
=============================================================================
