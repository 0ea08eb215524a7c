------------------------------- MODULE MCCases ------------------------------
(***************************************************************************)
(* The functions that keep no state, each over all small inputs of its     *)
(* sort: an initial state is a case, and its sort says which property it   *)
(* is a case of.  The cohort and the frame go on from theirs, vote by vote *)
(* and event by event.                                                     *)
(***************************************************************************)
EXTENDS Cohort, Checkpoint, Display, Risk, Canonical, Redact, Replay, TLC

CONSTANTS
  Sorts,             \* the sorts of cases to look at
  Unset, Invalid     \* of Config
VARIABLE case

Cfg == INSTANCE Config
Cmd == INSTANCE Commands
Syn == INSTANCE Syntax

\* Programs by what they do when they are run.
HookExits == [program \in {<<"o">>, <<"t">>, <<"f">>, <<"m">>} |->
  CASE program = <<"o">> -> "ok" [] program = <<"t">> -> "42"
    [] program = <<"f">> -> "bad" [] program = <<"m">> -> "absent"]
Hk == INSTANCE Hooks WITH Exit <- HookExits

AllSorts ==
  {"cohort", "frame", "status", "checkpoint", "config", "risk", "segment", "value", "ledger",
   "palette", "redact", "replay", "usage", "gate", "rename", "tree", "gist", "text", "outline",
   "words", "hooks", "finding", "task", "start"}

EveryLimit == 1..PEER_CEILING
Upto(n, S) == UNION {[1..k -> S] : k \in 0..n}

(***************************************************************************)
(* Sessions and what is shown of them                                      *)
(***************************************************************************)
\* The edits of a checkpoint; a branch takes an id nobody has had.
Edits(newId) ==
  [op : {"push"}, turn : {CheckpointTurn(t, m) : t \in 1..2, m \in {<<>>, <<"role", "no role">>}}]
  \cup [op : {"status"}, status : {"Running"}] \cup [op : {"ledger", "config"}, value : {1}]
  \cup {[op |-> "branch", session |-> newId]}
CheckpointCase == \E a \in Edits(2), b \in Edits(3), c \in Edits(4), d \in Edits(5) :
  case = [sort |-> "checkpoint", edits |-> <<a, b, c, d>>]

\* Facts as the widths of their words, whole and short.
Fact(full, short) == [full |-> full, short |-> short]
StatusCase ==
  \E broken, missed \in {<<>>, <<1, 2>>}, model \in {<<1, 1>>, <<1, 2>>},
     telemetry \in {<<>>, <<1>>}, hooks \in {<<>>, <<2>>}, cols \in 0..36 :
    case = [sort |-> "status", cols |-> cols,
            facts |-> [context |-> Fact(<<1, 1>>, <<1>>), cache |-> Fact(<<1, 2>>, <<1>>),
                       cost |-> Fact(<<1, 1, 1>>, <<1, 1>>), mode |-> Fact(<<1, 1>>, <<2>>),
                       broken |-> Fact(broken, IF broken = <<>> THEN <<>> ELSE <<1>>),
                       model |-> Fact(model, <<>>), missed |-> Fact(missed, <<>>),
                       telemetry |-> Fact(telemetry, <<>>), hooks |-> Fact(hooks, <<>>)]]

(***************************************************************************)
(* Choices                                                                 *)
(***************************************************************************)
\* Configuration layers: strict and loose modes, limits in and out of range,
\* thresholds, providers with and without an endpoint, and broken ones.
LayerOf(mode, lim, threshold, providers) ==
  [Cfg!Silent EXCEPT !.mode = mode, !.limit = lim, !.threshold = threshold, !.providers = providers]
EndpointAt(scheme, host, port, userinfo) == [scheme |-> scheme, host |-> host, port |-> port, userinfo |-> userinfo]
Endpoint == EndpointAt("https", "h", "none", FALSE)
ProviderAt(endpoint) == [env |-> "NAME", keyring |-> Unset, model |-> "m", endpoint |-> endpoint]
LayerChoices ==
  {Unset, Invalid, LayerOf("plan", Unset, Unset, Unset), LayerOf("ask", 1, Unset, Unset),
   LayerOf("yolo", Unset, 95, Unset), LayerOf(Unset, 81, Unset, Unset), LayerOf(Unset, 5, 92, <<>>),
   LayerOf("auto", Unset, Unset, [google |-> ProviderAt(EndpointAt("http", "localhost", "malformed", FALSE))]),
   LayerOf("ask", Unset, Unset, [google |-> ProviderAt(Unset), other |-> ProviderAt(Endpoint)])}
\* Plaintext endpoints, one per layer, with a user name or a port that is none.
EndpointLayers ==
  {LayerOf("auto", Unset, Unset, [google |-> ProviderAt(EndpointAt(scheme, host, port, userinfo))]) :
     scheme \in {"http", "https"}, host \in {"", "h", "localhost", "127.0.0.1", "[::1]"},
     port \in {"none", "number", "malformed"}, userinfo \in BOOLEAN}
Absent == [kind |-> "absent"]
PlainFiles == [kind : {"file"}, mode : {"private", "shared"}, layer : LayerChoices \ {Unset}]
Files == PlainFiles \cup {Absent, [kind |-> "other"]}
Environments ==
  {<<>>, <<[name |-> "mode", value |-> "plan"]>>,
   <<[name |-> "limit", value |-> 3], [name |-> "limit", value |-> 4]>>, <<[name |-> "bogus", value |-> "plan"]>>}
ConfigCase ==
  \E input \in [user : Files, project : {<<>>} \cup {<<f>> : f \in Files} \cup {<<Absent, f>> : f \in PlainFiles},
                env : Environments, cli : LayerChoices \ {Invalid},
                session : {Unset, LayerOf("yolo", 2, Unset, Unset)}] :
    case = [sort |-> "config", input |-> input]
EndpointCase ==
  \E layer \in EndpointLayers :
    case = [sort |-> "config",
            input |-> [user |-> [kind |-> "file", mode |-> "private", layer |-> layer], project |-> <<>>,
                       env |-> <<>>, cli |-> Unset, session |-> Unset]]

\* Environments of a process: the variables that name its directories, other
\* programs' variables, ones that are not text; and its flags.
Variable(name, value, prefixed, utf8) == [name |-> name, value |-> value, prefixed |-> prefixed, utf8 |-> utf8]
Variables ==
  {<<>>, <<Variable("LANG", "C", FALSE, TRUE)>>,
   <<Variable("mode", "yolo", TRUE, FALSE), Variable("mode", "ask", TRUE, TRUE)>>,
   <<Variable("LANG", "C", FALSE, TRUE), Variable("mode", "yolo", TRUE, FALSE), Variable("budget", 512, TRUE, TRUE)>>}
ProbedLayer == LayerOf(Unset, Unset, Unset, [anthropic |-> ProviderAt(Unset), openai |-> ProviderAt(Endpoint)])
Worlds ==
  [xdg : {Unset, "", "relative", "absolute"}, home : {Unset, "", "relative", "absolute"}, state : {Unset, "absolute"},
   cwd : BOOLEAN, variables : Variables, target : {"file", "fifo"}, installed : BOOLEAN,
   secrets : {[NAME |-> "key"], [NAME |-> ""]},
   user : {Absent, [kind |-> "file", mode |-> "private", layer |-> ProbedLayer]},
   project : {<<>>, <<[kind |-> "file", mode |-> "shared", layer |-> LayerOf("ask", 1, Unset, Unset)]>>}]
Flags == [mode : {Unset, "plan", "yolo"}, think : {Unset, 7}, ignore_project : BOOLEAN, sandbox : {"on"},
          yes : BOOLEAN, log : BOOLEAN]
StartCase ==
  \E world \in Worlds, flags \in Flags, answers \in [{"anthropic", "openai"} -> BOOLEAN] :
    /\ world.user = Absent \/ flags # [Cfg!NoFlags EXCEPT !.log = TRUE] => \A name \in DOMAIN answers : answers[name]
    /\ flags.log <=> flags.think = Unset
    /\ world.installed => world.target = "file" /\ flags.mode = Unset
    /\ world.target = "fifo" => world.cwd
    /\ case = [sort |-> "start", world |-> world, flags |-> flags, answers |-> answers]

RiskCase == \E s \in Sensible, sensitive, full \in BOOLEAN :
  case = [sort |-> "risk", signals |-> s, areas |-> [sensitive |-> sensitive, force_full |-> full]]
\* Tasks of four words: plain ones, verbs that change something, and paths.
TaskWords == [path : BOOLEAN, parts : {{"the"}, {"Fix"}, {"src", "auth"}, {"migrat"}}]
TaskCase == \E task \in [1..4 -> TaskWords] : case = [sort |-> "task", task |-> task]

CommandNames == {<<>>, <<1>>, <<1, 2>>, <<2, 0, 1>>, <<-1>>}
PaletteCase == \E a, b, c \in CommandNames, query \in Upto(3, {-1, 0, 1, 2}) :
  case = [sort |-> "palette", names |-> <<a, b, c>>, query |-> query]

MeasuredTurns == [predicted : {1, 2}, admitted : {1}, cache_hit : {FALSE}, mills : {0, 2, 5}]
GateCase == \E first, second \in Upto(2, MeasuredTurns), percent \in {50, 100} :
  case = [sort |-> "gate", first |-> first, second |-> second, percent |-> percent]

\* Two words of a hook's line and how each is written; and three hooks.
HookWords == Upto(2, {"x", "'", "\"", "\\", " "}) \ {<<>>}
WordsCase == \E first, second \in HookWords, styles \in [1..2 -> {"bare", "single", "double"}], gap \in {<<>>, <<" ">>} :
  case = [sort |-> "words", first |-> first, second |-> second, styles |-> styles, gap |-> gap]
HookLines == {<<" ">>, <<"\"", "\"">>, <<"o">>, <<" ", "t">>, <<"f">>, <<"m">>}
HooksCase ==
  \E requests \in Upto(3, [name : {"session-end", "turn-start", "before-tool", "bogus"}, command : HookLines]) :
    case = [sort |-> "hooks", requests |-> requests]

\* A diagnostic in both spellings, and the answers of peers.
FindingCase ==
  \E path \in DOMAIN Bytes \ Marks, number \in DOMAIN Numerals, message \in Upto(2, DOMAIN Bytes), source \in {6, 16},
     level \in {": warning: ", ": error:"}, answers \in Upto(3, (1..3) \X {"a", "b"}) :
    /\ message = <<>> \/ answers = <<>>
    /\ case = [sort |-> "finding", path |-> path, number |-> number, message |-> message, source |-> source,
               level |-> level, answers |-> answers]

(***************************************************************************)
(* What goes over the wire                                                 *)
(***************************************************************************)
Texts == {<<>>, <<0>>, <<1>>, <<1, 1>>}
Short == {<<>>, <<2>>}
Blocks ==
  {[block |-> "text", text |-> x] : x \in Texts}
  \cup {[block |-> "thinking", text |-> x, signature |-> g] : x \in Short, g \in {<<>>, <<<<>>>>, <<<<1>>>>}}
  \cup {[block |-> "tool_use", call |-> x, name |-> y, input |-> z] : x, y, z \in Short}
  \cup {[block |-> "tool_result", call |-> x, content |-> y, is_error |-> z] : x, y \in Short, z \in BOOLEAN}
SegmentKinds ==
  {[kind |-> "tools"], [kind |-> "system"]}
  \cup {[kind |-> "turn", turn |-> <<1>>, role |-> r] : r \in {"user", "assistant"}}
  \cup {[kind |-> "memory", entry |-> [turn |-> <<1>>, topic |-> x, gist |-> y]] : x, y \in Texts}
SegmentsUpto(n) ==
  {[id |-> <<0>>, kind |-> k, blocks |-> b] : k \in {[kind |-> "system"], [kind |-> "tools"]}, b \in Upto(n, Blocks)}
  \cup {[id |-> <<0>>, kind |-> k, blocks |-> <<>>] : k \in SegmentKinds}
SegmentCase == \E s \in SegmentsUpto(2) : case = [sort |-> "segment", segment |-> s]

\* Documents two deep, with keys that are spelled differently and mean the same.
Numbers == {Leaf(x) : x \in {"1", "1.5"}}
Flat ==
  Numbers \cup {Leaf("a"), Leaf("A"), Arr(<<>>), Obj(<<>>)}
  \cup {Arr(<<x>>) : x \in Numbers \cup {Leaf("a"), Leaf("A")}}
  \cup {Obj(<<<<k, x>>>>) : k \in Strings, x \in Numbers}
  \cup {Obj(<<<<k, x>>, <<l, y>>>>) : k, l \in Strings, x, y \in Numbers}
Documents ==
  Flat \cup {Obj(<<<<k, Leaf("1")>>, <<"b", v>>>>) : k \in Strings, v \in Flat}
  \cup {Arr(<<v, Leaf("1")>>) : v \in Flat}
ValueCase == \E v \in Documents : case = [sort |-> "value", value |-> v]

LedgerCase == \E chain \in Upto(3, 1..2), entries \in Upto(3, (1..3) \X {"v"}) :
  case = [sort |-> "ledger", chain |-> chain, entries |-> entries]

\* A secret among a quote, a backslash and a space, in every form it may be logged in.
FieldNames == {<<"t">>, <<"f">>, <<"f", "t">>, <<"f", "t", "n">>}
Json == [kind : {"json"}, name : FieldNames, value : Upto(2, {"t", "q", "b", "s", " "})]
Debug == [kind : {"debug"}, name : FieldNames, value : Upto(2, {"t", "q", "b", "s", " "})]
Pairs == [kind : {"pair"}, name : FieldNames, value : Upto(2, {"t", "s"}) \ {<<>>}]
Loose ==
  [kind : {"word"}, name : {<<"t">>}, value : {<<"s", "t", "t">>, <<"s", "t">>, <<"t", "s", "t", "t">>, <<"f">>}]
  \cup [kind : {"pem", "key"}, name : {<<"t">>}, value : {<<"t">>, <<"t", "b", "n", "s", "t", "t">>}]
RedactCase ==
  \/ \E a \in Json, b \in {p \in Json : Len(p.value) <= 1} : case = [sort |-> "redact", first |-> a, second |-> b]
  \/ \E a \in Debug \cup Pairs \cup Loose, b \in Loose \cup {p \in Pairs : Len(p.value) = 1} :
       case = [sort |-> "redact", first |-> a, second |-> b]

\* Conversations of three messages, with tool calls and their results.
ReplayBlock(kind, value, id, mark) == [kind |-> kind, value |-> value, id |-> id, mark |-> mark]
Spoken(word) == ReplayBlock("text", <<word>>, "", FALSE)
UserBlocks ==
  {Spoken("x"), ReplayBlock("text", <<"w">>, "", TRUE), ReplayBlock("tool_result", <<"y">>, "1", TRUE),
   ReplayBlock("tool_result", <<"z">>, "2", FALSE)}
AssistantBlocks ==
  {Spoken("x"), ReplayBlock("tool_use", <<"f">>, "1", FALSE), ReplayBlock("tool_use", <<"g">>, "2", FALSE),
   ReplayBlock("thinking", <<"t">>, "", FALSE), ReplayBlock("unknown", <<"u">>, "", FALSE)}
Message(role, content) == [role |-> role, content |-> content]
ReplayCase ==
  \E a \in Upto(2, AssistantBlocks), u \in Upto(3, UserBlocks), first \in BOOLEAN,
     tools \in {<<>>, <<[name |-> "f", schema |-> "s"]>>} :
    case = [sort |-> "replay",
            request |-> [messages |-> IF first
                           THEN <<Message("user", <<Spoken("x")>>), Message("assistant", a), Message("user", u)>>
                           ELSE <<Message("assistant", a), Message("user", u), Message("assistant", <<Spoken("q")>>)>>,
                         tools |-> tools, breakpoints |-> <<"Bp1Tools", "Bp4PreviousTurn">>]]

Counts1 == {0, 1, 167, 1000, 1667, 3334}
UsageCase == \E provider \in Providers, prompt, cached, output \in Counts1, more \in {0, 1, 167} :
  /\ cached <= prompt
  /\ case = [sort |-> "usage", provider |-> provider, prompt |-> prompt, cached |-> cached,
             output |-> output, more |-> more]

(***************************************************************************)
(* Source text                                                             *)
(***************************************************************************)
\* Files read by both grammars alike, and files with what only one of them reads.
TextsHere ==
  [text : Upto(4, {0, 1, 2, 8, 9}), tsx : {FALSE}] \cup [text : Upto(3, {1, 2, 0, 6, 7}), tsx : BOOLEAN]
RenameCase ==
  \E old, new \in {<<1>>, <<2>>, <<1, 2>>, <<2, 2>>, <<>>}, x \in TextsHere, reachable \in {{1}, {1, 2}} :
    case = [sort |-> "rename", old |-> old, new |-> new, reachable |-> reachable,
            files |-> <<x, [text |-> <<1, 0, 2, 8, 1>>, tsx |-> FALSE]>>]

\* Trees of four nodes in the order of the walk; a node is under an earlier one.
Declarations(names) == [kind : {"decl"}, field : names, ident : {""}]
TreesOf(nodes) ==
  {[i \in 1..4 |-> [up |-> up[i], kind |-> node[i].kind, field |-> node[i].field, ident |-> node[i].ident]] :
     up \in {u \in [1..4 -> 0..3] : u[1] = 0 /\ \A i \in 2..4 : u[i] \in 1..i - 1}, node \in [1..4 -> nodes]}
TreeCase ==
  \E t \in TreesOf(Declarations({"a", "b", ""}) \cup {[kind |-> "plain", field |-> "", ident |-> ""]}) :
    case = [sort |-> "tree", tree |-> t]
\* With impl blocks, whose target may be declared inside them.
OutlineCase ==
  \E t \in TreesOf(Declarations({"a", "b"}) \cup {[kind |-> "impl", field |-> "", ident |-> "a"]}) :
    case = [sort |-> "outline", tree |-> t]

GistCase == \E topicBytes \in {55, 60, 70, 75, 80}, parent \in {0, 5, 30}, line \in Upto(3, {4, 10, 40}), kind \in {4, 8} :
  case = [sort |-> "gist", topicBytes |-> topicBytes, parent |-> parent, line |-> line, kind |-> kind]

TextCase == \E t \in Upto(4, {1, 3, 4, Syn!LF, Syn!CR}) : case = [sort |-> "text", text |-> t]

(***************************************************************************)
(* The cases, and the two that go on                                       *)
(***************************************************************************)
ACase ==
  \/ CheckpointCase \/ StatusCase \/ ConfigCase \/ EndpointCase \/ RiskCase \/ PaletteCase \/ GateCase
  \/ TaskCase \/ StartCase \/ WordsCase \/ HooksCase \/ FindingCase
  \/ SegmentCase \/ ValueCase \/ LedgerCase \/ RedactCase \/ ReplayCase \/ UsageCase
  \/ RenameCase \/ TreeCase \/ OutlineCase \/ GistCase \/ TextCase
  \/ \E sort \in {"cohort", "frame"} : case = [sort |-> sort]

CasesInit ==
  /\ ACase /\ case.sort \in Sorts
  /\ IF case.sort = "cohort" THEN Init
     ELSE requested = 0 /\ limit = 1 /\ tally = NewTally(admit(0, 1).k)
  /\ DisplayInit

CasesNext ==
  \/ case.sort = "cohort" /\ Next /\ UNCHANGED <<displayVars, case>>
  \/ case.sort = "frame" /\ DisplayNext /\ UNCHANGED <<vars, case>>

CasesSpec == CasesInit /\ [][CasesNext]_<<vars, displayVars, case>>

(***************************************************************************)
(* What must hold                                                          *)
(***************************************************************************)
\* What is sent, sealed or written out is what was meant: a seal names its
\* segment, canonical text its value, a replayed conversation is the one that
\* was held, usage is priced once, and a redacted line hides its secrets and
\* nothing else, unless it has two keys and the first is cut off (canonical,
\* ledger, providers, emit_usage, redact).
WireFaithful ==
  CASE case.sort = "segment" -> SealNames(case.segment, SegmentsUpto(1)) /\ LookbackExact(case.segment)
    [] case.sort = "value" -> CanonicalText(case.value, Documents)
    [] case.sort = "ledger" -> OrderedValues(case.chain, case.entries)
    [] case.sort = "redact" -> RedactsExactly(case.first, case.second)
    [] case.sort = "replay" -> ReplayStable(case.request) /\ SaidInOrder(case.request)
    [] case.sort = "usage" -> UsagePriced(case.provider, case.prompt, case.cached, case.output, case.more)
    [] OTHER -> TRUE

\* Structure survives the work on it: symbols nest as declared, and their depths are
\* found wherever one can be; a rename touches every use that is not a field's and
\* nothing else, and is whole or not at all; a gist keeps to its bytes, and a
\* position means the same byte on the way back (harvest, outline, rename,
\* gist_for_entry, position_of and byte_offset).
StructureFaithful ==
  CASE case.sort = "tree" -> Syn!OutlineNests(case.tree) /\ Syn!OutlineSettles(case.tree)
    [] case.sort = "outline" -> Syn!OutlineEndsAtATop(case.tree)
    [] case.sort = "rename" -> Syn!RenameWhole(case.old, case.new, case.files, case.reachable)
    [] case.sort = "gist" -> Syn!GistFits(case.topicBytes, case.parent, case.line, case.kind)
    [] case.sort = "text" -> Syn!PositionsRoundTrip(case.text)
    [] OTHER -> TRUE

\* A choice among many follows its rule: settings by their layers wherever the
\* process was started, scrutiny by the evidence, commands by what was typed, the
\* economy gate by all its turns, and the hooks of a point by what each of them
\* did (load, discover_resolve, estimate, cross_check, search, passes, fire).
ChoicesFaithful ==
  CASE case.sort = "config" -> Cfg!ConfigLayered(case.input)
    [] case.sort = "start" -> Cfg!StartsAlike(case.world, case.flags, case.answers)
    [] case.sort = "risk" -> ScrutinyMonotone(case.signals, case.areas)
    [] case.sort = "palette" -> Cmd!PaletteExact(case.names, case.query)
    [] case.sort = "task" -> TaskSized(case.task)
    [] case.sort = "words" -> Hk!WordsArrive(case.first, case.second, case.styles, case.gap)
    [] case.sort = "hooks" -> Hk!HooksObserve(case.requests)
    [] case.sort = "finding" ->
         /\ FindingPlaced(case.path, case.number, case.level, case.message, case.source)
         /\ AnswersCompared(case.answers)
    [] case.sort = "gate" ->
         /\ GateComposes(case.first, case.second, case.percent, 3)
         /\ case.first \o case.second = <<>> => offline_shape_check
    [] OTHER -> TRUE

\* A session's record is one that can be saved and resumed, whatever the edits;
\* and the screen says what happened, missed events told of, within its columns
\* (SessionCheckpoint, FrameState::apply, StatusLine::render).
SessionShown ==
  /\ FrameHonest /\ DisplayTypeOK
  /\ CASE case.sort = "checkpoint" -> CheckpointLives(1, case.edits)
       [] case.sort = "status" -> /\ StatusShows(case.facts, case.cols)
                                  /\ \A part, whole \in 0..8 : GaugesExact(case.cols % 9, part, whole)
       [] OTHER -> TRUE

\* Refuted: the outline's loop over a file's symbols ends (outline).
OutlineEnds == case.sort = "outline" => Syn!OutlineSettles(case.tree)
\* Refuted: a rename leaves the old name nowhere it can see (query_references).
OldNameGone == case.sort = "rename" => Syn!NameGone(case.old, case.new, case.files, case.reachable)
\* Refuted: the digest and the gate read the same files (splice's grammar).
SameFilesRead == case.sort = "rename" => Syn!GatesAgree(case.files)
=============================================================================
