-------------------------------- MODULE Risk --------------------------------
(***************************************************************************)
(* How much scrutiny a task gets (supra_cohort): evidence in bands, the    *)
(* ladder from bands to a tier, what an attempt's outcome does to the next *)
(* one's tier, and the admission under the configured limit.  And what     *)
(* the introspector makes of peers' answers and of a gate's output         *)
(* (supra_introspector cross, gates, finding, bridge).  Then what the task *)
(* has cost, and whether the tier foreseen was the one admitted.           *)
(***************************************************************************)
EXTENDS QuorumTally, Sequences, FiniteSets, FiniteSetsExt, SequencesExt, TLC

CONSTANT TokenLimit      \* u32::MAX
ASSUME RiskAssumption == TokenLimit \in Nat

(***************************************************************************)
(* Evidence                                                                *)
(***************************************************************************)
\* The bands, as 0, 1, 2 from the least to the most evidence.
BlastBand(dependents) == IF dependents <= 1 THEN 0 ELSE IF dependents <= 10 THEN 1 ELSE 2
ChurnBand(commits) == IF commits = 0 THEN 0 ELSE IF commits <= 5 THEN 1 ELSE 2
AnchorBand(anchors) == IF anchors = 0 THEN 0 ELSE IF anchors <= 4 THEN 1 ELSE 2

\* of_paths: a path component is abstracted to what its stem is.
SensitiveStems == {"auth", "crypto", "migrat"}
of_paths(paths) == [sensitive |-> \E i \in 1..Len(paths) : paths[i] \cap SensitiveStems # {},
                    force_full |-> FALSE]

TierMax(rules) == Max({0} \cup {r.tier : r \in {x \in rules : x.holds}})

\* Fault: hot churn is no evidence of its own.
estimate_Cold(s, areas) == TierMax({
  [tier |-> 5, holds |-> areas.force_full \/ s.repeat_failures >= 2],
  [tier |-> 4, holds |-> areas.sensitive \/ s.active_findings > 0],
  [tier |-> 3, holds |-> BlastBand(s.dependents) = 2],
  [tier |-> 2, holds |-> \/ BlastBand(s.dependents) = 1 \/ AnchorBand(s.anchors) = 2
                         \/ ChurnBand(s.commits) = 1 \/ s.reversibility = 3],
  [tier |-> 1, holds |-> s.reversibility >= 1 \/ AnchorBand(s.anchors) = 1]})

\* estimate: every rule that holds sets a floor, the highest floor is the tier.
estimate(s, areas) == TierMax({
  [tier |-> 5, holds |-> areas.force_full \/ s.repeat_failures >= 2],
  [tier |-> 4, holds |-> areas.sensitive \/ s.active_findings > 0],
  [tier |-> 3, holds |-> BlastBand(s.dependents) = 2 \/ ChurnBand(s.commits) = 2],
  [tier |-> 2, holds |-> \/ BlastBand(s.dependents) = 1 \/ AnchorBand(s.anchors) = 2
                         \/ ChurnBand(s.commits) = 1 \/ s.reversibility = 3],
  [tier |-> 1, holds |-> s.reversibility >= 1 \/ AnchorBand(s.anchors) = 1]})

\* A task's words (the command line): a word is a path when it has a slash, and
\* its parts are what its letters and digits spell, a path's components too.
MutatingWords == {"add", "apply", "build", "change", "commit", "create", "delete", "edit", "fix", "implement",
                  "install", "migrate", "modify", "move", "publish", "refactor", "release", "remove", "rename",
                  "replace", "run", "save", "update", "write"}
lowercase(part) == IF part = "Fix" THEN "fix" ELSE part
task_is_mutating(task) == \E i \in 1..Len(task) : \E part \in task[i].parts : lowercase(part) \in MutatingWords

\* estimate_tier: two paths or more are contained blast, a mutating task is R1.
minimal == [dependents |-> 0, commits |-> 0, anchors |-> 0, reversibility |-> 0,
            active_findings |-> 0, repeat_failures |-> 0]
estimate_tier(task) ==
  LET paths == SelectSeq(task, LAMBDA word : word.path) IN
  estimate([minimal EXCEPT !.anchors = IF Len(paths) < 10 THEN Len(paths) ELSE 10,
                           !.dependents = IF Len(paths) > 1 THEN 2 ELSE 0,
                           !.reversibility = IF task_is_mutating(task) THEN 1 ELSE 0],
           of_paths([i \in 1..Len(paths) |-> paths[i].parts]))

(***************************************************************************)
(* Outcomes                                                                *)
(***************************************************************************)
\* TaskProfile: a success clears the failures, a failure counts up to two.
fresh == [repeat_failures |-> 0, last_tier |-> 0]
succeeded(p, tier) == [repeat_failures |-> 0, last_tier |-> tier]
failed(p, tier) == [repeat_failures |-> IF p.repeat_failures >= 2 THEN 2 ELSE p.repeat_failures + 1,
                    last_tier |-> tier]

\* Fault: the tier after the last wraps round.
next_tier_Wraps(why, tier) == (tier + 1) % 6

\* Escalation::next_tier.
next_tier(why, tier) ==
  IF tier >= 4 THEN 5
  ELSE IF why = "finding" THEN tier + 1 ELSE IF tier <= 1 THEN 2 ELSE tier + 1

\* Admission::decide.
decide(tier, lim) ==
  LET granted == admit(tier, lim) IN
  [requested |-> tier, tier |-> granted.tier, k |-> granted.k,
   needed |-> quorum(granted.k), faulty |-> byzantine_tolerance(granted.k), limit |-> lim]

(***************************************************************************)
(* Peers' answers                                                          *)
(***************************************************************************)
\* cross_check: answers as <<agent, text>>; a duplicate agent is an error, fewer
\* than two answers nothing to compare, and one finding when the largest group
\* of equal answers is not all of them.
cross_check(answers) ==
  LET texts == {answers[i][2] : i \in 1..Len(answers)}
      group(t) == Cardinality({i \in 1..Len(answers) : answers[i][2] = t})
      majority == Max({0} \cup {group(t) : t \in texts}) IN
  [says |-> IF \E i, j \in 1..Len(answers) : i # j /\ answers[i][1] = answers[j][1] THEN "duplicate"
            ELSE IF Len(answers) < 2 \/ Cardinality(texts) = 1 THEN "nothing" ELSE "diverge",
   agree |-> majority, of |-> Len(answers), differ |-> Cardinality(texts) - 1]

(***************************************************************************)
(* Findings                                                                *)
(***************************************************************************)
\* A gate's line is a sequence of pieces: marks the parser looks for, and texts
\* by their bytes; a text that is a number by its value.
Marks == {"--> ", ":", ": warning: ", ": error:", "error", "  "}
Bytes == ("--> " :> 4) @@ (":" :> 1) @@ (": warning: " :> 11) @@ (": error:" :> 8) @@ ("error" :> 5)
         @@ ("  " :> 2) @@ ("a.rs" :> 4) @@ ("dir/a.rs" :> 8) @@ ("a/long/path" :> 30) @@ ("words" :> 100)
Numerals == ("7" :> 7) @@ ("1234" :> 1234)
Digits == ("7" :> 1) @@ ("1234" :> 4)
TextBytes(pieces) == FoldLeft(LAMBDA sum, p : sum + (IF p \in DOMAIN Bytes THEN Bytes[p] ELSE Digits[p]), 0, pieces)

Colons == {":", ": warning: ", ": error:"}
\* split(':'), the parts before and after the first colon; trim.
Before(line) == SelectInSeq(line, LAMBDA p : p \in Colons)
Part1(line) == IF Before(line) = 0 THEN line ELSE SubSeq(line, 1, Before(line) - 1)
Rest(line) == IF Before(line) = 0 THEN <<>> ELSE SubSeq(line, Before(line) + 1, Len(line))
trim(pieces) ==
  LET texts == {i \in 1..Len(pieces) : pieces[i] # "  "} IN
  IF texts = {} THEN <<>> ELSE SubSeq(pieces, Min(texts), Max(texts))

\* Where a spelling points: its path, and the number behind it when it is one.
Located(source, spelled) ==
  LET path == trim(Part1(spelled))
      number == Part1(Rest(spelled)) IN
  IF path = <<>> THEN <<>>
  ELSE <<[summary |-> source + 15 + TextBytes(path), path |-> path,
          line |-> IF Len(number) = 1 /\ number[1] \in DOMAIN Numerals THEN number ELSE <<>>]>>

\* The last mark of a level, 0 for none.
ShortAt(line) == Max({0} \cup {i \in 1..Len(line) : line[i] \in {": warning: ", ": error:"}})

\* No finding, or one; its summary by its bytes.
parse_cargo_diagnostic(source, line) ==
  LET trimmed == IF line # <<>> /\ line[1] = "  " THEN Tail(line) ELSE line IN
  CASE trimmed = <<>> -> <<>>
    [] trimmed # <<>> /\ trimmed[1] = "--> " -> Located(source, Tail(trimmed))
    [] trimmed # <<>> /\ trimmed[1] # "--> " /\ ShortAt(trimmed) > 0 ->
         Located(source, SubSeq(trimmed, 1, ShortAt(trimmed) - 1))
    [] trimmed # <<>> /\ trimmed[1] = "error" /\ ShortAt(trimmed) = 0 ->
         IF Len(trimmed) > 1 /\ trimmed[2] \in {":", "  "}
         THEN <<[summary |-> source + 2 + TextBytes(trimmed), path |-> <<>>, line |-> <<>>]>> ELSE <<>>
    [] OTHER -> <<>>

\* evidence_ref, by its bytes: the source, and path and line when it has both.
evidence_ref(source, f) ==
  source + 1 + (IF f.path # <<>> /\ f.line # <<>> THEN TextBytes(f.path) + 1 + TextBytes(f.line) ELSE source)

MAX_REASON_BYTES == 140
MAX_EVIDENCE_BYTES == 40
\* Verdict::new, by what is too long.
NewVerdict(reason, evidence) ==
  CASE reason > MAX_REASON_BYTES -> "ReasonTooLong"
    [] reason <= MAX_REASON_BYTES /\ evidence > MAX_EVIDENCE_BYTES -> "EvidenceRefTooLong"
    [] OTHER -> "ok"

\* append_finding, before the board's own checks; vote_finding, likewise.
append_finding(proposer, validators) ==
  CASE \E i, j \in 1..Len(validators) : i # j /\ validators[i] = validators[j] -> "Malformed"
    [] \A i, j \in 1..Len(validators) : i # j => validators[i] # validators[j] ->
         IF proposer \in ToSet(validators) THEN "NotAProposer" ELSE "publish"
vote_finding(source, f) == IF NewVerdict(f.summary, evidence_ref(source, f)) = "ok" THEN "vote" ELSE "Malformed"

(***************************************************************************)
(* What the sizing promises                                                *)
(***************************************************************************)
Sensible == [dependents : {0, 1, 2, 10, 11}, commits : {0, 1, 5, 6}, anchors : {0, 1, 4, 5},
             reversibility : 0..3, active_findings : 0..1, repeat_failures : 0..2]

\* More evidence never buys less scrutiny: raising any one signal, or adding a
\* flag, never lowers the tier; an outcome that escalates climbs until the
\* highest tier and stays there; and whatever the limit grants, a cohort that
\* reached quorum after the escalation had at least as many yes votes to find.
\* A second failure gets the whole cohort, unless a success came in between.
ScrutinyMonotone(s, areas) ==
  /\ \A field \in DOMAIN s : \A v \in {t[field] : t \in Sensible} :
       v > s[field] => estimate([s EXCEPT ![field] = v], areas) >= estimate(s, areas)
  /\ \A flag \in DOMAIN areas : estimate(s, [areas EXCEPT ![flag] = TRUE]) >= estimate(s, areas)
  /\ \A why \in {"unreachable", "mismatch", "finding"} :
       LET t == estimate(s, areas) IN
       /\ IF t = 5 THEN next_tier(why, t) = 5 ELSE next_tier(why, t) > t
       /\ \A lim \in {1, 3, 16, 80} : decide(next_tier(why, t), lim).needed >= decide(t, lim).needed
  /\ LET twice == failed(failed(fresh, 0), 0) IN
     /\ estimate([s EXCEPT !.repeat_failures = twice.repeat_failures], areas) = 5
     /\ failed(succeeded(twice, 5), 0) = failed(fresh, 0)

\* Saying more of a task never gets it less scrutiny: no word takes any away, in
\* whatever order they come, and a word that changes something, or one that names
\* a sensitive path, is never read at the tier of a question.
TaskSized(task) ==
  /\ estimate_tier(Tail(task)) <= estimate_tier(task)
  /\ estimate_tier(Front(task)) <= estimate_tier(task)
  /\ estimate_tier(Reverse(task)) = estimate_tier(task)
  /\ task_is_mutating(task) => estimate_tier(task) >= 1
  /\ (\E i \in 1..Len(task) : task[i].path /\ task[i].parts \cap SensitiveStems # {}) => estimate_tier(task) >= 4

\* Both spellings of a diagnostic give one finding at its path and line, whatever
\* its message says; and a peer can vote on a located finding whose reference is
\* within budget, however long the message was.
FindingPlaced(path, number, level, message, source) ==
  LET arrow == parse_cargo_diagnostic(source, <<"  ", "--> ", path, ":", number, ":", "7">>)
      short == parse_cargo_diagnostic(source, <<path, ":", number, ":", "7", level>> \o message) IN
  /\ arrow = short /\ Len(arrow) = 1
  /\ arrow[1].path = <<path>> /\ arrow[1].line = <<number>>
  /\ evidence_ref(source, arrow[1]) <= MAX_EVIDENCE_BYTES => vote_finding(source, arrow[1]) = "vote"

\* Peers who agree raise nothing and peers who differ raise one finding, in
\* whatever order they answered; the side it counts as agreeing is no smaller
\* than an even split; and answers that are votes of distinct peers can be put
\* to the board by a peer who is none of them.
AnswersCompared(answers) ==
  LET found == cross_check(answers)
      peers == [i \in 1..Len(answers) |-> answers[i][1]]
      texts == {answers[i][2] : i \in 1..Len(answers)} IN
  /\ cross_check(Reverse(answers)) = found
  /\ append_finding(0, peers) = IF found.says = "duplicate" THEN "Malformed" ELSE "publish"
  /\ found.says # "duplicate" => (found.says = "nothing") = (Cardinality(texts) <= 1)
  /\ found.says = "diverge" => found.agree * Cardinality(texts) >= found.of

(***************************************************************************)
(* What a completion cost: the usage read from a provider's event          *)
(* (supra_llm parse_usage), the event published of it (supra_cli           *)
(* emit_usage), its price and the economy gate over many measured turns    *)
(* (supra_eval).  A usage object is a function from the field names it     *)
(* has; a value that is no unsigned integer is -1.  The fractions of the   *)
(* report are kept as numerator and denominator.                           *)
(***************************************************************************)
(***************************************************************************)
(* Usage                                                                   *)
(***************************************************************************)
NoUsage == [input |-> -1, output |-> -1, cached |-> -1]

\* The first of the spellings the object has, and -1 when it has none.
Spelled(object, names) ==
  LET has == SelectSeq(names, LAMBDA n : n \in DOMAIN object) IN
  IF has = <<>> THEN -1 ELSE object[has[1]]

parse_usage(object) ==
  LET input == Spelled(object, <<"input_tokens", "prompt_tokens", "promptTokenCount">>)
      output == Spelled(object, <<"output_tokens", "completion_tokens", "candidatesTokenCount">>)
      cached == Spelled(object, <<"cache_read_input_tokens", "cachedContentTokenCount", "cached_tokens">>) IN
  IF input < 0 \/ output < 0 THEN NoUsage
  ELSE [input |-> input, output |-> output, cached |-> IF cached < 0 THEN 0 ELSE cached]

Narrow(n) == IF n > TokenLimit THEN TokenLimit ELSE n
saturating_sub(a, b) == IF a > b THEN a - b ELSE 0

(***************************************************************************)
(* The price, in mills.  A million tokens of input or output cost 3000,    *)
(* and a cached read a tenth; so ten thousand tenths of a token cost 3.    *)
(***************************************************************************)
Tenths(input, cached, output) == cached + 10 * (saturating_sub(input, cached) + output)

\* Fault: a cached token is charged as an uncached one too.
estimate_mills_Twice(input, cached, output) ==
  LET price == 3 * (cached + 10 * (input + output)) IN
  {m \in {price \div 10000, price \div 10000 + 1} : 10000 * m - price \in -5000..5000}

\* The nearest mill; at a tie either, since the sum is computed in binary.
estimate_mills(input, cached, output) ==
  LET price == 3 * Tenths(input, cached, output) IN
  {m \in {price \div 10000, price \div 10000 + 1} : 10000 * m - price \in -5000..5000}

\* The UsageReported events one completion's usage may give.
emit_usage(usage) ==
  LET told == IF usage = NoUsage THEN [input |-> 0, output |-> 0, cached |-> 0] ELSE usage
      input == Narrow(told.input)
      output == Narrow(told.output)
      cached == Narrow(told.cached) IN
  {[cached_read |-> cached, cached_write |-> 0, uncached |-> saturating_sub(input, cached),
    output |-> output, cost |-> 1000 * mills] : mills \in estimate_mills(input, cached, output)}

\* measure and measure_reported: the provider's count of the input is used when
\* there is one, and the caller's otherwise.
measure(predicted, admitted, usage, input) ==
  LET output == IF usage = NoUsage THEN 0 ELSE Narrow(usage.output)
      cached == IF usage = NoUsage THEN 0 ELSE Narrow(usage.cached) IN
  {[predicted |-> predicted, admitted |-> admitted, input |-> input, output |-> output,
    cache_hit |-> cached > 0, mills |-> m] : m \in estimate_mills(input, cached, output)}
measure_reported(predicted, admitted, usage, estimated) ==
  measure(predicted, admitted, usage, IF usage = NoUsage THEN estimated ELSE Narrow(usage.input))

\* The usage each provider reports of a prompt of so many tokens, so many of them
\* read from its cache.
Providers == {"anthropic", "openai", "google"}
Reported(provider, prompt, cached, output) ==
  CASE provider = "anthropic" -> [input_tokens |-> prompt - cached, output_tokens |-> output,
                                  cache_read_input_tokens |-> cached]
    [] provider = "openai" -> [prompt_tokens |-> prompt, completion_tokens |-> output, cached_tokens |-> cached]
    [] provider = "google" -> IF cached = 0
                              THEN [promptTokenCount |-> prompt, candidatesTokenCount |-> output]
                              ELSE [promptTokenCount |-> prompt, candidatesTokenCount |-> output,
                                    cachedContentTokenCount |-> cached]

\* What is published of a completion is what the measured turn says; a longer
\* prompt never costs less, and a cached one never more.  Where the provider's
\* count of the prompt includes the cached part, as all but Anthropic's does, it
\* accounts for every token of the prompt once and costs within half a mill of
\* its price (parse_usage, emit_usage, measure_reported).
UsagePriced(provider, prompt, cached, output, more) ==
  LET usage == parse_usage(Reported(provider, prompt, cached, output))
      longer == parse_usage(Reported(provider, prompt + more, cached, output))
      cold == parse_usage(Reported(provider, prompt, 0, output)) IN
  \A event \in emit_usage(usage) :
    /\ event.cached_read = cached /\ event.output = output
    /\ provider # "anthropic" =>
         /\ event.cached_read + event.uncached = prompt
         /\ 10 * event.cost - 3 * (cached + 10 * (prompt - cached + output)) \in -5000..5000
    /\ \E m \in measure_reported(0, 0, usage, 0) : 1000 * m.mills = event.cost
    /\ more > 0 => \E e \in emit_usage(longer) : e.cost >= event.cost
    /\ \E e \in emit_usage(cold) : e.cost >= event.cost

(***************************************************************************)
(* The economy gate                                                        *)
(***************************************************************************)
NoReport == [turns |-> 0, hits |-> 0, cache_hits |-> 0, mills |-> 0]
from_measurements(turns) ==
  [turns |-> Len(turns),
   hits |-> Len(SelectSeq(turns, LAMBDA t : t.predicted = t.admitted)),
   cache_hits |-> Len(SelectSeq(turns, LAMBDA t : t.cache_hit)),
   mills |-> FoldLeft(LAMBDA sum, t : sum + t.mills, 0, turns)]

\* Fault: a cost over the budget on some turns is forgiven by accuracy.
passes_Either(report, percent, mills) ==
  report # NoReport /\ (100 * report.hits >= percent * report.turns \/ report.mills <= mills * report.turns)

\* No report at all does not pass.
passes(report, percent, mills) ==
  report # NoReport /\ 100 * report.hits >= percent * report.turns /\ report.mills <= mills * report.turns

\* The tier table agrees with itself at every limit.
offline_shape_check ==
  \A tier \in Tier :
    /\ \A k \in k_low(tier)..k_high(tier) : Containing(k) = {tier}
    /\ \A limit \in 1..80 :
         LET given == admit(tier, limit) IN Containing(given.k) = {given.tier}

\* The gate cannot be passed by the way a session is cut up: two parts that pass
\* pass together, and two that fail for the same reason fail together; nothing
\* passes on no turns (from_measurements, passes).
GateComposes(first, second, percent, mills) ==
  LET ok(turns) == passes(from_measurements(turns), percent, mills)
      dear(turns) == turns # <<>> /\ from_measurements(turns).mills > mills * Len(turns) IN
  /\ ~ok(<<>>)
  /\ ok(first) /\ ok(second) => ok(first \o second)
  /\ dear(first) /\ dear(second) => ~ok(first \o second)
=============================================================================
