------------------------------- MODULE Hooks --------------------------------
(***************************************************************************)
(* The hook registry (supra_hook): where a command may be attached, how    *)
(* its line becomes a program and its arguments, and what firing a point   *)
(* answers for all the commands attached there.                            *)
(*                                                                         *)
(* A line is a sequence of characters: the two quotes, the backslash and   *)
(* the space by what they do, and others by name.                          *)
(***************************************************************************)
EXTENDS Integers, Sequences, SequencesExt, FiniteSets

CONSTANT Exit     \* of each program: "ok", "42", "bad", or "absent" when it cannot start

(***************************************************************************)
(* Points                                                                  *)
(***************************************************************************)
ALL == <<"session-start", "session-end", "turn-start", "turn-end",
         "before-tool", "after-tool", "before-evict", "after-cache-break">>
is_prefix_safe(point) == point \in {"session-start", "session-end", "turn-start", "turn-end"}
parse(name) == IF name \in ToSet(ALL) THEN name ELSE "UnknownPoint"

(***************************************************************************)
(* Registration                                                            *)
(***************************************************************************)
Blank(line) == ToSet(line) \subseteq {" "}

\* A refused hook leaves the registry as it was.
register(hooks, hook) ==
  IF ~is_prefix_safe(hook.point) \/ Blank(hook.command) THEN hooks ELSE Append(hooks, hook)
register_named(hooks, name, command) ==
  IF parse(name) = "UnknownPoint" THEN hooks ELSE register(hooks, [point |-> parse(name), command |-> command])
at(hooks, point) == SelectSeq(hooks, LAMBDA hook : hook.point = point)

(***************************************************************************)
(* Words                                                                   *)
(***************************************************************************)
Quotes == {"'", "\""}
Scan == [words |-> <<>>, current |-> <<>>, quote |-> "", escaped |-> FALSE]
Word(scan) ==
  IF scan.current = <<>> THEN scan
  ELSE [scan EXCEPT !.words = Append(@, scan.current), !.current = <<>>]

\* One character; a single quote opens its own quote even inside a double one.
Read(scan, c) ==
  CASE scan.escaped -> [scan EXCEPT !.current = Append(@, c), !.escaped = FALSE]
    [] ~scan.escaped /\ c = "\\" /\ scan.quote # "'" -> [scan EXCEPT !.escaped = TRUE]
    [] ~scan.escaped /\ c = scan.quote -> [scan EXCEPT !.quote = ""]
    [] ~scan.escaped /\ c # scan.quote /\ (c = "'" \/ (c = "\"" /\ scan.quote = "")) -> [scan EXCEPT !.quote = c]
    [] ~scan.escaped /\ c = " " /\ scan.quote = "" -> Word(scan)
    [] OTHER -> [scan EXCEPT !.current = Append(@, c)]

shell_words(line) == Word(FoldLeft(Read, Scan, line)).words

(***************************************************************************)
(* Firing                                                                  *)
(***************************************************************************)
Unfired == [outcome |-> "continue", failure |-> <<>>, ran |-> <<>>]

\* One hook: a line of no words is passed over, the first failure is kept.
Run(fired, hook) ==
  LET words == shell_words(hook.command)
      exit == Exit[words[1]] IN
  IF words = <<>> THEN fired
  ELSE [outcome |-> IF exit = "42" THEN "stop" ELSE fired.outcome,
        failure |-> IF exit \in {"bad", "absent"} /\ fired.failure = <<>> THEN <<hook.command>> ELSE fired.failure,
        ran |-> IF exit = "absent" THEN fired.ran ELSE Append(fired.ran, words)]

\* A failure hides the outcome.
fire(hooks, point) ==
  LET fired == FoldLeft(Run, Unfired, at(hooks, point)) IN
  [answer |-> IF fired.failure # <<>> THEN "error" ELSE fired.outcome, blames |-> fired.failure, ran |-> fired.ran]

(***************************************************************************)
(* What the registry promises                                              *)
(***************************************************************************)
\* Three ways to write a word; in double quotes only one without a single quote.
Escaped(word, specials) ==
  FoldLeft(LAMBDA out, c : out \o (IF c \in specials THEN <<"\\", c>> ELSE <<c>>), <<>>, word)
Written(word, style) ==
  CASE style = "bare"   -> Escaped(word, Quotes \cup {"\\", " "})
    [] style = "single" -> <<"'">> \o word \o <<"'">>
    [] style = "double" -> <<"\"">> \o Escaped(word, {"\"", "\\"}) \o <<"\"">>
Writable(word, style) == style # "bare" => "'" \notin ToSet(word)

\* A program gets the words its operator quoted, as they are, two parts written
\* side by side as one word, however many spaces are around them.
WordsArrive(first, second, styles, gap) ==
  LET a == Written(first, styles[1])
      b == Written(second, styles[2]) IN
  Writable(first, styles[1]) /\ Writable(second, styles[2]) =>
    /\ shell_words(a \o <<" ">> \o gap \o b \o gap) = <<first, second>>
    /\ shell_words(gap \o a \o b) = <<first \o second>>

\* Whatever the commands before it did, every command at a point is run once and
\* in its turn, none elsewhere and none inside the prefix; the answer is an error
\* exactly when one failed, and blames the first; and adding a hook behind the
\* others changes nothing of what they did.
HooksObserve(requests) ==
  LET hooks == FoldLeft(LAMBDA h, r : register_named(h, r.name, r.command), <<>>, requests)
      Wordy(i) == shell_words(requests[i].command) # <<>>
      Status(i) == Exit[shell_words(requests[i].command)[1]] IN
  \A p \in 1..Len(ALL) :
    LET here == {i \in 1..Len(requests) : requests[i].name = ALL[p] /\ p <= 4 /\ Wordy(i)}
        failing == {i \in here : Status(i) \in {"bad", "absent"}}
        fired == fire(hooks, ALL[p]) IN
    /\ Len(fired.ran) = Cardinality({i \in here : Status(i) # "absent"})
    /\ \A i \in here : \A j \in here :
         (i < j /\ Status(i) # "absent" /\ Status(j) # "absent") =>
           \E m, n \in 1..Len(fired.ran) : /\ m < n
                                           /\ fired.ran[m] = shell_words(requests[i].command)
                                           /\ fired.ran[n] = shell_words(requests[j].command)
    /\ (fired.answer = "error") = (failing # {})
    /\ failing # {} => fired.blames = <<requests[CHOOSE i \in failing : \A j \in failing : i <= j].command>>
    /\ (fired.answer = "stop") = (failing = {} /\ \E i \in here : Status(i) = "42")
    /\ \A q \in 1..4 :
         IsPrefix(fired.ran, fire(register(hooks, [point |-> ALL[q], command |-> <<"f">>]), ALL[p]).ran)
=============================================================================
