------------------------------ MODULE ToolGate ------------------------------
(***************************************************************************)
(* From a tool call to its execution: the registry (supra_tool) resolves   *)
(* the name, validates the arguments and the precondition and resolves the *)
(* effect; the gate (supra_permission, over the axes of supra_types) runs, *)
(* refuses or asks; the questions of several calls are asked in one batch  *)
(* and answered by position.  The turn loop that calls them, keeps the     *)
(* files read and executes is not in the repository: what it does is       *)
(* modelled as the comments of both crates ask it to.                      *)
(***************************************************************************)
EXTENDS Naturals, Sequences, FiniteSets

CONSTANTS
  Offers,      \* the tools with their names, in the order startup offers them
  Callers,     \* invokers that call
  Paths,       \* files
  Gists,    \* what arguments may say, as far as an effect depends on it
  Calls,       \* arguments a model may send
  Consents,    \* modes with the rules for a request that it may be decided under
  MaxCalls     \* bound: invocations accepted

VARIABLES
  offered,      \* how many offers have been made
  registered,        \* Registry::tools: from name to tool
  disabled,     \* Registry::disabled
  files_read,   \* SessionFacts
  calls,        \* every Invocation, with its caller and its outcome so far
  batch         \* the calls whose questions are before the user

toolGateVars == <<offered, registered, disabled, files_read, calls, batch>>

Modes == {"Plan", "Ask", "Auto", "Yolo"}
RuleEffects == {"Allow", "Deny"}
Effects == {"Read", "ScratchWork", "RecoverableEdit", "StructuralEdit", "BlindEdit", "OutsideEdit",
            "NetworkPost", "ForcePush", "Remove", "DropData", "EscapeHatch"}
Rank == [Agent |-> 0, Host |-> 1, User |-> 2]
permits(class, invoker) == Rank[class] <= Rank[invoker]

ASSUME ToolGateAssumption ==
  /\ MaxCalls \in Nat /\ Callers \subseteq DOMAIN Rank
  /\ Len(Offers) \in Nat /\ DOMAIN Offers = 1..Len(Offers)
  /\ \A i \in DOMAIN Offers : Offers[i].tool.class \in DOMAIN Rank
       /\ \A gist \in Gists : Offers[i].tool.resolver[gist] \in Effects
  /\ \A call \in Calls : call.path \in Paths /\ call.gist \in Gists
  /\ \A c \in Consents : c.mode \in Modes /\ c.rules \in Seq(RuleEffects)

(***************************************************************************)
(* The axes and the gate                                                   *)
(***************************************************************************)
\* Effect::reversibility: the class of a resolved effect, 0 for R0 to 3 for R3.
reversibility(effect) ==
  CASE effect \in {"Read", "ScratchWork"} -> 0
    [] effect \in {"RecoverableEdit", "StructuralEdit"} -> 1
    [] effect \in {"BlindEdit", "OutsideEdit"} -> 2
    [] effect \in {"NetworkPost", "ForcePush", "Remove", "DropData", "EscapeHatch"} -> 3

damped(r) == IF r = 0 THEN 0 ELSE r - 1

\* Mode::decide, the consent matrix.
consents(mode, r) ==
  CASE mode = "Plan" -> IF r = 0 THEN "Run" ELSE "Refuse"
    [] mode = "Ask"  -> IF r = 0 THEN "Run" ELSE "Ask"
    [] mode = "Auto" -> IF r = 3 THEN "Ask" ELSE "Run"
    [] mode = "Yolo" -> "Run"

\* decide: authority, then consent.
decide(class, invoker, mode, r) ==
  IF ~permits(class, invoker) THEN "Refuse" ELSE consents(mode, r)

\* resolve: any deny, else any allow, else no rule.
resolve(rules) ==
  IF \E i \in DOMAIN rules : rules[i] = "Deny" THEN "Deny"
  ELSE IF rules # <<>> THEN "Allow" ELSE "none"

\* The class the matrix sees: a verified structural edit is damped.
rated(effect) ==
  IF effect = "StructuralEdit" THEN damped(reversibility(effect)) ELSE reversibility(effect)

\* Fault: an allow is looked at before the ceremony.
gate_AllowFirst(request, mode, rules) ==
  IF resolve(rules) = "Deny" \/ ~permits(request.class, request.invoker) THEN "Refuse"
  ELSE IF resolve(rules) = "Allow" THEN "Run"
  ELSE IF request.effect = "EscapeHatch" THEN "Ask"
  ELSE decide(request.class, request.invoker, mode, rated(request.effect))

\* gate: deny, authority, ceremony, allow, matrix.
gate(request, mode, rules) ==
  IF resolve(rules) = "Deny" \/ ~permits(request.class, request.invoker) THEN "Refuse"
  ELSE IF request.effect = "EscapeHatch" THEN "Ask"
  ELSE IF resolve(rules) = "Allow" THEN "Run"
  ELSE decide(request.class, request.invoker, mode, rated(request.effect))

(***************************************************************************)
(* Registry                                                                *)
(***************************************************************************)
\* A schema field has a name, used once, and a description (Schema::build).
SchemaBuilds(fields) ==
  /\ \A i \in DOMAIN fields : fields[i].name # "" /\ fields[i].described
  /\ \A i, j \in DOMAIN fields : fields[i].name = fields[j].name => i = j

\* The one tool every MCP server is called through, and the poorer one in its
\* place should its schema be refused: of every call it is said to edit outside.
TextField(name) == [name |-> name, type |-> "string", required |-> TRUE, described |-> TRUE]
OutsideTool(fields) ==
  [class |-> "Agent", resolver |-> [c \in Gists |-> "OutsideEdit"], precondition |-> FALSE,
   fields |-> fields]
gateway_tool_fallback == OutsideTool(<<TextField("server")>>)
gateway_tool ==
  LET fields == <<TextField("server"), TextField("tool"), TextField("arguments")>> IN
  IF SchemaBuilds(fields) THEN OutsideTool(fields) ELSE gateway_tool_fallback

ToolGateInit ==
  /\ offered = 0 /\ registered = [n \in {} |-> gateway_tool] /\ disabled = {}
  /\ files_read = {} /\ calls = <<>> /\ batch = {}

\* Fault: a second registration of a name replaces the first.
Registered_Last(offer) ==
  [n \in DOMAIN registered \cup {offer.name} |-> IF n = offer.name THEN offer.tool ELSE registered[n]]

\* Tool::register and Registry::register: a schema that does not build is refused,
\* and so is a name that is taken.
Registered(offer) ==
  IF ~SchemaBuilds(offer.tool.fields) \/ offer.name \in DOMAIN registered THEN registered
  ELSE [n \in DOMAIN registered \cup {offer.name} |-> IF n = offer.name THEN offer.tool ELSE registered[n]]

register ==
  /\ offered < Len(Offers)
  /\ offered' = offered + 1 /\ registered' = Registered(Offers[offered + 1])
  /\ UNCHANGED <<disabled, files_read, calls, batch>>

disable(name) ==
  /\ name \in DOMAIN registered
  /\ disabled' = disabled \cup {name}
  /\ UNCHANGED <<offered, registered, files_read, calls, batch>>

\* Schema::validate: what is there has its type, what is required is there, and
\* nothing else is.
validate(fields, given) ==
  /\ \A i \in DOMAIN fields :
       IF fields[i].name \in DOMAIN given THEN given[fields[i].name] = fields[i].type
       ELSE ~fields[i].required
  /\ DOMAIN given \subseteq {fields[i].name : i \in DOMAIN fields}

\* Fault: the precondition is not consulted.
check_precondition_Never(tool, call) == TRUE

\* Precondition::read_before_edit, for a tool that carries it.
check_precondition(tool, call) == tool.precondition => call.path \in files_read

\* The checks of invoke, in order: what the model is told, and "none" when nothing
\* refuses.  Text that is no canonical JSON (a duplicate key, a float) is told from
\* JSON that is no object.
refusal(name, call) ==
  IF name \notin DOMAIN registered THEN "UnknownTool"
  ELSE IF name \in disabled THEN "Disabled"
  ELSE IF call.shape = "uncanonical" THEN "NotCanonical"
  ELSE IF call.shape # "object" THEN "NotAnObject"
  ELSE IF ~validate(registered[name].fields, call.given) THEN "Schema"
  ELSE IF ~check_precondition(registered[name], call) THEN "PreconditionFailed"
  ELSE "none"

\* The Invocation: class and effect are the registered tool's, the effect by what the
\* arguments say.  The caller and the path are what the request will show of it.
Accepted(name, caller, call) ==
  [tool |-> name, class |-> registered[name].class, effect |-> registered[name].resolver[call.gist],
   given |-> call.given, path |-> call.path, invoker |-> caller,
   outcome |-> "new", mode |-> "Plan", rules |-> <<>>, said |-> FALSE]

\* Registry::invoke and invoke_value; a refusal is all the model gets.
invoke(name, caller, call) ==
  /\ refusal(name, call) = "none"
  /\ Len(calls) < MaxCalls
  /\ calls' = Append(calls, Accepted(name, caller, call))
  /\ UNCHANGED <<offered, registered, disabled, files_read, batch>>

(***************************************************************************)
(* The turn loop: one request at a time through the gate, the questions in *)
(* one batch, then dispatch.                                               *)
(***************************************************************************)
\* Under the mode and the rules for this request, as they are now.
AskGate(i, mode, rules) ==
  /\ calls[i].outcome = "new"
  /\ calls' = [calls EXCEPT ![i].outcome = gate(calls[i], mode, rules),
                            ![i].mode = mode, ![i].rules = rules]
  /\ UNCHANGED <<offered, registered, disabled, files_read, batch>>

\* Batch::collect: every question among the outcomes; an empty batch is refused.
collect == {i \in DOMAIN calls : calls[i].outcome = "Ask"}
AskUser ==
  /\ batch = {} /\ collect # {}
  /\ batch' = collect
  /\ UNCHANGED <<offered, registered, disabled, files_read, calls>>

\* The place of a call in the batch.
Place(i) == Cardinality({j \in batch : j <= i})

\* Fault: an item the user did not reach is taken as approved.
Approved_Lenient(answers, k) == k > Len(answers) \/ answers[k]

\* Batch::resolve: an answer is that of its position; a missing one is a no.
Approved(answers, k) == k <= Len(answers) /\ answers[k]

\* The outcomes are paired with the items by position.
Resolve(answers) ==
  /\ batch # {} /\ Len(answers) <= Cardinality(batch)
  /\ calls' = [i \in DOMAIN calls |->
       IF i \notin batch THEN calls[i]
       ELSE [calls[i] EXCEPT !.outcome = IF Approved(answers, Place(i)) THEN "Run" ELSE "Refuse",
                             !.said = Place(i) \in {k \in DOMAIN answers : answers[k]}]]
  /\ batch' = {}
  /\ UNCHANGED <<offered, registered, disabled, files_read>>

\* What may run does; a file is read by it or not.
Dispatch(i) ==
  /\ calls[i].outcome = "Run"
  /\ calls' = [calls EXCEPT ![i].outcome = "done"]
  /\ files_read' = IF calls[i].effect = "Read" THEN files_read \cup {calls[i].path} ELSE files_read
  /\ UNCHANGED <<offered, registered, disabled, batch>>

ToolGateNext ==
  \/ register
  \/ \E name \in DOMAIN registered : disable(name)
  \/ \E name \in DOMAIN registered, caller \in Callers, call \in Calls : invoke(name, caller, call)
  \/ \E i \in DOMAIN calls : Dispatch(i) \/ \E c \in Consents : AskGate(i, c.mode, c.rules)
  \/ AskUser
  \/ \E n \in 0..MaxCalls : \E answers \in [1..n -> BOOLEAN] : Resolve(answers)

ToolGateSpec == ToolGateInit /\ [][ToolGateNext]_toolGateVars

-----------------------------------------------------------------------------
ToolNames == {Offers[i].name : i \in DOMAIN Offers}
Offered == {Offers[i].tool : i \in DOMAIN Offers}
CallRecord ==
  [tool : ToolNames, class : DOMAIN Rank, effect : Effects, given : {c.given : c \in Calls}, path : Paths,
   invoker : Callers, outcome : {"new", "Run", "Ask", "Refuse", "done"}, mode : Modes,
   rules : Seq(RuleEffects), said : BOOLEAN]

ToolGateTypeOK ==
  /\ offered \in 0..Len(Offers)
  /\ DOMAIN registered \subseteq ToolNames /\ \A n \in DOMAIN registered : registered[n] \in Offered
  /\ disabled \subseteq DOMAIN registered /\ files_read \subseteq Paths
  /\ calls \in Seq(CallRecord) /\ Len(calls) <= MaxCalls
  /\ batch \subseteq DOMAIN calls

\* Whatever was asked together, however few answers came back and whatever was
\* registered meanwhile: nothing a rule denies, or a caller lacks the authority its
\* tool's class asks for, ever ran; a guard stepped aside only on the user's yes to
\* that call; an irreversible effect nobody pre-granted ran only on a yes or in Yolo;
\* and in Plan and Ask nothing that leaves a trace ran without one (gate.rs, gate and
\* Batch::resolve; registry.rs, Invocation::class).
ConsentHolds ==
  \A i \in DOMAIN calls :
    LET c == calls[i] IN
    c.outcome = "done" =>
      /\ \A k \in DOMAIN c.rules : c.rules[k] # "Deny"
      /\ Rank[registered[c.tool].class] <= Rank[c.invoker]
      /\ c.effect = "EscapeHatch" => c.said
      /\ reversibility(c.effect) = 3 /\ ~c.said => c.rules # <<>> \/ c.mode = "Yolo"
      /\ c.mode \in {"Plan", "Ask"} /\ ~c.said /\ c.rules = <<>> =>
           c.effect \in {"Read", "ScratchWork", "StructuralEdit"}

\* Every call of a tool that demands it is about a file read earlier in the session
\* (registry.rs, read_before_edit).
EditedWasRead ==
  \A i \in DOMAIN calls : registered[calls[i].tool].precondition => calls[i].path \in files_read

\* A call accepted fits the schema its tool has now, the one the manifest shows: no
\* later registration can make the manifest and the executor disagree (registry.rs,
\* Registry::register and finish_invocation).
ArgumentsFit ==
  \A i \in DOMAIN calls :
    /\ calls[i].tool \in DOMAIN registered
    /\ validate(registered[calls[i].tool].fields, calls[i].given)

\* Nothing needs consent that ran without it, no file is edited unread, and what is
\* called is what is on offer (Registry::invoke, gate, Batch::resolve).
GateKept == ConsentHolds /\ EditedWasRead /\ ArgumentsFit

\* permission.rs:143: "Read-only. Anything with a side effect is refused rather than
\* queued".
PlanIsReadOnly ==
  \A i \in DOMAIN calls :
    LET c == calls[i] IN
    c.outcome = "done" /\ c.mode = "Plan" /\ c.rules = <<>> => reversibility(c.effect) = 0
=============================================================================
