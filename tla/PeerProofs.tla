------------------------------ MODULE PeerProofs -----------------------------
(***************************************************************************)
(* Theorems about the components that deal with something outside: the     *)
(* gate before a tool runs, the reading of a provider's answer, the        *)
(* clients of MCP, language and debug servers, the processes started and   *)
(* the text they print, the project's gate, plugins and skills.            *)
(***************************************************************************)
EXTENDS MCPeers, SequenceTheorems, FiniteSetTheorems, WellFoundedInduction, TLAPS

(***************************************************************************)
(* The gate before a tool runs (ToolGate)                                  *)
(***************************************************************************)
\* What the gate said of a call, and the user after it, is still what its outcome
\* says: a question waits unanswered, and what ran was let through by the gate or, when
\* the gate had asked, by the user (gate, Batch::resolve).
CallGated(c) ==
  /\ c.outcome \in {"new", "Ask"} => ~c.said
  /\ c.outcome = "Ask" => gate(c, c.mode, c.rules) = "Ask"
  /\ c.outcome \in {"Run", "done"} => gate(c, c.mode, c.rules) = IF c.said THEN "Ask" ELSE "Run"

\* What was accepted of a call is still so of its tool (Registry::invoke).
CallFits(c) ==
  /\ c.tool \in DOMAIN registered
  /\ c.class = registered[c.tool].class
  /\ validate(registered[c.tool].fields, c.given)
  /\ registered[c.tool].precondition => c.path \in files_read

ToolGateInv ==
  /\ ToolGateTypeOK
  /\ \A i \in DOMAIN calls : CallFits(calls[i]) /\ CallGated(calls[i])
  /\ \A i \in batch : calls[i].outcome = "Ask"

\* The gate answers Run, Ask or Refuse of any request it may be handed (gate).
LEMMA GateAnswers ==
  ASSUME NEW c \in CallRecord, NEW mode \in Modes, NEW rules
  PROVE  gate(c, mode, rules) \in {"Run", "Ask", "Refuse"}
<1>1. c.effect \in Effects
  BY DEF CallRecord
<1>2. reversibility(c.effect) \in 0..3
  BY <1>1 DEF Effects, reversibility
<1>3. rated(c.effect) \in 0..3
  BY <1>2 DEF rated, damped
<1> QED
  BY <1>3 DEF gate, decide, consents, Modes

\* What the gate lets through without asking: no rule denies it, its caller has the
\* authority, it is no escape hatch, and an irreversible effect, or in Plan and Ask a
\* trace, takes an allow or Yolo (gate).
LEMMA GateRuns ==
  ASSUME NEW c \in CallRecord, NEW mode \in Modes, NEW rules \in Seq(RuleEffects),
         gate(c, mode, rules) = "Run"
  PROVE  /\ \A k \in DOMAIN rules : rules[k] # "Deny"
         /\ permits(c.class, c.invoker)
         /\ c.effect # "EscapeHatch"
         /\ reversibility(c.effect) = 3 => rules # <<>> \/ mode = "Yolo"
         /\ mode \in {"Plan", "Ask"} /\ rules = <<>> =>
              c.effect \in {"Read", "ScratchWork", "StructuralEdit"}
<1>1. c.effect \in Effects
  BY DEF CallRecord
<1>2. resolve(rules) # "Deny" /\ permits(c.class, c.invoker) /\ c.effect # "EscapeHatch"
  BY DEF gate
<1>3. \A k \in DOMAIN rules : rules[k] # "Deny"
  BY <1>2 DEF resolve
<1>4. rules = <<>> => consents(mode, rated(c.effect)) = "Run"
  <2> SUFFICES ASSUME rules = <<>> PROVE consents(mode, rated(c.effect)) = "Run"
    OBVIOUS
  <2>1. resolve(rules) # "Allow"
    BY DEF resolve
  <2> QED
    BY <1>2, <2>1 DEF gate, decide
<1>5. rules = <<>> /\ reversibility(c.effect) = 3 => mode = "Yolo"
  <2> SUFFICES ASSUME rules = <<>>, reversibility(c.effect) = 3 PROVE mode = "Yolo"
    OBVIOUS
  <2>1. rated(c.effect) = 3
    BY <1>1 DEF rated, reversibility, Effects
  <2> QED
    BY <1>4, <2>1 DEF consents, Modes
<1>6. mode \in {"Plan", "Ask"} /\ rules = <<>> => c.effect \in {"Read", "ScratchWork", "StructuralEdit"}
  <2> SUFFICES ASSUME mode \in {"Plan", "Ask"}, rules = <<>>
               PROVE  c.effect \in {"Read", "ScratchWork", "StructuralEdit"}
    OBVIOUS
  <2>1. rated(c.effect) = 0
    BY <1>4 DEF consents
  <2> QED
    BY <2>1, <1>1 DEF rated, reversibility, Effects
<1> QED
  BY <1>2, <1>3, <1>5, <1>6

\* What the gate asks of: no rule denies it and its caller has the authority (gate).
LEMMA GateAsks ==
  ASSUME NEW c \in CallRecord, NEW mode, NEW rules \in Seq(RuleEffects),
         gate(c, mode, rules) = "Ask"
  PROVE  (\A k \in DOMAIN rules : rules[k] # "Deny") /\ permits(c.class, c.invoker)
BY DEF gate, resolve

\* The invariant is stronger than what the runs check.
LEMMA ToolGateInvKept ==
  ASSUME ToolGateInv
  PROVE  GateKept
<1>1. ArgumentsFit /\ EditedWasRead
  BY DEF ToolGateInv, CallFits, ArgumentsFit, EditedWasRead
<1>2. ConsentHolds
  <2> SUFFICES ASSUME NEW i \in DOMAIN calls, calls[i].outcome = "done"
               PROVE  LET c == calls[i] IN
                      /\ \A k \in DOMAIN c.rules : c.rules[k] # "Deny"
                      /\ Rank[registered[c.tool].class] <= Rank[c.invoker]
                      /\ c.effect = "EscapeHatch" => c.said
                      /\ reversibility(c.effect) = 3 /\ ~c.said => c.rules # <<>> \/ c.mode = "Yolo"
                      /\ c.mode \in {"Plan", "Ask"} /\ ~c.said /\ c.rules = <<>> =>
                           c.effect \in {"Read", "ScratchWork", "StructuralEdit"}
    BY DEF ConsentHolds
  <2> DEFINE c == calls[i]
  <2>1. c \in CallRecord
    BY DEF ToolGateInv, ToolGateTypeOK
  <2>2. c.mode \in Modes /\ c.rules \in Seq(RuleEffects) /\ c.said \in BOOLEAN
    BY <2>1 DEF CallRecord
  <2>3. c.class = registered[c.tool].class
    BY DEF ToolGateInv, CallFits
  <2>4. gate(c, c.mode, c.rules) = IF c.said THEN "Ask" ELSE "Run"
    BY DEF ToolGateInv, CallGated
  <2>5. CASE c.said
    <3>1. gate(c, c.mode, c.rules) = "Ask"
      BY <2>4, <2>5
    <3>2. (\A k \in DOMAIN c.rules : c.rules[k] # "Deny") /\ permits(c.class, c.invoker)
      BY <2>1, <2>2, <3>1, GateAsks
    <3> QED
      BY <2>3, <2>5, <3>2 DEF permits
  <2>6. CASE ~c.said
    <3>1. gate(c, c.mode, c.rules) = "Run"
      BY <2>4, <2>6
    <3>2. /\ \A k \in DOMAIN c.rules : c.rules[k] # "Deny"
          /\ permits(c.class, c.invoker)
          /\ c.effect # "EscapeHatch"
          /\ reversibility(c.effect) = 3 => c.rules # <<>> \/ c.mode = "Yolo"
          /\ c.mode \in {"Plan", "Ask"} /\ c.rules = <<>> =>
               c.effect \in {"Read", "ScratchWork", "StructuralEdit"}
      BY <2>1, <2>2, <3>1, GateRuns
    <3> QED
      BY <2>3, <3>2 DEF permits
  <2> QED
    BY <2>5, <2>6
<1> QED
  BY <1>1, <1>2 DEF GateKept

\* Registering never takes a name from its tool (Registry::register).
LEMMA RegisteredKept ==
  ASSUME NEW offer
  PROVE  /\ DOMAIN registered \subseteq DOMAIN Registered(offer)
         /\ \A n \in DOMAIN registered : Registered(offer)[n] = registered[n]
BY DEF Registered

\* Nothing registered and nothing called.
LEMMA ToolGateBegins == ToolGateInit => ToolGateInv
<1> SUFFICES ASSUME ToolGateInit PROVE ToolGateInv
  OBVIOUS
<1>1. calls = <<>> /\ batch = {} /\ DOMAIN registered = {} /\ disabled = {} /\ files_read = {} /\ offered = 0
  BY DEF ToolGateInit
<1>2. calls \in Seq(CallRecord) /\ Len(calls) = 0 /\ DOMAIN calls = {}
  BY <1>1
<1>3. ToolGateTypeOK
  BY <1>1, <1>2, ToolGateAssumption DEF ToolGateTypeOK
<1> QED
  BY <1>1, <1>2, <1>3 DEF ToolGateInv

\* The gate's invariant is inductive.
LEMMA ToolGateKept == ToolGateInv /\ [ToolGateNext]_toolGateVars => ToolGateInv'
<1> SUFFICES ASSUME ToolGateInv, [ToolGateNext]_toolGateVars PROVE ToolGateInv'
  OBVIOUS
<1> USE DEF ToolGateInv
<1>t. /\ calls \in Seq(CallRecord) /\ Len(calls) <= MaxCalls /\ DOMAIN calls = 1..Len(calls)
      /\ batch \subseteq DOMAIN calls
      /\ \A i \in DOMAIN calls : calls[i] \in CallRecord
  BY DEF ToolGateTypeOK
<1>1. CASE register
  <2>1. offered' = offered + 1 /\ offered < Len(Offers)
    BY <1>1 DEF register
  <2>2. offered + 1 \in DOMAIN Offers
    BY <2>1, ToolGateAssumption DEF ToolGateTypeOK
  <2> DEFINE offer == Offers[offered + 1]
  <2>3. registered' = Registered(offer) /\ UNCHANGED <<disabled, files_read, calls, batch>>
    BY <1>1 DEF register
  <2>4. offer.name \in ToolNames /\ offer.tool \in Offered
    BY <2>2 DEF ToolNames, Offered
  <2> HIDE DEF offer
  <2>5. DOMAIN registered' \subseteq ToolNames /\ \A n \in DOMAIN registered' : registered'[n] \in Offered
    BY <2>3, <2>4 DEF Registered, ToolGateTypeOK
  <2>6. /\ DOMAIN registered \subseteq DOMAIN registered'
        /\ \A n \in DOMAIN registered : registered'[n] = registered[n]
    BY <2>3, RegisteredKept
  <2>7. offered' \in 0..Len(Offers)
    BY <2>1, ToolGateAssumption DEF ToolGateTypeOK
  <2>8. ToolGateTypeOK'
    BY <2>3, <2>5, <2>6, <2>7 DEF ToolGateTypeOK
  <2>9. \A i \in DOMAIN calls' : CallFits(calls[i])' /\ CallGated(calls[i])'
    <3> SUFFICES ASSUME NEW i \in DOMAIN calls PROVE CallFits(calls[i])' /\ CallGated(calls[i])'
      BY <2>3
    <3>1. CallFits(calls[i]) /\ CallGated(calls[i])
      OBVIOUS
    <3>2. calls[i].tool \in DOMAIN registered /\ registered'[calls[i].tool] = registered[calls[i].tool]
      BY <3>1, <2>6 DEF CallFits
    <3>3. calls' = calls /\ files_read' = files_read
      BY <2>3
    <3>4. CallFits(calls[i])'
      BY <3>1, <3>2, <3>3, <2>6 DEF CallFits
    <3> QED
      BY <3>1, <3>3, <3>4 DEF CallGated
  <2> QED
    BY <2>3, <2>8, <2>9
<1>2. ASSUME NEW name \in DOMAIN registered, disable(name) PROVE ToolGateInv'
  <2>1. disabled' = disabled \cup {name} /\ UNCHANGED <<offered, registered, files_read, calls, batch>>
    BY <1>2 DEF disable
  <2>2. ToolGateTypeOK'
    BY <2>1 DEF ToolGateTypeOK
  <2> QED
    BY <2>1, <2>2 DEF CallFits, CallGated
<1>3. ASSUME NEW name \in DOMAIN registered, NEW who \in Callers, NEW wanted \in Calls,
             invoke(name, who, wanted)
      PROVE  ToolGateInv'
  <2> DEFINE c == Accepted(name, who, wanted)
  <2>1. /\ calls' = Append(calls, c) /\ Len(calls) < MaxCalls
        /\ UNCHANGED <<offered, registered, disabled, files_read, batch>>
    BY <1>3 DEF invoke
  <2>2. validate(registered[name].fields, wanted.given) /\ check_precondition(registered[name], wanted)
    BY <1>3 DEF invoke, refusal
  <2>3. registered[name] \in Offered /\ name \in ToolNames
    BY DEF ToolGateTypeOK
  <2>4. registered[name].class \in DOMAIN Rank /\ registered[name].resolver[wanted.gist] \in Effects
    BY <2>3, ToolGateAssumption DEF Offered
  <2>5. wanted.path \in Paths /\ wanted.given \in {x.given : x \in Calls}
    BY ToolGateAssumption
  <2>6. c \in CallRecord
    <3>1. <<>> \in Seq(RuleEffects)
      OBVIOUS
    <3> QED
      BY <2>3, <2>4, <2>5, <3>1 DEF Accepted, CallRecord, Modes
  <2>7. CallFits(c) /\ CallGated(c)
    BY <2>2 DEF Accepted, CallFits, CallGated, check_precondition
  <2> HIDE DEF c
  <2>8. /\ calls' \in Seq(CallRecord) /\ Len(calls') = Len(calls) + 1
        /\ DOMAIN calls' = 1..(Len(calls) + 1)
        /\ calls'[Len(calls) + 1] = c
        /\ \A i \in DOMAIN calls : calls'[i] = calls[i]
    BY <1>t, <2>1, <2>6, AppendProperties
  <2>9. ToolGateTypeOK'
    <3>1. Len(calls') <= MaxCalls
      BY <2>1, <2>8, <1>t, ToolGateAssumption
    <3> QED
      BY <2>1, <2>8, <3>1, <1>t DEF ToolGateTypeOK
  <2>10. \A i \in DOMAIN calls' : i \in DOMAIN calls \/ i = Len(calls) + 1
    BY <2>8, <1>t
  <2>11. \A i \in DOMAIN calls' : CallFits(calls'[i]) /\ CallGated(calls'[i])
    BY <2>7, <2>8, <2>10
  <2>12. \A i \in DOMAIN calls' : CallFits(calls[i])' /\ CallGated(calls[i])'
    BY <2>1, <2>11 DEF CallFits, CallGated
  <2>13. \A i \in batch : calls'[i].outcome = "Ask"
    BY <2>8, <1>t
  <2> QED
    BY <2>1, <2>9, <2>12, <2>13
<1>4. ASSUME NEW i \in DOMAIN calls, Dispatch(i) PROVE ToolGateInv'
  <2> DEFINE c == [calls[i] EXCEPT !.outcome = "done"]
  <2>1. /\ calls[i].outcome = "Run" /\ calls' = [calls EXCEPT ![i] = c]
        /\ files_read' = IF calls[i].effect = "Read" THEN files_read \cup {calls[i].path} ELSE files_read
        /\ UNCHANGED <<offered, registered, disabled, batch>>
    BY <1>4 DEF Dispatch
  <2>2. calls[i] \in CallRecord /\ CallFits(calls[i]) /\ CallGated(calls[i])
    BY <1>t
  <2>3. /\ c \in CallRecord /\ c.outcome = "done"
        /\ c.tool = calls[i].tool /\ c.class = calls[i].class /\ c.effect = calls[i].effect
        /\ c.given = calls[i].given /\ c.path = calls[i].path /\ c.invoker = calls[i].invoker
        /\ c.mode = calls[i].mode /\ c.rules = calls[i].rules /\ c.said = calls[i].said
    BY <2>2 DEF CallRecord
  <2> HIDE DEF c
  <2>4. gate(c, c.mode, c.rules) = gate(calls[i], calls[i].mode, calls[i].rules)
    BY <2>3 DEF gate, decide
  <2>5. CallFits(c) /\ CallGated(c)
    BY <2>1, <2>2, <2>3, <2>4 DEF CallFits, CallGated
  <2>6. files_read \subseteq files_read' /\ files_read' \subseteq Paths
    <3>1. calls[i].path \in Paths
      BY <2>2 DEF CallRecord
    <3> QED
      BY <2>1, <3>1 DEF ToolGateTypeOK
  <2>7. /\ calls' \in Seq(CallRecord) /\ Len(calls') = Len(calls) /\ DOMAIN calls' = DOMAIN calls
        /\ calls'[i] = c /\ \A j \in DOMAIN calls : j # i => calls'[j] = calls[j]
    BY <1>t, <2>1, <2>3
  <2>8. ToolGateTypeOK'
    BY <2>1, <2>6, <2>7 DEF ToolGateTypeOK
  <2>9. \A j \in DOMAIN calls' : CallFits(calls'[j]) /\ CallGated(calls'[j])
    BY <2>5, <2>7
  <2>10. \A j \in DOMAIN calls' : CallFits(calls[j])' /\ CallGated(calls[j])'
    BY <2>1, <2>6, <2>9 DEF CallFits, CallGated
  <2>11. \A j \in batch : calls'[j].outcome = "Ask"
    BY <2>1, <2>7, <1>t
  <2> QED
    BY <2>1, <2>8, <2>10, <2>11
<1>5. ASSUME NEW i \in DOMAIN calls, NEW k \in Consents, AskGate(i, k.mode, k.rules) PROVE ToolGateInv'
  <2> DEFINE said == gate(calls[i], k.mode, k.rules)
             c == [calls[i] EXCEPT !.outcome = said, !.mode = k.mode, !.rules = k.rules]
  <2>1. /\ calls[i].outcome = "new" /\ calls' = [calls EXCEPT ![i] = c]
        /\ UNCHANGED <<offered, registered, disabled, files_read, batch>>
    BY <1>5 DEF AskGate
  <2>2. calls[i] \in CallRecord /\ CallFits(calls[i]) /\ CallGated(calls[i])
    BY <1>t
  <2>3. k.mode \in Modes /\ k.rules \in Seq(RuleEffects)
    BY ToolGateAssumption
  <2>4. said \in {"Run", "Ask", "Refuse"}
    BY <2>2, <2>3, GateAnswers
  <2>5. /\ c \in CallRecord /\ c.outcome = said
        /\ c.tool = calls[i].tool /\ c.class = calls[i].class /\ c.effect = calls[i].effect
        /\ c.given = calls[i].given /\ c.path = calls[i].path /\ c.invoker = calls[i].invoker
        /\ c.mode = k.mode /\ c.rules = k.rules /\ c.said = calls[i].said
    <3> HIDE DEF said
    <3> QED
      BY <2>2, <2>3, <2>4 DEF CallRecord
  <2> HIDE DEF c
  <2>6. gate(c, c.mode, c.rules) = said
    BY <2>5 DEF gate, decide
  <2> HIDE DEF said
  <2>7. CallFits(c) /\ CallGated(c)
    BY <2>1, <2>2, <2>4, <2>5, <2>6 DEF CallFits, CallGated
  <2>8. /\ calls' \in Seq(CallRecord) /\ Len(calls') = Len(calls) /\ DOMAIN calls' = DOMAIN calls
        /\ calls'[i] = c /\ \A j \in DOMAIN calls : j # i => calls'[j] = calls[j]
    BY <1>t, <2>1, <2>5
  <2>9. ToolGateTypeOK'
    BY <2>1, <2>8 DEF ToolGateTypeOK
  <2>10. \A j \in DOMAIN calls' : CallFits(calls'[j]) /\ CallGated(calls'[j])
    BY <2>7, <2>8
  <2>11. \A j \in DOMAIN calls' : CallFits(calls[j])' /\ CallGated(calls[j])'
    BY <2>1, <2>10 DEF CallFits, CallGated
  <2>12. \A j \in batch : calls'[j].outcome = "Ask"
    BY <2>1, <2>8, <1>t
  <2> QED
    BY <2>1, <2>9, <2>11, <2>12
<1>6. CASE AskUser
  <2>1. batch' = collect /\ UNCHANGED <<offered, registered, disabled, files_read, calls>>
    BY <1>6 DEF AskUser
  <2>2. ToolGateTypeOK'
    BY <2>1 DEF ToolGateTypeOK, collect
  <2> QED
    BY <2>1, <2>2 DEF CallFits, CallGated, collect
<1>7. ASSUME NEW n \in 0..MaxCalls, NEW answers \in [1..n -> BOOLEAN], Resolve(answers) PROVE ToolGateInv'
  <2> DEFINE Told(i) == IF Approved(answers, Place(i)) THEN "Run" ELSE "Refuse"
             Yes(i) == Place(i) \in {k \in DOMAIN answers : answers[k]}
             c(i) == [calls[i] EXCEPT !.outcome = Told(i), !.said = Yes(i)]
  <2>1. /\ calls' = [i \in DOMAIN calls |-> IF i \notin batch THEN calls[i] ELSE c(i)]
        /\ batch' = {} /\ UNCHANGED <<offered, registered, disabled, files_read>>
    BY <1>7 DEF Resolve
  <2>2. \A i \in batch : Told(i) \in {"Run", "Refuse"} /\ Yes(i) \in BOOLEAN /\ (Told(i) = "Run" => Yes(i))
    <3> SUFFICES ASSUME NEW i \in batch, Told(i) = "Run" PROVE Yes(i)
      OBVIOUS
    <3>1. Approved(answers, Place(i))
      OBVIOUS
    <3>2. Place(i) \in Nat \ {0}
      <4>1. IsFiniteSet(DOMAIN calls)
        BY <1>t, FS_Interval
      <4>2. IsFiniteSet({j \in batch : j <= i})
        BY <4>1, <1>t, FS_Subset
      <4>3. i \in {j \in batch : j <= i}
        BY <1>t
      <4> QED
        BY <4>2, <4>3, FS_CardinalityType, FS_EmptySet DEF Place
    <3> QED
      BY <1>7, <3>1, <3>2 DEF Approved
  <2>3. \A i \in batch :
          /\ c(i) \in CallRecord /\ c(i).outcome = Told(i) /\ c(i).said = Yes(i)
          /\ c(i).tool = calls[i].tool /\ c(i).class = calls[i].class /\ c(i).effect = calls[i].effect
          /\ c(i).given = calls[i].given /\ c(i).path = calls[i].path /\ c(i).invoker = calls[i].invoker
          /\ c(i).mode = calls[i].mode /\ c(i).rules = calls[i].rules
    <3> SUFFICES ASSUME NEW i \in batch
                 PROVE  /\ c(i) \in CallRecord /\ c(i).outcome = Told(i) /\ c(i).said = Yes(i)
                        /\ c(i).tool = calls[i].tool /\ c(i).class = calls[i].class
                        /\ c(i).effect = calls[i].effect /\ c(i).given = calls[i].given
                        /\ c(i).path = calls[i].path /\ c(i).invoker = calls[i].invoker
                        /\ c(i).mode = calls[i].mode /\ c(i).rules = calls[i].rules
      OBVIOUS
    <3>1. calls[i] \in CallRecord
      BY <1>t
    <3>2. Told(i) \in {"Run", "Refuse"} /\ Yes(i) \in BOOLEAN
      BY <2>2
    <3> HIDE DEF Told, Yes
    <3> QED
      BY <3>1, <3>2 DEF CallRecord
  <2> HIDE DEF c
  <2>4. \A i \in batch : CallFits(c(i)) /\ CallGated(c(i))
    <3> SUFFICES ASSUME NEW i \in batch PROVE CallFits(c(i)) /\ CallGated(c(i))
      OBVIOUS
    <3>1. CallFits(calls[i]) /\ CallGated(calls[i]) /\ calls[i].outcome = "Ask"
      BY <1>t
    <3>2. gate(c(i), c(i).mode, c(i).rules) = gate(calls[i], calls[i].mode, calls[i].rules)
      BY <2>3 DEF gate, decide
    <3>3. gate(c(i), c(i).mode, c(i).rules) = "Ask"
      BY <3>1, <3>2 DEF CallGated
    <3>4. CallFits(c(i))
      BY <2>3, <3>1 DEF CallFits
    <3>5. c(i).outcome = Told(i) /\ c(i).said = Yes(i) /\ Told(i) \in {"Run", "Refuse"} /\ (Told(i) = "Run" => Yes(i))
      BY <2>2, <2>3
    <3> HIDE DEF Told, Yes
    <3> QED
      BY <3>3, <3>4, <3>5 DEF CallGated
  <2> HIDE DEF Told, Yes
  <2>5. /\ DOMAIN calls' = DOMAIN calls
        /\ \A i \in DOMAIN calls : calls'[i] = IF i \notin batch THEN calls[i] ELSE c(i)
    BY <2>1
  <2>6. \A i \in DOMAIN calls : calls'[i] \in CallRecord
    BY <2>3, <2>5, <1>t
  <2>7. calls' \in Seq(CallRecord) /\ Len(calls') = Len(calls)
    <3> DEFINE e(i) == IF i \notin batch THEN calls[i] ELSE c(i)
    <3>1. calls' = [i \in 1..Len(calls) |-> e(i)]
      BY <2>1, <1>t
    <3>2. \A i \in 1..Len(calls) : e(i) \in CallRecord
      BY <2>3, <1>t
    <3>3. Len(calls) \in Nat
      BY <1>t
    <3> HIDE DEF e
    <3> QED
      BY <3>1, <3>2, <3>3, IsASeq
  <2>8. ToolGateTypeOK'
    BY <2>1, <2>5, <2>7 DEF ToolGateTypeOK
  <2>9. \A i \in DOMAIN calls' : CallFits(calls'[i]) /\ CallGated(calls'[i])
    BY <2>4, <2>5
  <2>10. \A i \in DOMAIN calls' : CallFits(calls[i])' /\ CallGated(calls[i])'
    BY <2>1, <2>9 DEF CallFits, CallGated
  <2> QED
    BY <2>1, <2>8, <2>10
<1>8. CASE UNCHANGED toolGateVars
  <2>1. UNCHANGED <<offered, registered, disabled, files_read, calls, batch>>
    BY <1>8 DEF toolGateVars
  <2> QED
    BY <2>1 DEF ToolGateTypeOK, CallFits, CallGated
<1> QED
  BY <1>1, <1>2, <1>3, <1>4, <1>5, <1>6, <1>7, <1>8 DEF ToolGateNext

\* The invariant holds initially and every operation keeps it.
THEOREM ToolGateInductive == ToolGateSpec => []ToolGateInv
<1> QED
  BY ToolGateBegins, ToolGateKept, PTL DEF ToolGateSpec

\* For any tools, any calls, any modes and rules and any answers: nothing needs consent
\* that ran without it, no file is edited unread, and what is called is what is on
\* offer (gate, Batch::resolve, Registry::invoke).
THEOREM ConsentKept == ToolGateSpec => []GateKept
BY ToolGateInductive, ToolGateInvKept, PTL

-----------------------------------------------------------------------------
(***************************************************************************)
(* The answer of a provider (Provider)                                     *)
(***************************************************************************)
\* How many of S come before i.
Before(S, i) == Cardinality({j \in S : j < i})

\* The members of a finite set of numbers, counted from the least, are each at a
\* place of their own, and every place below their number is taken.
LEMMA PlacesOfSet ==
  ASSUME NEW S \in SUBSET Nat, IsFiniteSet(S)
  PROVE  /\ Cardinality(S) \in Nat
         /\ \A i \in S : Before(S, i) \in 0..Cardinality(S) - 1
         /\ \A i, j \in S : Before(S, i) = Before(S, j) => i = j
         /\ \A k \in 0..Cardinality(S) - 1 : \E i \in S : Before(S, i) = k
<1> DEFINE B(i) == {j \in S : j < i}
           N == Cardinality(S)
<1>1. N \in Nat
  BY FS_CardinalityType
<1>2. \A i \in S : IsFiniteSet(B(i)) /\ Cardinality(B(i)) \in Nat
  <2> TAKE i \in S
  <2>1. B(i) \in SUBSET S
    OBVIOUS
  <2>2. IsFiniteSet(B(i))
    BY <2>1, FS_Subset
  <2> HIDE DEF B
  <2> QED
    BY <2>2, FS_CardinalityType
<1>3. \A i \in S : Cardinality(B(i)) \in 0..N - 1
  <2> TAKE i \in S
  <2>1. B(i) \in SUBSET S /\ B(i) # S
    OBVIOUS
  <2> HIDE DEF B
  <2>2. Cardinality(B(i)) <= N /\ Cardinality(B(i)) # N
    BY <2>1, FS_Subset
  <2> HIDE DEF N
  <2> QED
    BY <2>2, <1>1, <1>2
<1>4. \A i, j \in S : i < j => Cardinality(B(i)) # Cardinality(B(j))
  <2> SUFFICES ASSUME NEW i \in S, NEW j \in S, i < j PROVE Cardinality(B(i)) # Cardinality(B(j))
    OBVIOUS
  <2>1. B(i) \in SUBSET B(j)
    <3> SUFFICES ASSUME NEW x \in B(i) PROVE x \in B(j)
      OBVIOUS
    <3>1. x \in S /\ x < i
      OBVIOUS
    <3>2. x \in Nat /\ i \in Nat /\ j \in Nat
      BY <3>1
    <3> QED
      BY <3>1, <3>2
  <2>2. i \in B(j) /\ i \notin B(i)
    OBVIOUS
  <2>3. IsFiniteSet(B(j))
    BY <1>2
  <2> HIDE DEF B
  <2> QED
    BY <2>1, <2>2, <2>3, FS_Subset
<1>5. \A i, j \in S : Cardinality(B(i)) = Cardinality(B(j)) => i = j
  <2> SUFFICES ASSUME NEW i \in S, NEW j \in S, Cardinality(B(i)) = Cardinality(B(j)) PROVE i = j
    OBVIOUS
  <2>1. ~(i < j) /\ ~(j < i)
    BY <1>4
  <2> QED
    BY <2>1
<1> DEFINE f == [i \in S |-> Cardinality(B(i))]
<1>6. f \in Injection(S, 0..N - 1)
  <2>1. f \in [S -> 0..N - 1]
    BY <1>3
  <2>2. \A i, j \in S : f[i] = f[j] => i = j
    BY <1>5
  <2> HIDE DEF f
  <2> QED
    BY <2>1, <2>2 DEF Injection, IsInjective
<1>7. f \in Surjection(S, 0..N - 1)
  <2> HIDE DEF f, N
  <2>1. IsFiniteSet(0..N - 1)
    BY <1>1, FS_Interval
  <2>2. Cardinality(0..N - 1) = IF 0 > N - 1 THEN 0 ELSE (N - 1) - 0 + 1
    BY <1>1, FS_Interval
  <2>3. Cardinality(0..N - 1) = N
    BY <1>1, <2>2
  <2>4. Cardinality(S) = N
    BY DEF N
  <2> QED
    BY <1>6, <2>1, <2>3, <2>4, FS_Injection
<1>8. \A k \in 0..N - 1 : \E i \in S : f[i] = k
  BY <1>7 DEF Surjection
<1>9. \A k \in 0..N - 1 : \E i \in S : Cardinality(B(i)) = k
  BY <1>8
<1> QED
  BY <1>1, <1>3, <1>5, <1>9 DEF Before
\* What a stream calls a block it is still receiving, and one it has finished.
OpenKey(i) == <<IF client = "OpenAI" THEN "call" ELSE "block", i>>
DoneKey(i) == <<IF client = "OpenAI" THEN "text" ELSE "block", i>>

\* Before the stream is read nothing has been heard.
NothingHeard ==
  /\ stage \in {"new", "ready", "blocking"} =>
       /\ DOMAIN open = {} /\ DOMAIN complete = {} /\ DOMAIN heard = {}
       /\ stop = "none" /\ ~terminal
  /\ stage = "blocking" => client = "OpenAI"

\* While it is read, what was heard is what is open and what is finished, each block
\* under its own key with its own pieces.  Only Anthropic's message_start can finish a
\* block that is still open, and such a block is never closed.
HeardIsKept ==
  /\ \A i \in DOMAIN open : open[i].key = OpenKey(i)
  /\ \A i \in DOMAIN complete : complete[i].key = DoneKey(i)
  /\ DOMAIN heard = {OpenKey(i) : i \in DOMAIN open} \cup {DoneKey(i) : i \in DOMAIN complete}
  /\ \A i \in DOMAIN open :
       i \notin DOMAIN complete \/ client # "Anthropic" => open[i].pieces = heard[OpenKey(i)]
  /\ \A i \in DOMAIN complete :
       i \notin DOMAIN open \/ client # "Anthropic" => complete[i].pieces = heard[DoneKey(i)]

\* The blocks lie at places counted from zero where the client counts them, and a
\* stop reason is the end of the message where the stream says nothing more.
PlacesOK ==
  /\ DOMAIN open \subseteq Indices /\ IsFiniteSet(DOMAIN open)
  /\ DOMAIN complete \subseteq Nat
  /\ client # "Anthropic" => \E n \in Nat : DOMAIN complete = 0..n - 1
  /\ client = "Google" => DOMAIN open = {}
  /\ client # "Anthropic" /\ stop # "none" => terminal

\* The inductive invariant of a request.
ProviderInv ==
  /\ ProviderTypeOK
  /\ NothingHeard
  /\ stage = "reading" => HeardIsKept /\ PlacesOK
  /\ CompletionWhole


\* Two blocks are under one key only where the blocks of both kinds are numbered by
\* the provider.
LEMMA KeysApart ==
  \A i, j :
    /\ OpenKey(i) = OpenKey(j) => i = j
    /\ DoneKey(i) = DoneKey(j) => i = j
    /\ OpenKey(i) = DoneKey(j) => client # "OpenAI" /\ i = j
    /\ client # "OpenAI" => OpenKey(i) = <<"block", i>> /\ DoneKey(i) = <<"block", i>>
    /\ client = "OpenAI" => OpenKey(i) = <<"call", i>> /\ DoneKey(i) = <<"text", i>>
BY DEF OpenKey, DoneKey

\* A request that fails holds nothing an answer could be made of (Fail).
LEMMA FailKept ==
  ASSUME ProviderInv, NEW class \in ErrorClass, Fail(class)
  PROVE  ProviderInv'
<1>1. ProviderTypeOK'
  BY DEF ProviderInv, ProviderTypeOK, Fail, reading
<1>2. stage' \in ErrorClass
  BY DEF Fail
<1>3. NothingHeard' /\ (stage' # "reading") /\ CompletionWhole'
  BY <1>2 DEF NothingHeard, CompletionWhole, ErrorClass
<1> QED
  BY <1>1, <1>3 DEF ProviderInv

\* Before the stream is read only the stage moves (Prepare, Send, SendFails,
\* StreamInstead, StreamRefused).
LEMMA BeforeKept ==
  ASSUME ProviderInv, UNCHANGED <<client, reading>>, requests' \in 0..2,
         stage \in {"new", "ready", "blocking"},
         stage' \in {"ready", "blocking", "reading"} \cup ErrorClass,
         stage' = "blocking" => client = "OpenAI"
  PROVE  ProviderInv'
<1>1. ProviderTypeOK'
  BY DEF ProviderInv, ProviderTypeOK, reading
<1>2. /\ DOMAIN open' = {} /\ DOMAIN complete' = {} /\ DOMAIN heard' = {}
      /\ stop' = "none" /\ ~terminal'
  BY DEF ProviderInv, NothingHeard, reading
<1>3. NothingHeard'
  BY <1>2 DEF NothingHeard
<1>4. HeardIsKept'
  BY <1>2 DEF HeardIsKept
<1>5. PlacesOK'
  <2>1. DOMAIN complete' = 0..0 - 1 /\ 0 \in Nat
    BY <1>2
  <2>2. IsFiniteSet(DOMAIN open')
    BY <1>2, FS_EmptySet
  <2> QED
    BY <1>2, <2>1, <2>2 DEF PlacesOK
<1>6. CompletionWhole'
  BY DEF CompletionWhole, ErrorClass
<1> QED
  BY <1>1, <1>3, <1>4, <1>5, <1>6 DEF ProviderInv

\* A step that goes on reading keeps the invariant if it keeps the parts that speak
\* of reading.
LEMMA StillReading ==
  ASSUME stage' = "reading", ProviderTypeOK', HeardIsKept', PlacesOK'
  PROVE  ProviderInv'
BY DEF ProviderInv, NothingHeard, CompletionWhole

\* The end of the message or a stop reason, while the blocks stay as they are
\* (OpenAiFinish, MessageDelta, MessageStop, GoogleFinish).
LEMMA MarkKept ==
  ASSUME ProviderInv, stage = "reading", UNCHANGED <<client, stage, requests, open, complete, heard>>,
         sawTool' \in BOOLEAN, stop' \in StopReason \cup {"none"}, terminal' \in BOOLEAN,
         client # "Anthropic" /\ stop' # "none" => terminal'
  PROVE  ProviderInv'
<1>1. ProviderTypeOK'
  BY DEF ProviderInv, ProviderTypeOK
<1>2. HeardIsKept'
  BY DEF ProviderInv, HeardIsKept, OpenKey, DoneKey
<1>3. PlacesOK'
  BY DEF ProviderInv, PlacesOK
<1> QED
  BY <1>1, <1>2, <1>3, StillReading

\* The next place is the one after the blocks so far.
LEMMA NextPlace ==
  ASSUME NEW n \in Nat, DOMAIN complete = 0..n - 1
  PROVE  NextPosition = n
<1>1. Cardinality(0..n - 1) = IF 0 > n - 1 THEN 0 ELSE (n - 1) - 0 + 1
  BY FS_Interval
<1> QED
  BY <1>1 DEF NextPosition

\* A block that came whole goes to the next place (OpenAiText, GooglePart).
LEMMA PlacedKept ==
  ASSUME ProviderInv, stage = "reading", client # "Anthropic",
         NEW k \in BlockKind, NEW p \in Pieces,
         complete' = Put(complete, NextPosition,
                         [kind |-> k, pieces |-> <<p>>, key |-> DoneKey(NextPosition)]),
         heard' = Put(heard, DoneKey(NextPosition), <<p>>),
         UNCHANGED <<client, stage, requests, open, stop, terminal>>, sawTool' \in BOOLEAN
  PROVE  ProviderInv'
<1> DEFINE b == [kind |-> k, pieces |-> <<p>>, key |-> DoneKey(NextPosition)]
<1>0. HeardIsKept /\ PlacesOK /\ ProviderTypeOK
  BY DEF ProviderInv
<1>1. PICK n \in Nat : DOMAIN complete = 0..n - 1
  BY <1>0 DEF PlacesOK
<1>2. NextPosition = n
  BY <1>1, NextPlace
<1>3. n \notin DOMAIN complete /\ 0..n + 1 - 1 = 0..n - 1 \cup {n}
  BY <1>1
<1>4. b \in Block /\ b.key = DoneKey(n) /\ b.pieces = <<p>>
  BY <1>2 DEF Block, Key, DoneKey
<1> HIDE DEF b
<1>5. /\ DOMAIN complete' = DOMAIN complete \cup {n} /\ complete'[n] = b
      /\ \A x \in DOMAIN complete : complete'[x] = complete[x]
  BY <1>2, <1>3 DEF Put, b
<1>6. /\ DOMAIN heard' = DOMAIN heard \cup {DoneKey(n)} /\ heard'[DoneKey(n)] = <<p>>
      /\ \A x \in DOMAIN heard : x # DoneKey(n) => heard'[x] = heard[x]
  BY <1>2 DEF Put
<1>7. ProviderTypeOK'
  BY <1>0, <1>4, <1>5 DEF ProviderTypeOK
<1>8. \A i \in DOMAIN open : OpenKey(i) # DoneKey(n)
  BY <1>0, KeysApart DEF PlacesOK, ProviderTypeOK, ProviderKind
<1>9. \A i \in DOMAIN complete : DoneKey(i) # DoneKey(n)
  BY <1>3, KeysApart
<1>10. \A i : OpenKey(i)' = OpenKey(i) /\ DoneKey(i)' = DoneKey(i)
  BY DEF OpenKey, DoneKey
<1>11. HeardIsKept'
  <2>1. \A i \in DOMAIN open' : open'[i].key = OpenKey(i)
    BY <1>0 DEF HeardIsKept
  <2>2. \A i \in DOMAIN complete' : complete'[i].key = DoneKey(i)
    BY <1>0, <1>4, <1>5 DEF HeardIsKept
  <2>3. DOMAIN heard' = {OpenKey(i) : i \in DOMAIN open'} \cup {DoneKey(i) : i \in DOMAIN complete'}
    <3>1. DOMAIN open' = DOMAIN open
      OBVIOUS
    <3>2. {DoneKey(i) : i \in DOMAIN complete'} = {DoneKey(i) : i \in DOMAIN complete} \cup {DoneKey(n)}
      BY ONLY <1>5
    <3>3. DOMAIN heard = {OpenKey(i) : i \in DOMAIN open} \cup {DoneKey(i) : i \in DOMAIN complete}
      BY <1>0 DEF HeardIsKept
    <3> QED
      BY ONLY <3>1, <3>2, <3>3, <1>6
  <2>4. \A i \in DOMAIN open' : open'[i].pieces = heard'[OpenKey(i)]
    BY <1>0, <1>6, <1>8 DEF HeardIsKept
  <2>5. \A i \in DOMAIN complete' : complete'[i].pieces = heard'[DoneKey(i)]
    BY <1>0, <1>4, <1>5, <1>6, <1>9 DEF HeardIsKept
  <2> QED
    BY <2>1, <2>2, <2>3, <2>4, <2>5, <1>10 DEF HeardIsKept
<1>12. PlacesOK'
  <2>1. DOMAIN complete' = 0..n + 1 - 1 /\ n + 1 \in Nat
    <3>1. DOMAIN complete' = DOMAIN complete \cup {n}
      BY <1>5
    <3>2. 0..n + 1 - 1 = 0..n - 1 \cup {n}
      BY <1>3
    <3>3. n + 1 \in Nat
      OBVIOUS
    <3>4. DOMAIN complete' = 0..n + 1 - 1
      BY ONLY <3>1, <3>2, <1>1, Zenon
    <3> QED
      BY ONLY <3>3, <3>4
  <2>2. DOMAIN complete' \subseteq Nat
    BY <2>1
  <2> QED
    BY <2>1, <2>2, <1>0 DEF PlacesOK
<1> QED
  BY <1>7, <1>11, <1>12, StillReading

\* A delta of a tool call joins the call under its index.
LEMMA OpenAiToolKept ==
  ASSUME ProviderInv, NEW i \in Indices, NEW p \in Pieces, OpenAiTool(i, p)
  PROVE  ProviderInv'
<1> DEFINE b == IF i \in DOMAIN open THEN open[i]
                ELSE [kind |-> "tool_use", pieces |-> <<>>, key |-> <<"call", i>>]
           c == [b EXCEPT !.pieces = Append(@, p)]
           was == IF OpenKey(i) \in DOMAIN heard THEN heard[OpenKey(i)] ELSE <<>>
<1>0. HeardIsKept /\ PlacesOK /\ ProviderTypeOK /\ client = "OpenAI" /\ i \in Nat
  BY ProviderAssumption DEF ProviderInv, OpenAiTool
<1>1. b \in Block /\ b.key = OpenKey(i) /\ b.pieces = was
  <2>1. CASE i \in DOMAIN open
    BY <1>0, <2>1 DEF HeardIsKept, ProviderTypeOK
  <2>2. CASE i \notin DOMAIN open
    <3>1. b \in Block /\ b.key = OpenKey(i) /\ b.pieces = <<>>
      BY <1>0, <2>2 DEF Block, Key, BlockKind, OpenKey
    <3>2. OpenKey(i) \notin DOMAIN heard
      BY <1>0, <2>2, KeysApart DEF HeardIsKept
    <3> QED
      BY <3>1, <3>2
  <2> QED
    BY <2>1, <2>2
<1>2. /\ open' = Put(open, i, c) /\ heard' = Put(heard, b.key, Append(IF b.key \in DOMAIN heard THEN heard[b.key] ELSE <<>>, p))
      /\ stage = "reading" /\ UNCHANGED <<client, stage, requests, complete, stop, terminal, sawTool>>
  BY DEF OpenAiTool
<1> HIDE DEF b
<1>3. c \in Block /\ c.key = OpenKey(i) /\ c.pieces = Append(b.pieces, p)
  BY SMTT(20), <1>1 DEF Block
<1>4. heard' = Put(heard, OpenKey(i), Append(b.pieces, p))
  BY <1>1, <1>2
<1> HIDE DEF c, was
<1>5. /\ DOMAIN open' = DOMAIN open \cup {i} /\ open'[i] = c
      /\ \A x \in DOMAIN open : x # i => open'[x] = open[x]
  BY <1>2 DEF Put
<1>6. /\ DOMAIN heard' = DOMAIN heard \cup {OpenKey(i)} /\ heard'[OpenKey(i)] = c.pieces
      /\ \A x \in DOMAIN heard : x # OpenKey(i) => heard'[x] = heard[x]
  BY <1>3, <1>4 DEF Put
<1>7. ProviderTypeOK'
  BY <1>0, <1>2, <1>3, <1>5 DEF ProviderTypeOK
<1>8. \A j : OpenKey(j)' = OpenKey(j) /\ DoneKey(j)' = DoneKey(j)
  BY <1>2 DEF OpenKey, DoneKey
<1>9. HeardIsKept'
  <2>1. \A j \in DOMAIN open' : open'[j].key = OpenKey(j)
    BY <1>0, <1>3, <1>5 DEF HeardIsKept
  <2>2. \A j \in DOMAIN complete' : complete'[j].key = DoneKey(j)
    BY <1>0, <1>2 DEF HeardIsKept
  <2>3. DOMAIN heard' = {OpenKey(j) : j \in DOMAIN open'} \cup {DoneKey(j) : j \in DOMAIN complete'}
    <3>1. DOMAIN open' = DOMAIN open \cup {i} /\ DOMAIN heard' = DOMAIN heard \cup {OpenKey(i)}
      BY <1>5, <1>6
    <3>2. DOMAIN complete' = DOMAIN complete
      BY <1>2
    <3>3. DOMAIN heard = {OpenKey(j) : j \in DOMAIN open} \cup {DoneKey(j) : j \in DOMAIN complete}
      BY <1>0 DEF HeardIsKept
    <3> QED
      BY <3>1, <3>2, <3>3
  <2>4. \A j \in DOMAIN open' : open'[j].pieces = heard'[OpenKey(j)]
    <3> TAKE j \in DOMAIN open'
    <3>1. CASE j = i
      BY <3>1, <1>5, <1>6
    <3>2. CASE j # i
      <4>1. OpenKey(j) # OpenKey(i) /\ OpenKey(j) \in DOMAIN heard
        BY <3>2, <1>0, <1>5, KeysApart DEF HeardIsKept
      <4> QED
        BY <4>1, <3>2, <1>0, <1>5, <1>6 DEF HeardIsKept
    <3> QED
      BY <3>1, <3>2
  <2>5. \A j \in DOMAIN complete' : complete'[j].pieces = heard'[DoneKey(j)]
    <3> TAKE j \in DOMAIN complete'
    <3>1. DoneKey(j) # OpenKey(i) /\ DoneKey(j) \in DOMAIN heard
      BY <1>0, <1>2, KeysApart DEF HeardIsKept
    <3> QED
      BY <3>1, <1>0, <1>2, <1>6 DEF HeardIsKept
  <2> QED
    BY <2>1, <2>2, <2>3, <2>4, <2>5, <1>8 DEF HeardIsKept
<1>10. PlacesOK'
  <2>1. IsFiniteSet(DOMAIN open')
    <3>1. IsFiniteSet(DOMAIN open)
      BY <1>0 DEF PlacesOK
    <3>2. IsFiniteSet(DOMAIN open \cup {i})
      BY <3>1, FS_AddElement
    <3> QED
      BY <1>5, <3>2
  <2> QED
    BY <2>1, <1>0, <1>2, <1>5 DEF PlacesOK
<1> QED
  BY <1>2, <1>7, <1>9, <1>10, StillReading

\* A finished block Anthropic's message_start carries.
LEMMA MessageStartKept ==
  ASSUME ProviderInv, NEW n \in Nat, MessageStart(n)
  PROVE  ProviderInv'
<1> DEFINE one == CHOOSE p \in Pieces : TRUE
           b(i) == [kind |-> "text", pieces |-> <<one>>, key |-> <<"block", i>>]
<1>1. CASE Fail("BadResponse")
  BY <1>1, FailKept DEF ErrorClass
<1>2. CASE ~Fail("BadResponse")
  <2>0. HeardIsKept /\ PlacesOK /\ ProviderTypeOK /\ client = "Anthropic" /\ stage = "reading"
    BY DEF ProviderInv, MessageStart, Anthropic
  <2>1. /\ \A i \in 0..n - 1 : i \notin DOMAIN complete
        /\ complete' = [i \in DOMAIN complete \cup 0..n - 1 |->
                          IF i \in DOMAIN complete THEN complete[i] ELSE b(i)]
        /\ heard' = [k \in DOMAIN heard \cup ({"block"} \X (0..n - 1)) |->
                       IF k[2] < n THEN <<one>> ELSE heard[k]]
        /\ UNCHANGED <<client, stage, requests, open, stop, terminal, sawTool>>
    BY <1>2 DEF MessageStart
  <2>2. one \in Pieces
    BY ProviderAssumption
  <2>3. \A i \in Nat : b(i) \in Block /\ b(i).key = DoneKey(i) /\ b(i).pieces = <<one>>
    BY <2>0, <2>2 DEF Block, Key, BlockKind, DoneKey
  <2> HIDE DEF b, one
  <2>4. /\ DOMAIN complete' = DOMAIN complete \cup 0..n - 1
        /\ \A i \in DOMAIN complete : complete'[i] = complete[i]
        /\ \A i \in 0..n - 1 : complete'[i] = b(i)
    BY <2>1
  <2>5. \A i : OpenKey(i) = <<"block", i>> /\ DoneKey(i) = <<"block", i>>
    BY <2>0, KeysApart
  <2>6. DOMAIN heard' = DOMAIN heard \cup {<<"block", i>> : i \in 0..n - 1}
    BY <2>1
  <2>7. \A i \in 0..n - 1 : heard'[<<"block", i>>] = <<one>>
    BY <2>1
  <2>8. \A i \in Nat : <<"block", i>> \in DOMAIN heard /\ i \notin 0..n - 1 =>
                         heard'[<<"block", i>>] = heard[<<"block", i>>]
    BY <2>1
  <2>9. DOMAIN open \subseteq Nat /\ DOMAIN complete \subseteq Nat
    BY <2>0, ProviderAssumption DEF PlacesOK
  <2>10. ProviderTypeOK'
    BY <2>0, <2>1, <2>3, <2>4 DEF ProviderTypeOK
  <2>11. \A j : OpenKey(j)' = OpenKey(j) /\ DoneKey(j)' = DoneKey(j)
    BY <2>1 DEF OpenKey, DoneKey
  <2>12. HeardIsKept'
    <3>1. \A i \in DOMAIN open' : open'[i].key = OpenKey(i)
      BY <2>0, <2>1 DEF HeardIsKept
    <3>2. \A i \in DOMAIN complete' : complete'[i].key = DoneKey(i)
      BY <2>0, <2>3, <2>4 DEF HeardIsKept
    <3>3. DOMAIN heard' = {OpenKey(i) : i \in DOMAIN open'} \cup {DoneKey(i) : i \in DOMAIN complete'}
      BY <2>0, <2>1, <2>4, <2>5, <2>6 DEF HeardIsKept
    <3>4. \A i \in DOMAIN open' : i \notin DOMAIN complete' => open'[i].pieces = heard'[OpenKey(i)]
      <4> SUFFICES ASSUME NEW i \in DOMAIN open', i \notin DOMAIN complete'
                   PROVE  open'[i].pieces = heard'[OpenKey(i)]
        OBVIOUS
      <4>1. i \in DOMAIN open /\ i \notin DOMAIN complete /\ i \notin 0..n - 1 /\ i \in Nat
        BY <2>1, <2>4, <2>9
      <4>2. <<"block", i>> \in DOMAIN heard
        BY <4>1, <2>0, <2>5 DEF HeardIsKept
      <4>3. open[i].pieces = heard[<<"block", i>>]
        BY <4>1, <2>0, <2>5 DEF HeardIsKept
      <4> QED
        BY <4>1, <4>2, <4>3, <2>1, <2>5, <2>8
    <3>5. \A i \in DOMAIN complete' : i \notin DOMAIN open' => complete'[i].pieces = heard'[DoneKey(i)]
      <4> SUFFICES ASSUME NEW i \in DOMAIN complete', i \notin DOMAIN open'
                   PROVE  complete'[i].pieces = heard'[DoneKey(i)]
        OBVIOUS
      <4>1. CASE i \in 0..n - 1
        BY <4>1, <2>3, <2>4, <2>5, <2>7
      <4>2. CASE i \notin 0..n - 1
        <5>1. i \in DOMAIN complete /\ i \notin DOMAIN open /\ i \in Nat
          BY <4>2, <2>1, <2>4, <2>9
        <5>2. <<"block", i>> \in DOMAIN heard /\ complete[i].pieces = heard[<<"block", i>>]
          BY <5>1, <2>0, <2>5 DEF HeardIsKept
        <5> QED
          BY <4>2, <5>1, <5>2, <2>4, <2>5, <2>8
      <4> QED
        BY <4>1, <4>2
    <3>6. client' = "Anthropic"
      BY <2>0, <2>1
    <3> QED
      BY <3>1, <3>2, <3>3, <3>4, <3>5, <3>6, <2>11 DEF HeardIsKept
  <2>13. PlacesOK'
    BY <2>0, <2>1, <2>4, <2>9 DEF PlacesOK
  <2> QED
    BY <2>0, <2>1, <2>10, <2>12, <2>13, StillReading
<1> QED
  BY <1>1, <1>2

\* A started block is empty and new (content_block_start).
LEMMA BlockStartKept ==
  ASSUME ProviderInv, NEW i \in Indices, NEW k \in BlockKind, BlockStart(i, k)
  PROVE  ProviderInv'
<1> DEFINE b == [kind |-> k, pieces |-> <<>>, key |-> <<"block", i>>]
<1>1. CASE Fail("BadResponse")
  BY <1>1, FailKept DEF ErrorClass
<1>2. CASE ~Fail("BadResponse")
  <2>0. HeardIsKept /\ PlacesOK /\ ProviderTypeOK /\ client = "Anthropic" /\ stage = "reading" /\ i \in Nat
    BY ProviderAssumption DEF ProviderInv, BlockStart, Anthropic
  <2>1. /\ i \notin DOMAIN open \cup DOMAIN complete
        /\ open' = Put(open, i, b) /\ heard' = Put(heard, <<"block", i>>, <<>>)
        /\ UNCHANGED <<client, stage, requests, complete, stop, terminal, sawTool>>
    BY <1>2 DEF BlockStart
  <2>2. \A j : OpenKey(j) = <<"block", j>> /\ DoneKey(j) = <<"block", j>>
    BY <2>0, KeysApart
  <2>3. b \in Block /\ b.key = OpenKey(i) /\ b.pieces = <<>>
    BY <2>0, <2>2 DEF Block, Key, BlockKind
  <2> HIDE DEF b
  <2>4. /\ DOMAIN open' = DOMAIN open \cup {i} /\ open'[i] = b
        /\ \A x \in DOMAIN open : x # i => open'[x] = open[x]
    BY <2>1 DEF Put
  <2>5. /\ DOMAIN heard' = DOMAIN heard \cup {<<"block", i>>} /\ heard'[<<"block", i>>] = <<>>
        /\ \A x \in DOMAIN heard : x # <<"block", i>> => heard'[x] = heard[x]
    BY <2>1 DEF Put
  <2>6. ProviderTypeOK'
    BY <2>0, <2>1, <2>3, <2>4 DEF ProviderTypeOK
  <2>7. \A j : OpenKey(j)' = OpenKey(j) /\ DoneKey(j)' = DoneKey(j)
    BY <2>1 DEF OpenKey, DoneKey
  <2>8. HeardIsKept'
    <3>1. \A j \in DOMAIN open' : open'[j].key = OpenKey(j)
      BY <2>0, <2>3, <2>4 DEF HeardIsKept
    <3>2. \A j \in DOMAIN complete' : complete'[j].key = DoneKey(j)
      BY <2>0, <2>1 DEF HeardIsKept
    <3>3. DOMAIN heard' = {OpenKey(j) : j \in DOMAIN open'} \cup {DoneKey(j) : j \in DOMAIN complete'}
      <4>1. DOMAIN open' = DOMAIN open \cup {i} /\ DOMAIN heard' = DOMAIN heard \cup {OpenKey(i)}
        BY <2>2, <2>4, <2>5
      <4>2. DOMAIN complete' = DOMAIN complete
        BY <2>1
      <4>3. DOMAIN heard = {OpenKey(j) : j \in DOMAIN open} \cup {DoneKey(j) : j \in DOMAIN complete}
        BY <2>0 DEF HeardIsKept
      <4> QED
        BY <4>1, <4>2, <4>3
    <3>4. \A j \in DOMAIN open' : j \notin DOMAIN complete' => open'[j].pieces = heard'[OpenKey(j)]
      <4> SUFFICES ASSUME NEW j \in DOMAIN open', j \notin DOMAIN complete'
                   PROVE  open'[j].pieces = heard'[OpenKey(j)]
        OBVIOUS
      <4>1. CASE j = i
        BY <4>1, <2>2, <2>3, <2>4, <2>5
      <4>2. CASE j # i
        <5>1. j \in DOMAIN open /\ j \notin DOMAIN complete
          BY <4>2, <2>1, <2>4
        <5>2. <<"block", j>> \in DOMAIN heard /\ open[j].pieces = heard[<<"block", j>>]
          BY <5>1, <2>0, <2>2 DEF HeardIsKept
        <5>3. <<"block", j>> # <<"block", i>>
          BY <4>2
        <5> QED
          BY <4>2, <5>1, <5>2, <5>3, <2>2, <2>4, <2>5
      <4> QED
        BY <4>1, <4>2
    <3>5. \A j \in DOMAIN complete' : j \notin DOMAIN open' => complete'[j].pieces = heard'[DoneKey(j)]
      <4> SUFFICES ASSUME NEW j \in DOMAIN complete', j \notin DOMAIN open'
                   PROVE  complete'[j].pieces = heard'[DoneKey(j)]
        OBVIOUS
      <4>1. j \in DOMAIN complete /\ j \notin DOMAIN open /\ j # i
        BY <2>1, <2>4
      <4>2. <<"block", j>> \in DOMAIN heard /\ complete[j].pieces = heard[<<"block", j>>]
        BY <4>1, <2>0, <2>2 DEF HeardIsKept
      <4>3. <<"block", j>> # <<"block", i>>
        BY <4>1
      <4> QED
        BY <4>2, <4>3, <2>1, <2>2, <2>5
    <3>6. client' = "Anthropic"
      BY <2>0, <2>1
    <3> QED
      BY <3>1, <3>2, <3>3, <3>4, <3>5, <3>6, <2>7 DEF HeardIsKept
  <2>9. PlacesOK'
    <3>1. IsFiniteSet(DOMAIN open')
      <4>1. IsFiniteSet(DOMAIN open)
        BY <2>0 DEF PlacesOK
      <4>2. IsFiniteSet(DOMAIN open \cup {i})
        BY <4>1, FS_AddElement
      <4> QED
        BY <2>4, <4>2
    <3> QED
      BY <3>1, <2>0, <2>1, <2>4 DEF PlacesOK
  <2> QED
    BY <2>0, <2>1, <2>6, <2>8, <2>9, StillReading
<1> QED
  BY <1>1, <1>2

\* A delta joins the pieces of an open block (content_block_delta).
LEMMA BlockDeltaKept ==
  ASSUME ProviderInv, NEW i \in Indices, NEW delta, NEW p \in Pieces, BlockDelta(i, delta, p)
  PROVE  ProviderInv'
<1> DEFINE b == [open[i] EXCEPT !.pieces = Append(@, p)]
<1>1. CASE Fail("BadResponse")
  BY <1>1, FailKept DEF ErrorClass
<1>2. CASE ~Fail("BadResponse")
  <2>0. HeardIsKept /\ PlacesOK /\ ProviderTypeOK /\ client = "Anthropic" /\ stage = "reading"
    BY DEF ProviderInv, BlockDelta, Anthropic
  <2>1. /\ i \in DOMAIN open
        /\ open' = [open EXCEPT ![i].pieces = Append(@, p)]
        /\ heard' = [heard EXCEPT ![open[i].key] = Append(@, p)]
        /\ UNCHANGED <<client, stage, requests, complete, stop, terminal, sawTool>>
    BY <1>2 DEF BlockDelta
  <2>2. \A j : OpenKey(j) = <<"block", j>> /\ DoneKey(j) = <<"block", j>>
    BY <2>0, KeysApart
  <2>3. open[i] \in Block /\ open[i].key = <<"block", i>> /\ <<"block", i>> \in DOMAIN heard
    BY <2>0, <2>1, <2>2 DEF HeardIsKept, ProviderTypeOK
  <2>4. /\ DOMAIN open' = DOMAIN open /\ open'[i] = b
        /\ \A x \in DOMAIN open : x # i => open'[x] = open[x]
    BY <2>1
  <2>5. b \in Block /\ b.key = <<"block", i>> /\ b.pieces = Append(open[i].pieces, p)
    <3> DEFINE r == open[i]
    <3>1. r \in [kind : BlockKind, pieces : Seq(Pieces), key : Key]
      BY <2>3 DEF Block
    <3>2. r.key = <<"block", i>> /\ b = [r EXCEPT !.pieces = Append(r.pieces, p)]
      BY <2>3
    <3> HIDE DEF r, b
    <3>3. Append(r.pieces, p) \in Seq(Pieces)
      BY <3>1
    <3>4. b \in [kind : BlockKind, pieces : Seq(Pieces), key : Key]
      BY <3>1, <3>2, <3>3
    <3>5. b.key = r.key /\ b.pieces = Append(r.pieces, p)
      BY <3>1, <3>2
    <3> QED
      BY <3>2, <3>4, <3>5 DEF r, Block
  <2> HIDE DEF b
  <2>6. /\ DOMAIN heard' = DOMAIN heard /\ heard'[<<"block", i>>] = Append(heard[<<"block", i>>], p)
        /\ \A x \in DOMAIN heard : x # <<"block", i>> => heard'[x] = heard[x]
    BY <2>1, <2>3
  <2>7. ProviderTypeOK'
    BY <2>0, <2>1, <2>4, <2>5 DEF ProviderTypeOK
  <2>8. \A j : OpenKey(j)' = OpenKey(j) /\ DoneKey(j)' = DoneKey(j)
    BY <2>1 DEF OpenKey, DoneKey
  <2>9. HeardIsKept'
    <3>1. \A j \in DOMAIN open' : open'[j].key = OpenKey(j)
      BY <2>0, <2>2, <2>4, <2>5 DEF HeardIsKept
    <3>2. \A j \in DOMAIN complete' : complete'[j].key = DoneKey(j)
      BY <2>0, <2>1 DEF HeardIsKept
    <3>3. DOMAIN heard' = {OpenKey(j) : j \in DOMAIN open'} \cup {DoneKey(j) : j \in DOMAIN complete'}
      <4>1. DOMAIN open' = DOMAIN open /\ DOMAIN heard' = DOMAIN heard
        BY <2>4, <2>6
      <4>2. DOMAIN complete' = DOMAIN complete
        BY <2>1
      <4>3. DOMAIN heard = {OpenKey(j) : j \in DOMAIN open} \cup {DoneKey(j) : j \in DOMAIN complete}
        BY <2>0 DEF HeardIsKept
      <4> QED
        BY <4>1, <4>2, <4>3
    <3>4. \A j \in DOMAIN open' : j \notin DOMAIN complete' => open'[j].pieces = heard'[OpenKey(j)]
      <4> SUFFICES ASSUME NEW j \in DOMAIN open', j \notin DOMAIN complete'
                   PROVE  open'[j].pieces = heard'[OpenKey(j)]
        OBVIOUS
      <4>1. j \in DOMAIN open /\ j \notin DOMAIN complete
        BY <2>1, <2>4
      <4>2. <<"block", j>> \in DOMAIN heard /\ open[j].pieces = heard[<<"block", j>>]
        BY <4>1, <2>0, <2>2 DEF HeardIsKept
      <4>3. CASE j = i
        BY <4>2, <4>3, <2>2, <2>4, <2>5, <2>6
      <4>4. CASE j # i
        <5>1. <<"block", j>> # <<"block", i>>
          BY <4>4
        <5> QED
          BY <4>1, <4>2, <4>4, <5>1, <2>2, <2>4, <2>6
      <4> QED
        BY <4>3, <4>4
    <3>5. \A j \in DOMAIN complete' : j \notin DOMAIN open' => complete'[j].pieces = heard'[DoneKey(j)]
      <4> SUFFICES ASSUME NEW j \in DOMAIN complete', j \notin DOMAIN open'
                   PROVE  complete'[j].pieces = heard'[DoneKey(j)]
        OBVIOUS
      <4>1. j \in DOMAIN complete /\ j \notin DOMAIN open /\ j # i
        BY <2>1, <2>4
      <4>2. <<"block", j>> \in DOMAIN heard /\ complete[j].pieces = heard[<<"block", j>>]
        BY <4>1, <2>0, <2>2 DEF HeardIsKept
      <4>3. <<"block", j>> # <<"block", i>>
        BY <4>1
      <4> QED
        BY <4>2, <4>3, <2>1, <2>2, <2>6
    <3>6. client' = "Anthropic"
      BY <2>0, <2>1
    <3> QED
      BY <3>1, <3>2, <3>3, <3>4, <3>5, <3>6, <2>8 DEF HeardIsKept
  <2>10. PlacesOK'
    BY <2>0, <2>1, <2>4 DEF PlacesOK
  <2> QED
    BY <2>0, <2>1, <2>7, <2>9, <2>10, StillReading
<1> QED
  BY <1>1, <1>2

\* A stopped block goes to the finished ones as it is (content_block_stop).
LEMMA BlockStopKept ==
  ASSUME ProviderInv, NEW i \in Indices, BlockStop(i)
  PROVE  ProviderInv'
<1>1. CASE Fail("BadResponse")
  BY <1>1, FailKept DEF ErrorClass
<1>2. CASE ~Fail("BadResponse")
  <2>0. HeardIsKept /\ PlacesOK /\ ProviderTypeOK /\ client = "Anthropic" /\ stage = "reading" /\ i \in Nat
    BY ProviderAssumption DEF ProviderInv, BlockStop, Anthropic
  <2>1. /\ i \in DOMAIN open /\ i \notin DOMAIN complete
        /\ open' = Drop(open, i) /\ complete' = Put(complete, i, open[i])
        /\ UNCHANGED <<client, stage, requests, stop, terminal, sawTool, heard>>
    BY <1>2 DEF BlockStop
  <2>2. \A j : OpenKey(j) = <<"block", j>> /\ DoneKey(j) = <<"block", j>>
    BY <2>0, KeysApart
  <2>3. /\ DOMAIN open' = DOMAIN open \ {i}
        /\ \A x \in DOMAIN open' : open'[x] = open[x]
    BY <2>1 DEF Drop
  <2>4. /\ DOMAIN complete' = DOMAIN complete \cup {i} /\ complete'[i] = open[i]
        /\ \A x \in DOMAIN complete : complete'[x] = complete[x]
    BY <2>1 DEF Put
  <2>5. ProviderTypeOK'
    BY <2>0, <2>1, <2>3, <2>4 DEF ProviderTypeOK
  <2>6. \A j : OpenKey(j)' = OpenKey(j) /\ DoneKey(j)' = DoneKey(j)
    BY <2>1 DEF OpenKey, DoneKey
  <2>7. HeardIsKept'
    <3>1. \A j \in DOMAIN open' : open'[j].key = OpenKey(j)
      BY <2>0, <2>3 DEF HeardIsKept
    <3>2. \A j \in DOMAIN complete' : complete'[j].key = DoneKey(j)
      BY <2>0, <2>1, <2>2, <2>4 DEF HeardIsKept
    <3>3. DOMAIN heard' = {OpenKey(j) : j \in DOMAIN open'} \cup {DoneKey(j) : j \in DOMAIN complete'}
      <4>1. DOMAIN open = DOMAIN open' \cup {i} /\ DOMAIN complete' = DOMAIN complete \cup {i}
        BY <2>1, <2>3, <2>4
      <4>2. OpenKey(i) = DoneKey(i) /\ heard' = heard
        BY <2>1, <2>2
      <4>3. DOMAIN heard = {OpenKey(j) : j \in DOMAIN open} \cup {DoneKey(j) : j \in DOMAIN complete}
        BY <2>0 DEF HeardIsKept
      <4> QED
        BY <4>1, <4>2, <4>3
    <3>4. \A j \in DOMAIN open' : j \notin DOMAIN complete' => open'[j].pieces = heard'[OpenKey(j)]
      BY <2>0, <2>1, <2>3, <2>4 DEF HeardIsKept
    <3>5. \A j \in DOMAIN complete' : j \notin DOMAIN open' => complete'[j].pieces = heard'[DoneKey(j)]
      BY <2>0, <2>1, <2>2, <2>3, <2>4 DEF HeardIsKept
    <3>6. client' = "Anthropic"
      BY <2>0, <2>1
    <3> QED
      BY <3>1, <3>2, <3>3, <3>4, <3>5, <3>6, <2>6 DEF HeardIsKept
  <2>8. PlacesOK'
    <3>1. IsFiniteSet(DOMAIN open')
      BY <2>0, <2>3, FS_RemoveElement DEF PlacesOK
    <3> QED
      BY <3>1, <2>0, <2>1, <2>3, <2>4 DEF PlacesOK
  <2> QED
    BY <2>0, <2>1, <2>5, <2>7, <2>8, StillReading
<1> QED
  BY <1>1, <1>2

\* A blocking answer is whole as it comes (blocking_completion).
LEMMA BlockingAnswerKept ==
  ASSUME ProviderInv, NEW kinds \in Seq(BlockKind), NEW r \in StopReason \cup {"none"},
         BlockingAnswer(kinds, r)
  PROVE  ProviderInv'
<1> DEFINE one == CHOOSE p \in Pieces : TRUE
           b(i) == [kind |-> kinds[i + 1], pieces |-> <<one>>, key |-> <<"block", i>>]
<1>0. /\ ProviderTypeOK /\ DOMAIN open = {} /\ stop' \in StopReason /\ stage' = "ok" /\ terminal'
      /\ complete' = [i \in 0..Len(kinds) - 1 |-> b(i)]
      /\ heard' = [k \in {"block"} \X (0..Len(kinds) - 1) |-> <<one>>]
      /\ UNCHANGED <<client, requests, open, sawTool>> /\ Len(kinds) \in Nat
      /\ terminal' \in BOOLEAN
  BY DEF ProviderInv, NothingHeard, BlockingAnswer, StopReason
<1>1. one \in Pieces
  BY ProviderAssumption
<1>2. \A i \in 0..Len(kinds) - 1 :
        b(i) \in Block /\ b(i).key = <<"block", i>> /\ b(i).pieces = <<one>>
  <2> TAKE i \in 0..Len(kinds) - 1
  <2>1. i \in Nat /\ kinds[i + 1] \in BlockKind
    <3>1. i + 1 \in 1..Len(kinds) /\ i \in Nat
      BY <1>0
    <3> QED
      BY <3>1
  <2> QED
    BY <2>1, <1>1 DEF Block, Key
<1> HIDE DEF b, one
<1>3. /\ DOMAIN complete' = 0..Len(kinds) - 1
      /\ \A i \in DOMAIN complete' : complete'[i] = b(i)
      /\ DOMAIN heard' = {<<"block", i>> : i \in 0..Len(kinds) - 1}
      /\ \A i \in DOMAIN complete' : heard'[<<"block", i>>] = <<one>>
  BY <1>0
<1>4. ProviderTypeOK'
  BY <1>0, <1>2, <1>3 DEF ProviderTypeOK
<1>5. CompletionWhole'
  <2>1. \A i \in DOMAIN complete' : complete'[i].key = <<"block", i>>
    BY <1>2, <1>3
  <2>2. {complete'[i].key : i \in DOMAIN complete'} = DOMAIN heard'
    BY <2>1, <1>3
  <2>3. \A i, j \in DOMAIN complete' : i # j => complete'[i].key # complete'[j].key
    BY <2>1
  <2>4. \A i \in DOMAIN complete' : complete'[i].pieces = heard'[complete'[i].key]
    BY <2>1, <1>2, <1>3
  <2>5. terminal' /\ stop' # "none" /\ DOMAIN open' = {}
    BY <1>0 DEF StopReason
  <2> QED
    BY <2>2, <2>3, <2>4, <2>5 DEF CompletionWhole
<1>6. NothingHeard'
  BY <1>0 DEF NothingHeard
<1> QED
  BY <1>0, <1>4, <1>5, <1>6 DEF ProviderInv

\* An answer whose blocks are all closed is whole as it stands (read_anthropic_sse,
\* read_google_sse at the end of the body).
LEMMA ClosedIsWhole ==
  ASSUME ProviderInv, stage = "reading", client # "OpenAI", DOMAIN open = {},
         stage' = "ok", terminal' \in BOOLEAN, terminal', stop' \in StopReason,
         UNCHANGED <<client, requests, open, complete, sawTool, heard>>
  PROVE  ProviderInv'
<1>1. ProviderTypeOK'
  BY DEF ProviderInv, ProviderTypeOK
<1>2. NothingHeard'
  BY DEF NothingHeard
<1>3. \A i : DoneKey(i) = <<"block", i>>
  BY KeysApart
<1>4. HeardIsKept
  BY DEF ProviderInv
<1>5. \A i \in DOMAIN complete : complete[i].key = <<"block", i>> /\ complete[i].pieces = heard[<<"block", i>>]
  BY <1>3, <1>4 DEF HeardIsKept
<1>6. DOMAIN heard = {complete[i].key : i \in DOMAIN complete}
  BY <1>3, <1>4 DEF HeardIsKept
<1>7. \A i, j \in DOMAIN complete : i # j => complete[i].key # complete[j].key
  <2> TAKE i, j \in DOMAIN complete
  <2>1. complete[i].key = <<"block", i>> /\ complete[j].key = <<"block", j>>
    BY <1>5
  <2> QED
    BY <2>1
<1>8. \A i \in DOMAIN complete : complete[i].pieces = heard[complete[i].key]
  BY <1>5
<1>9. CompletionWhole'
  BY <1>6, <1>7, <1>8 DEF CompletionWhole, StopReason
<1> QED
  BY <1>1, <1>2, <1>9 DEF ProviderInv

\* The tool calls of a finished OpenAI stream follow its text, each once, in the
\* order of their indices.
LEMMA OpenAiCloseKept ==
  ASSUME ProviderInv, OpenAiClose
  PROVE  ProviderInv'
<1> DEFINE n == NextPosition
           O == DOMAIN open
           m == Cardinality(O)
           pick(k) == CHOOSE i \in O : Cardinality(Below(i)) = k
<1>1. CASE Fail("BadResponse")
  BY <1>1, FailKept DEF ErrorClass
<1>2. CASE ~Fail("BadResponse")
  <2>0. HeardIsKept /\ PlacesOK /\ ProviderTypeOK /\ client = "OpenAI" /\ stage = "reading"
    BY DEF ProviderInv, OpenAiClose
  <2>1. /\ stop # "none" /\ stage' = "ok" /\ DOMAIN open' = {}
        /\ complete' = [x \in 0..n + m - 1 |-> IF x < n THEN complete[x] ELSE open[pick(x - n)]]
        /\ UNCHANGED <<client, requests, stop, terminal, sawTool, heard>>
    BY <1>2 DEF OpenAiClose
  <2>2. n \in Nat /\ DOMAIN complete = 0..n - 1
    <3>1. PICK c \in Nat : DOMAIN complete = 0..c - 1
      BY <2>0 DEF PlacesOK
    <3> QED
      BY <3>1, NextPlace
  <2>3. O \in SUBSET Nat /\ IsFiniteSet(O)
    BY <2>0, ProviderAssumption DEF PlacesOK
  <2>4. \A i \in O : Before(O, i) = Cardinality(Below(i))
    BY DEF Before, Below
  <2> HIDE DEF n, O
  <2>5. /\ m \in Nat
        /\ \A i \in O : Before(O, i) \in 0..m - 1
        /\ \A i, j \in O : Before(O, i) = Before(O, j) => i = j
        /\ \A k \in 0..m - 1 : \E i \in O : Before(O, i) = k
    BY <2>3, PlacesOfSet
  <2>6. \A k \in 0..m - 1 : pick(k) \in O /\ Before(O, pick(k)) = k
    <3> TAKE k \in 0..m - 1
    <3>1. \E i \in O : Cardinality(Below(i)) = k
      BY <2>4, <2>5
    <3>2. pick(k) \in O /\ Cardinality(Below(pick(k))) = k
      BY <3>1
    <3> HIDE DEF pick
    <3> QED
      BY <3>2, <2>4
  <2> HIDE DEF m, pick
  <2>7. \A i \in O : pick(Before(O, i)) = i
    BY <2>5, <2>6
  <2>8. /\ DOMAIN complete' = 0..n + m - 1
        /\ \A x \in 0..n - 1 : x \in DOMAIN complete' /\ complete'[x] = complete[x]
        /\ \A k \in 0..m - 1 : n + k \in DOMAIN complete' /\ complete'[n + k] = open[pick(k)]
    <3>1. DOMAIN complete' = 0..n + m - 1
      BY <2>1
    <3>2. \A x \in 0..n - 1 : x \in 0..n + m - 1 /\ x < n
      BY <2>2, <2>5
    <3>3. \A k \in 0..m - 1 : n + k \in 0..n + m - 1 /\ ~(n + k < n) /\ n + k - n = k
      BY <2>2, <2>5
    <3>4. \A x \in 0..n - 1 : complete'[x] = complete[x]
      BY <2>1, <3>2
    <3>5. \A k \in 0..m - 1 : complete'[n + k] = open[pick(k)]
      <4> TAKE k \in 0..m - 1
      <4> DEFINE x == n + k
      <4>0. k \in Nat /\ k <= m - 1
        BY <2>5
      <4>1. x \in 0..n + m - 1 /\ ~(x < n) /\ x - n = k
        BY <4>0, <2>2, <2>5
      <4> HIDE DEF x
      <4>2. complete'[x] = open[pick(x - n)]
        BY <2>1, <4>1
      <4> QED
        BY <4>1, <4>2 DEF x
    <3> QED
      BY <3>1, <3>2, <3>3, <3>4, <3>5
  <2>9. \A x \in DOMAIN complete' : x \in 0..n - 1 \/ \E k \in 0..m - 1 : x = n + k
    <3> SUFFICES ASSUME NEW x \in 0..n + m - 1, x \notin 0..n - 1
                 PROVE  \E k \in 0..m - 1 : x = n + k
      BY <2>8
    <3>1. x - n \in 0..m - 1 /\ x = n + (x - n)
      BY <2>2, <2>5
    <3> QED
      BY <3>1
  <2>10. \A x \in 0..n - 1 : complete'[x].key = <<"text", x>> /\ complete'[x].pieces = heard[<<"text", x>>]
    <3>1. \A x : DoneKey(x) = <<"text", x>>
      BY <2>0, KeysApart
    <3> QED
      BY <3>1, <2>0, <2>2, <2>8 DEF HeardIsKept
  <2>11. \A k \in 0..m - 1 : /\ complete'[n + k].key = <<"call", pick(k)>>
                             /\ complete'[n + k].pieces = heard[<<"call", pick(k)>>]
    <3>1. \A i : OpenKey(i) = <<"call", i>>
      BY <2>0, KeysApart
    <3>2. \A i \in O : open[i].key = <<"call", i>> /\ open[i].pieces = heard[<<"call", i>>]
      BY <3>1, <2>0 DEF HeardIsKept, O
    <3> QED
      BY <3>2, <2>6, <2>8
  <2>12. DOMAIN heard = {<<"call", i>> : i \in O} \cup {<<"text", x>> : x \in 0..n - 1}
    <3>1. \A i : OpenKey(i) = <<"call", i>> /\ DoneKey(i) = <<"text", i>>
      BY <2>0, KeysApart
    <3> QED
      BY <3>1, <2>0, <2>2 DEF HeardIsKept, O
  <2>13. {complete'[x].key : x \in DOMAIN complete'} = DOMAIN heard'
    <3>1. ASSUME NEW x \in DOMAIN complete' PROVE complete'[x].key \in DOMAIN heard
      <4>1. CASE x \in 0..n - 1
        BY <4>1, <2>10, <2>12
      <4>2. CASE \E k \in 0..m - 1 : x = n + k
        <5>1. PICK k \in 0..m - 1 : x = n + k
          BY <4>2
        <5> QED
          BY <5>1, <2>6, <2>11, <2>12
      <4> QED
        BY <4>1, <4>2, <2>9
    <3>2. ASSUME NEW i \in O PROVE \E x \in DOMAIN complete' : complete'[x].key = <<"call", i>>
      <4> DEFINE k == Before(O, i)
      <4>1. k \in 0..m - 1 /\ pick(k) = i
        BY <2>5, <2>7
      <4> HIDE DEF k
      <4>2. n + k \in DOMAIN complete' /\ complete'[n + k].key = <<"call", i>>
        BY <4>1, <2>8, <2>11
      <4> QED
        BY <4>2
    <3>3. ASSUME NEW i \in 0..n - 1 PROVE \E x \in DOMAIN complete' : complete'[x].key = <<"text", i>>
      BY <2>8, <2>10
    <3> QED
      BY <3>1, <3>2, <3>3, <2>1, <2>12
  <2>14. \A x, y \in DOMAIN complete' : x # y => complete'[x].key # complete'[y].key
    <3> SUFFICES ASSUME NEW x \in DOMAIN complete', NEW y \in DOMAIN complete',
                        complete'[x].key = complete'[y].key
                 PROVE  x = y
      OBVIOUS
    <3>1. \A a, b, c, d : <<a, b>> = <<c, d>> => a = c /\ b = d
      OBVIOUS
    <3>2. CASE x \in 0..n - 1 /\ y \in 0..n - 1
      <4>1. <<"text", x>> = <<"text", y>>
        BY <3>2, <2>10
      <4> QED
        BY <4>1, <3>1
    <3>3. CASE x \in 0..n - 1 /\ \E k \in 0..m - 1 : y = n + k
      <4>1. PICK k \in 0..m - 1 : y = n + k
        BY <3>3
      <4>2. <<"text", x>> = <<"call", pick(k)>>
        BY <3>3, <4>1, <2>10, <2>11
      <4> QED
        BY <4>2, <3>1
    <3>4. CASE y \in 0..n - 1 /\ \E k \in 0..m - 1 : x = n + k
      <4>1. PICK k \in 0..m - 1 : x = n + k
        BY <3>4
      <4>2. <<"text", y>> = <<"call", pick(k)>>
        BY <3>4, <4>1, <2>10, <2>11
      <4> QED
        BY <4>2, <3>1
    <3>5. CASE (\E k \in 0..m - 1 : x = n + k) /\ \E k \in 0..m - 1 : y = n + k
      <4>1. PICK k \in 0..m - 1 : x = n + k
        BY <3>5
      <4>2. PICK l \in 0..m - 1 : y = n + l
        BY <3>5
      <4>3. <<"call", pick(k)>> = <<"call", pick(l)>>
        BY <4>1, <4>2, <2>11
      <4>4. pick(k) = pick(l)
        BY <4>3, <3>1
      <4>5. k = l
        BY <4>4, <2>6
      <4> QED
        BY <4>1, <4>2, <4>5
    <3> QED
      BY <3>2, <3>3, <3>4, <3>5, <2>9
  <2>15. \A x \in DOMAIN complete' : complete'[x].pieces = heard'[complete'[x].key]
    <3> TAKE x \in DOMAIN complete'
    <3>1. CASE x \in 0..n - 1
      BY <3>1, <2>1, <2>10
    <3>2. CASE \E k \in 0..m - 1 : x = n + k
      <4>1. PICK k \in 0..m - 1 : x = n + k
        BY <3>2
      <4> QED
        BY <4>1, <2>1, <2>11
    <3> QED
      BY <3>1, <3>2, <2>9
  <2>16. CompletionWhole'
    <3>1. terminal' /\ stop' # "none" /\ DOMAIN open' = {}
      BY <2>0, <2>1 DEF PlacesOK
    <3> QED
      BY <3>1, <2>13, <2>14, <2>15 DEF CompletionWhole
  <2>17. ProviderTypeOK'
    <3>1. \A x \in DOMAIN complete' : complete'[x] \in Block
      <4> TAKE x \in DOMAIN complete'
      <4>1. CASE x \in 0..n - 1
        BY <4>1, <2>0, <2>2, <2>8 DEF ProviderTypeOK
      <4>2. CASE \E k \in 0..m - 1 : x = n + k
        <5>1. PICK k \in 0..m - 1 : x = n + k
          BY <4>2
        <5>2. pick(k) \in DOMAIN open
          BY <2>6 DEF O
        <5> QED
          BY <5>1, <5>2, <2>0, <2>8 DEF ProviderTypeOK
      <4> QED
        BY <4>1, <4>2, <2>9
    <3> QED
      BY <3>1, <2>0, <2>1 DEF ProviderTypeOK
  <2>18. NothingHeard'
    BY <2>1 DEF NothingHeard
  <2> QED
    BY <2>1, <2>16, <2>17, <2>18 DEF ProviderInv
<1> QED
  BY <1>1, <1>2

\* Every step of a request keeps the invariant.
LEMMA ProviderInvKept == ProviderInv /\ [ProviderNext]_providerVars => ProviderInv'
<1> SUFFICES ASSUME ProviderInv, [ProviderNext]_providerVars PROVE ProviderInv'
  OBVIOUS
<1>0. ProviderTypeOK
  BY DEF ProviderInv
<1>1. ASSUME NEW k \in ProviderKind, NEW budget, NEW secret, Prepare(k, budget, secret) PROVE ProviderInv'
  <2>1. stage = "new" /\ stage' \in {"ready"} \cup ErrorClass /\ UNCHANGED <<client, requests, reading>>
    BY <1>1 DEF Prepare, ErrorClass
  <2> QED
    BY <2>1, <1>0, BeforeKept DEF ProviderTypeOK, ErrorClass
<1>2. ASSUME NEW s \in Statuses, Send(s) PROVE ProviderInv'
  <2>1. s # 200 => classify(client, s) \in ErrorClass
    BY DEF Statuses, classify, ErrorClass
  <2>2. /\ stage = "ready" /\ requests' \in 0..2 /\ UNCHANGED <<client, reading>>
        /\ stage' \in {"blocking", "reading"} \cup ErrorClass
        /\ stage' = "blocking" => client = "OpenAI"
    BY <1>2, <2>1 DEF Send, ErrorClass
  <2> QED
    BY <2>2, BeforeKept
<1>3. ASSUME NEW s \in Statuses, StreamRefused(s) PROVE ProviderInv'
  <2>1. stage' \in ErrorClass
    BY <1>3 DEF StreamRefused, Statuses, classify, ErrorClass
  <2>2. stage = "blocking" /\ requests' \in 0..2 /\ UNCHANGED <<client, reading>>
    BY <1>3 DEF StreamRefused
  <2> QED
    BY <2>1, <2>2, BeforeKept DEF ErrorClass
<1>4. ASSUME SendFails PROVE ProviderInv'
  <2>1. /\ stage = "ready" /\ requests' \in 0..2 /\ UNCHANGED <<client, reading>>
        /\ stage' \in {"blocking"} \cup ErrorClass
        /\ stage' = "blocking" => client = "OpenAI"
    BY <1>4 DEF SendFails, ErrorClass
  <2> QED
    BY <2>1, BeforeKept
<1>5. ASSUME NEW kinds \in {<<"text">>, <<"text", "tool_use">>}, NEW r \in StopReason \cup {"none"},
             BlockingAnswer(kinds, r) PROVE ProviderInv'
  <2>1. kinds \in Seq(BlockKind)
    <3>1. "text" \in BlockKind /\ "tool_use" \in BlockKind
      BY DEF BlockKind
    <3>2. <<"text">> \in Seq(BlockKind) /\ <<"text", "tool_use">> \in Seq(BlockKind)
      BY <3>1
    <3> QED
      BY <3>2
  <2> QED
    BY <2>1, <1>5, BlockingAnswerKept
<1>6. CASE BlockingEmpty
  BY <1>6, FailKept DEF BlockingEmpty, ErrorClass
<1>7. CASE StreamInstead
  <2>1. stage = "blocking" /\ requests' \in 0..2 /\ UNCHANGED <<client, reading>> /\ stage' = "reading"
    BY <1>7 DEF StreamInstead
  <2> QED
    BY <2>1, BeforeKept
<1>8. ASSUME NEW p \in Pieces, OpenAiText(p) PROVE ProviderInv'
  <2>1. client = "OpenAI" /\ stage = "reading" /\ DoneKey(NextPosition) = <<"text", NextPosition>>
    BY <1>8, KeysApart DEF OpenAiText
  <2>2. /\ complete' = Put(complete, NextPosition,
                           [kind |-> "text", pieces |-> <<p>>, key |-> DoneKey(NextPosition)])
        /\ heard' = Put(heard, DoneKey(NextPosition), <<p>>)
        /\ UNCHANGED <<client, stage, requests, open, stop, terminal, sawTool>>
    BY <1>8, <2>1 DEF OpenAiText
  <2>3. sawTool' \in BOOLEAN /\ "text" \in BlockKind
    BY <2>2, <1>0 DEF ProviderTypeOK, BlockKind
  <2> QED
    BY <2>1, <2>2, <2>3, PlacedKept
<1>9. ASSUME NEW i \in Indices, NEW p \in Pieces, OpenAiTool(i, p) PROVE ProviderInv'
  BY <1>9, OpenAiToolKept
<1>10. ASSUME NEW r \in StopReason, OpenAiFinish(r) PROVE ProviderInv'
  BY <1>0, <1>10, MarkKept DEF OpenAiFinish, ProviderTypeOK
<1>11. ASSUME NEW r \in StopReason, MessageDelta(r) PROVE ProviderInv'
  BY <1>0, <1>11, MarkKept DEF MessageDelta, Anthropic, ProviderTypeOK
<1>12. ASSUME NEW r \in StopReason, GoogleFinish(r) PROVE ProviderInv'
  BY <1>0, <1>12, MarkKept DEF GoogleFinish, Google, ProviderTypeOK, StopReason
<1>13. CASE OpenAiClose
  BY <1>13, OpenAiCloseKept
<1>14. ASSUME NEW n \in 0..1, MessageStart(n) PROVE ProviderInv'
  BY <1>14, MessageStartKept
<1>15. ASSUME NEW i \in Indices, NEW k \in BlockKind, BlockStart(i, k) PROVE ProviderInv'
  BY <1>15, BlockStartKept
<1>16. ASSUME NEW i \in Indices, NEW d, NEW p \in Pieces, BlockDelta(i, d, p) PROVE ProviderInv'
  BY <1>16, BlockDeltaKept
<1>17. ASSUME NEW i \in Indices, BlockStop(i) PROVE ProviderInv'
  BY <1>17, BlockStopKept
<1>18. CASE MessageStop
  BY <1>0, <1>18, MarkKept DEF MessageStop, Anthropic, ProviderTypeOK
<1>19. ASSUME NEW tail, AnthropicClose(tail) PROVE ProviderInv'
  <2>1. CASE Fail("BadResponse")
    BY <2>1, FailKept DEF ErrorClass
  <2>2. CASE ~Fail("BadResponse")
    BY <1>0, <1>19, <2>2, ClosedIsWhole DEF AnthropicClose, Anthropic, reading, ProviderTypeOK
  <2> QED
    BY <2>1, <2>2
<1>20. ASSUME NEW k \in Deltas, NEW p \in Pieces, GooglePart(k, p) PROVE ProviderInv'
  <2>1. client = "Google" /\ stage = "reading" /\ DoneKey(NextPosition) = <<"block", NextPosition>>
    BY <1>20, KeysApart DEF GooglePart, Google
  <2>2. /\ complete' = Put(complete, NextPosition,
                           [kind |-> k, pieces |-> <<p>>, key |-> DoneKey(NextPosition)])
        /\ heard' = Put(heard, DoneKey(NextPosition), <<p>>)
        /\ UNCHANGED <<client, stage, requests, open, stop, terminal>>
    BY <1>20, <2>1 DEF GooglePart
  <2>3. sawTool' \in BOOLEAN /\ k \in BlockKind
    BY <1>20, <1>0 DEF GooglePart, ProviderTypeOK, Deltas, BlockKind
  <2> QED
    BY <2>1, <2>2, <2>3, PlacedKept
<1>21. CASE GoogleDone
  <2>1. /\ client = "Google" /\ stage = "reading" /\ stage' = "ok" /\ terminal'
        /\ UNCHANGED <<client, requests, open, complete, sawTool, heard>> /\ terminal' \in BOOLEAN
    BY <1>21 DEF GoogleDone, Google
  <2>2. stop' \in StopReason
    BY <1>21, <1>0 DEF GoogleDone, ProviderTypeOK, StopReason
  <2>3. DOMAIN open = {}
    BY <2>1 DEF ProviderInv, PlacesOK
  <2> QED
    BY <2>1, <2>2, <2>3, ClosedIsWhole
<1>22. CASE GoogleClose
  <2>1. CASE Fail("BadResponse")
    BY <2>1, FailKept DEF ErrorClass
  <2>2. CASE ~Fail("BadResponse")
    <3>1. /\ client = "Google" /\ stage = "reading" /\ stage' = "ok" /\ stop # "none"
          /\ UNCHANGED <<client, requests, open, complete, sawTool, heard, stop, terminal>>
      BY <1>22, <2>2 DEF GoogleClose, Google, reading
    <3>2. DOMAIN open = {} /\ terminal
      BY <3>1 DEF ProviderInv, PlacesOK
    <3>3. stop' \in StopReason /\ terminal' /\ terminal' \in BOOLEAN
      BY <3>1, <3>2, <1>0 DEF ProviderTypeOK
    <3> QED
      BY <3>1, <3>2, <3>3, ClosedIsWhole
  <2> QED
    BY <2>1, <2>2
<1>23. CASE Malformed
  BY <1>23, FailKept DEF Malformed, ErrorClass
<1>24. CASE Cut
  <2>1. Fail("BadResponse") \/ Fail("Transport")
    BY <1>24 DEF Cut, Fail
  <2> QED
    BY <2>1, FailKept DEF ErrorClass
<1>25. CASE UNCHANGED providerVars
  <2>1. ProviderTypeOK'
    BY <1>0, <1>25 DEF ProviderTypeOK, providerVars
  <2>2. NothingHeard'
    BY <1>25 DEF ProviderInv, NothingHeard, providerVars
  <2>3. stage' = "reading" => HeardIsKept'
    BY <1>25 DEF ProviderInv, HeardIsKept, OpenKey, DoneKey, providerVars
  <2>4. stage' = "reading" => PlacesOK'
    BY <1>25 DEF ProviderInv, PlacesOK, providerVars
  <2>5. CompletionWhole'
    BY <1>25 DEF ProviderInv, CompletionWhole, providerVars
  <2> QED
    BY <2>1, <2>2, <2>3, <2>4, <2>5 DEF ProviderInv
<1> QED
  BY <1>1, <1>2, <1>3, <1>4, <1>5, <1>6, <1>7, <1>8, <1>9, <1>10, <1>11, <1>12, <1>13,
     <1>14, <1>15, <1>16, <1>17, <1>18, <1>19, <1>20, <1>21, <1>22, <1>23, <1>24, <1>25
     DEF ProviderNext

\* Nothing asked and nothing heard.
LEMMA ProviderBegins == ProviderInit => ProviderInv
<1> SUFFICES ASSUME ProviderInit PROVE ProviderInv
  OBVIOUS
<1>1. DOMAIN open = {} /\ DOMAIN complete = {} /\ DOMAIN heard = {}
  BY DEF ProviderInit
<1>2. ProviderTypeOK
  <2>1. (\A i \in DOMAIN open : open[i] \in Block) /\ (\A i \in DOMAIN complete : complete[i] \in Block)
    BY <1>1
  <2>2. client \in ProviderKind /\ terminal \in BOOLEAN /\ sawTool \in BOOLEAN
    BY DEF ProviderInit
  <2>3. requests \in 0..2 /\ stage = "new" /\ stop = "none"
    BY DEF ProviderInit
  <2> QED
    BY <2>1, <2>2, <2>3 DEF ProviderTypeOK
<1>3. NothingHeard
  BY <1>1 DEF ProviderInit, NothingHeard
<1> QED
  BY <1>2, <1>3 DEF ProviderInit, ProviderInv, CompletionWhole

\* The invariant holds in every state of every request (Client::send).
THEOREM ProviderInductive == ProviderSpec => []ProviderInv
<1> QED
  BY ProviderBegins, ProviderInvKept, PTL DEF ProviderSpec

\* What a provider's client returns as a completion was finished by the provider and
\* has every block it sent, once, in order, with all its pieces: a cut stream, a
\* block left open or a missing finish reason never becomes an answer (read_*_sse,
\* collect_stream, blocking_completion).
THEOREM AnswersWhole == ProviderSpec => []CompletionWhole
<1>1. ProviderInv => CompletionWhole
  BY DEF ProviderInv
<1> QED
  BY <1>1, ProviderInductive, PTL

-----------------------------------------------------------------------------
(***************************************************************************)
(* Sequences                                                               *)
(***************************************************************************)
\* What is left of a sequence without its first element.
LEMMA TailOf ==
  ASSUME NEW S, NEW s \in Seq(S), s # <<>>
  PROVE  /\ Tail(s) \in Seq(S) /\ Len(s) \in Nat /\ Len(s) > 0 /\ Len(Tail(s)) = Len(s) - 1
         /\ Head(s) = s[1] /\ Head(s) \in S
         /\ \A i \in 1..Len(s) - 1 : Tail(s)[i] = s[i + 1]
         /\ DOMAIN s = 1..Len(s) /\ DOMAIN Tail(s) = 1..Len(s) - 1
OBVIOUS

-----------------------------------------------------------------------------
(***************************************************************************)
(* The language-server client (Lsp)                                        *)
(***************************************************************************)
LspCall == [at : {"idle", "initialize", "references"}, id : Nat, again : BOOLEAN]
LspClient == [call : LspCall, next_id : Nat, initialized : BOOLEAN]
LspServer == [spawn : Nat, alive : BOOLEAN, owes : SUBSET Nat, handshaken : BOOLEAN, asked : BOOLEAN]
LspFrame == [kind : FrameKind, id : Nat, spawn : Nat]
LspResult == [result : {"none", "ok", "Transport", "Protocol", "Crashed"}, asked : Nat \X Nat,
              of : Nat \X Nat, restarted : BOOLEAN]

\* How far the ids of a call may have got: a call begins below the bound, takes one or
\* two ids, and as many again on a fresh server.
IdsUsed(l) ==
  l.next_id <= CASE l.call.at = "initialize" /\ ~l.call.again -> MaxLspIds
                 [] l.call.at = "references" /\ ~l.call.again -> MaxLspIds + 1
                 [] l.call.at = "initialize" /\ l.call.again -> MaxLspIds + 2
                 [] OTHER -> MaxLspIds + 3

\* The pipe holds only what the process that runs now wrote, because a fresh one is
\* started when the old one's pipe is empty; and the client takes for initialized only
\* a process it shook hands with (references).
LspInv ==
  /\ lsp \in LspClient /\ server \in LspServer /\ lspPipe \in Seq(LspFrame) /\ lspReturn \in LspResult
  /\ IdsUsed(lsp) /\ lsp.call.id <= lsp.next_id
  /\ server.spawn \in 1..MaxSpawns
  /\ \A id \in server.owes : id <= lsp.next_id
  /\ \A i \in DOMAIN lspPipe : lspPipe[i].spawn = server.spawn
  /\ lsp.initialized => server.handshaken
  /\ LspAnswerIsMine

\* The bounds are numbers, and a first process can be started.
LEMMA LspNumbers == MaxLspIds \in Nat /\ MaxSpawns \in Nat /\ MaxSpawns >= 1
BY LspAssumption


\* Nothing is asked and nothing is owed at first.
LEMMA LspBegins == LspInit => LspInv
<1> SUFFICES ASSUME LspInit PROVE LspInv
  OBVIOUS
<1>1. lspPipe \in Seq(LspFrame) /\ DOMAIN lspPipe = {}
  BY DEF LspInit
<1>2. lsp \in LspClient /\ lsp.next_id = 0 /\ lsp.call.id = 0 /\ ~lsp.initialized /\ lsp.call.at = "idle"
  BY DEF LspInit, LspClient, LspCall, Idling
<1>3. server \in LspServer /\ server.spawn = 1 /\ server.owes = {} /\ ~server.asked
  BY DEF LspInit, LspServer, NewServer
<1>4. lspReturn \in LspResult /\ lspReturn.result = "none"
  BY DEF LspInit, LspResult, LspNone
<1>5. IdsUsed(lsp)
  BY <1>2, LspNumbers DEF IdsUsed
<1> QED
  BY <1>1, <1>2, <1>3, <1>4, <1>5, LspNumbers DEF LspInv, LspAnswerIsMine

\* A call that ends leaves ids and server as they were.
LEMMA GiveKeeps ==
  ASSUME LspInv, NEW result \in {"Transport", "Protocol", "Crashed"}, Give(result, <<0, 0>>),
         server' \in {server, [server EXCEPT !.alive = FALSE]},
         lspPipe' = lspPipe \/ (lspPipe # <<>> /\ lspPipe' = Tail(lspPipe))
  PROVE  LspInv'
<1>1. /\ lsp' \in LspClient /\ lsp'.next_id = lsp.next_id /\ lsp'.initialized = lsp.initialized
      /\ lsp'.call = Idling
  BY DEF LspInv, Give, LspClient, LspCall, Idling
<1>2. /\ server' \in LspServer /\ server'.spawn = server.spawn /\ server'.owes = server.owes
      /\ server'.asked = server.asked /\ server'.handshaken = server.handshaken
  BY DEF LspInv, LspServer
<1>3. lspPipe' \in Seq(LspFrame) /\ \A i \in DOMAIN lspPipe' : lspPipe'[i].spawn = server.spawn
  <2>1. CASE lspPipe' = lspPipe
    BY <2>1 DEF LspInv
  <2>2. CASE lspPipe # <<>> /\ lspPipe' = Tail(lspPipe)
    BY <2>2, TailOf DEF LspInv
  <2> QED
    BY <2>1, <2>2
<1>4. lspReturn' \in LspResult /\ lspReturn'.result = result
  <2>1. lsp.call.id \in Nat /\ lsp.call.again \in BOOLEAN /\ server.spawn \in Nat
    BY DEF LspInv, LspClient, LspCall, LspServer
  <2> QED
    BY <2>1 DEF Give, LspResult
<1>5. IdsUsed(lsp')
  <2>1. lsp.next_id \in Nat /\ lsp.next_id <= MaxLspIds + 3
    BY LspNumbers DEF LspInv, IdsUsed, LspClient
  <2> QED
    BY <1>1, <2>1 DEF IdsUsed, Idling
<1>6. lsp'.call.id <= lsp'.next_id
  BY <1>1 DEF Idling, LspClient
<1>7. LspAnswerIsMine'
  BY <1>2, <1>4 DEF LspAnswerIsMine, LspInv
<1> QED
  BY <1>1, <1>2, <1>3, <1>4, <1>5, <1>6, <1>7 DEF LspInv

\* What a references request makes of a client.
LEMMA ReferencesIs ==
  ASSUME NEW l \in LspClient, NEW again \in BOOLEAN, NEW c, c = ReferencesCall(l, again)
  PROVE  /\ c \in LspClient /\ c.next_id = l.next_id + 1 /\ c.call.id = l.next_id + 1
         /\ c.call.at = "references" /\ c.call.again = again /\ c.initialized = l.initialized
<1>1. l.next_id + 1 \in Nat /\ l.initialized \in BOOLEAN
  BY DEF LspClient
<1>2. [at |-> "references", id |-> l.next_id + 1, again |-> again] \in LspCall
  BY <1>1 DEF LspCall
<1> QED
  BY <1>1, <1>2 DEF ReferencesCall, LspClient

\* The language client's invariant is inductive.
LEMMA LspInvKept ==
  ASSUME LspInv, [LspNext]_lspVars
  PROVE  LspInv'
<1>t. /\ lsp.next_id \in Nat /\ lsp.call \in LspCall /\ lsp.initialized \in BOOLEAN
      /\ lsp.call.id \in Nat /\ lsp.call.again \in BOOLEAN
      /\ server.spawn \in Nat /\ server.owes \subseteq Nat
  BY DEF LspInv, LspClient, LspServer, LspCall
<1>n. LspNone \in LspResult /\ LspNone.result = "none"
  BY DEF LspNone, LspResult
<1>1. CASE UNCHANGED lspVars
  BY <1>1 DEF lspVars, LspInv, LspAnswerIsMine
<1>2. CASE references
  <2> DEFINE next == IF lsp.initialized THEN ReferencesCall(lsp, FALSE) ELSE InitializeCall(lsp.next_id, FALSE)
  <2>1. ~Awaiting /\ lsp.next_id < MaxLspIds /\ lspPipe' = lspPipe
    BY <1>2 DEF references
  <2>2. /\ next \in LspClient /\ next.next_id = lsp.next_id + 1 /\ next.call.id <= lsp.next_id + 1
        /\ next.call.at = (IF lsp.initialized THEN "references" ELSE "initialize")
        /\ next.initialized = lsp.initialized /\ ~next.call.again
    <3>0. lsp \in LspClient
      BY DEF LspInv
    <3>a. /\ lsp.initialized => next = ReferencesCall(lsp, FALSE)
          /\ ~lsp.initialized => next = InitializeCall(lsp.next_id, FALSE)
      OBVIOUS
    <3> HIDE DEF next
    <3>1. CASE lsp.initialized
      <4>1. next = ReferencesCall(lsp, FALSE) /\ FALSE \in BOOLEAN
        BY <3>1, <3>a
      <4>2. /\ next \in LspClient /\ next.next_id = lsp.next_id + 1 /\ next.call.id = lsp.next_id + 1
            /\ next.call.at = "references" /\ next.call.again = FALSE
            /\ next.initialized = lsp.initialized
        BY ONLY <3>0, <4>1, ReferencesIs
      <4> QED
        BY <3>1, <4>2, <1>t
    <3>2. CASE ~lsp.initialized
      <4>1. next = InitializeCall(lsp.next_id, FALSE) /\ FALSE \in BOOLEAN
        BY <3>2, <3>a
      <4>2. /\ next \in LspClient /\ next.next_id = lsp.next_id + 1 /\ next.call.id = lsp.next_id
            /\ next.call.at = "initialize" /\ next.call.again = FALSE /\ next.initialized = FALSE
        <5>1. lsp.next_id + 1 \in Nat
          BY <1>t
        <5> QED
          BY ONLY <4>1, <5>1, <1>t DEF InitializeCall, LspClient, LspCall
      <4>3. lsp.next_id <= lsp.next_id + 1
        BY <1>t
      <4>4. ~next.call.again /\ next.initialized = lsp.initialized
        BY <3>2, <4>2, <1>t
      <4> QED
        BY ONLY <3>2, <4>2, <4>3, <4>4
    <3> QED
      BY <3>1, <3>2
  <2>3. /\ server.alive /\ lsp' = next /\ lspReturn' = LspNone
        /\ server' = [server EXCEPT !.owes = @ \cup {next.call.id},
                                    !.asked = @ \/ next.call.at = "references"]
        \/ /\ lsp' = [next EXCEPT !.call = Idling]
           /\ lspReturn' = [LspNone EXCEPT !.result = "Transport"] /\ server' = server
    BY <1>2 DEF references
  <2> HIDE DEF next
  <2>4. next.call \in LspCall /\ next.call.id \in Nat /\ next.next_id \in Nat
    BY <2>2 DEF LspClient, LspCall
  <2>5. CASE /\ lsp' = next /\ lspReturn' = LspNone
             /\ server' = [server EXCEPT !.owes = @ \cup {next.call.id},
                                         !.asked = @ \/ next.call.at = "references"]
    <3>1. /\ server' \in LspServer /\ server'.spawn = server.spawn
          /\ server'.owes = server.owes \cup {next.call.id} /\ server'.handshaken = server.handshaken
          /\ server'.asked = (server.asked \/ next.call.at = "references")
      BY <2>4, <2>5 DEF LspInv, LspServer
    <3>2. IdsUsed(lsp')
      BY <2>1, <2>2, <2>5, <1>t, LspNumbers DEF IdsUsed
    <3>3. \A id \in server'.owes : id <= lsp'.next_id
      BY <3>1, <2>2, <2>4, <2>5, <1>t DEF LspInv
    <3>4. server'.asked => server'.handshaken
      BY <3>1, <2>2 DEF LspInv, LspAnswerIsMine
    <3> QED
      BY <1>n, <2>1, <2>2, <2>5, <3>1, <3>2, <3>3, <3>4 DEF LspInv, LspAnswerIsMine
  <2>6. CASE /\ lsp' = [next EXCEPT !.call = Idling]
             /\ lspReturn' = [LspNone EXCEPT !.result = "Transport"] /\ server' = server
    <3>1. /\ lsp' \in LspClient /\ lsp'.next_id = lsp.next_id + 1 /\ lsp'.initialized = lsp.initialized
          /\ lsp'.call = Idling
      BY <2>2, <2>6 DEF LspClient, LspCall, Idling
    <3>2. lspReturn' \in LspResult /\ lspReturn'.result = "Transport"
      BY <2>6 DEF LspResult, LspNone
    <3>3. IdsUsed(lsp') /\ lsp'.call.id <= lsp'.next_id
      BY <3>1, <2>1, <1>t, LspNumbers DEF IdsUsed, Idling
    <3>4. \A id \in server'.owes : id <= lsp'.next_id
      BY <3>1, <2>6, <1>t DEF LspInv
    <3> QED
      BY <2>1, <2>6, <3>1, <3>2, <3>3, <3>4 DEF LspInv, LspAnswerIsMine
  <2> QED
    BY <2>3, <2>5, <2>6
<1>3. CASE send_and_expect
  <2> DEFINE frame == Head(lspPipe)
  <2>1. Awaiting /\ lspPipe # <<>> /\ lspPipe' = Tail(lspPipe)
    BY <1>3 DEF send_and_expect
  <2>2. frame \in LspFrame /\ frame.spawn = server.spawn
    BY <2>1 DEF LspInv
  <2>3. lspPipe' \in Seq(LspFrame) /\ \A i \in DOMAIN lspPipe' : lspPipe'[i].spawn = server.spawn
    BY <2>1, TailOf DEF LspInv
  <2>4. \/ Expected(frame) /\ Proceed(frame)
        \/ UNCHANGED <<lsp, server, lspReturn>>
        \/ Give(Class("Protocol"), <<0, 0>>) /\ UNCHANGED server
        \/ Give(Class("Transport"), <<0, 0>>) /\ server' = [server EXCEPT !.alive = FALSE]
    BY <1>3 DEF send_and_expect
  <2> HIDE DEF frame
  <2>5. Class("Protocol") \in {"Transport", "Protocol", "Crashed"} /\ Class("Transport") \in {"Transport", "Protocol", "Crashed"}
    BY DEF Class
  <2>6. CASE Expected(frame) /\ Proceed(frame)
    <3>1. frame.id = lsp.call.id
      BY <2>6 DEF Expected
    <3>2. CASE lsp.call.at = "initialize" /\ server.alive
      <4> DEFINE next == ReferencesCall([lsp EXCEPT !.initialized = TRUE], lsp.call.again)
      <4>1. /\ lsp' = next /\ lspReturn' = LspNone
            /\ server' = [server EXCEPT !.owes = @ \cup {next.call.id}, !.handshaken = TRUE, !.asked = TRUE]
        BY <2>6, <3>2 DEF Proceed
      <4>2. /\ next \in LspClient /\ next.next_id = lsp.next_id + 1 /\ next.call.id = lsp.next_id + 1
            /\ next.call.at = "references" /\ next.call.again = lsp.call.again
        <5> DEFINE l == [lsp EXCEPT !.initialized = TRUE]
        <5>1. l \in LspClient /\ l.next_id = lsp.next_id
          BY DEF LspInv, LspClient
        <5>2. next = ReferencesCall(l, lsp.call.again)
          OBVIOUS
        <5> HIDE DEF l, next
        <5> QED
          BY ONLY <5>1, <5>2, <1>t, ReferencesIs
      <4> HIDE DEF next
      <4>3. /\ server' \in LspServer /\ server'.spawn = server.spawn /\ server'.handshaken
            /\ server'.owes = server.owes \cup {lsp.next_id + 1}
        <5>1. lsp.next_id + 1 \in Nat
          BY <1>t
        <5> QED
          BY <4>1, <4>2, <5>1 DEF LspInv, LspServer
      <4>4. IdsUsed(lsp')
        <5>1. lsp.next_id <= IF lsp.call.again THEN MaxLspIds + 2 ELSE MaxLspIds
          BY <3>2, <1>t DEF LspInv, IdsUsed
        <5> QED
          BY <5>1, <4>1, <4>2, <1>t, LspNumbers DEF IdsUsed
      <4>5. \A id \in server'.owes : id <= lsp'.next_id
        BY <4>1, <4>2, <4>3, <1>t DEF LspInv
      <4> QED
        BY <1>n, <1>t, <2>3, <4>1, <4>2, <4>3, <4>4, <4>5 DEF LspInv, LspAnswerIsMine
    <3>3. CASE lsp.call.at = "initialize" /\ ~server.alive
      <4>1. Give("Transport", <<0, 0>>) /\ UNCHANGED server
        BY <2>6, <3>3 DEF Proceed
      <4> QED
        BY <4>1, <2>1, GiveKeeps
    <3>4. CASE lsp.call.at = "references" /\ frame.kind = "response"
      <4>1. Give("ok", <<frame.spawn, frame.id>>) /\ UNCHANGED server
        BY <2>6, <3>4 DEF Proceed
      <4>2. /\ lsp' \in LspClient /\ lsp'.next_id = lsp.next_id /\ lsp'.initialized = lsp.initialized
            /\ lsp'.call = Idling
        BY <4>1 DEF LspInv, Give, LspClient, LspCall, Idling
      <4>3. lspReturn' \in LspResult /\ lspReturn'.of = lspReturn'.asked
        BY <4>1, <2>2, <3>1, <1>t DEF Give, LspResult
      <4>4. IdsUsed(lsp') /\ lsp'.call.id <= lsp'.next_id
        <5>1. lsp.next_id <= MaxLspIds + 3
          BY <1>t, LspNumbers DEF LspInv, IdsUsed
        <5> QED
          BY <5>1, <4>2, <1>t DEF IdsUsed, Idling
      <4> QED
        BY <2>3, <4>1, <4>2, <4>3, <4>4 DEF LspInv, LspAnswerIsMine
    <3>5. CASE lsp.call.at = "references" /\ frame.kind # "response"
      <4>1. Give(Class("Protocol"), <<0, 0>>) /\ UNCHANGED server
        BY <2>6, <3>5 DEF Proceed
      <4> QED
        BY <4>1, <2>1, <2>5, GiveKeeps
    <3> QED
      BY <2>6, <3>2, <3>3, <3>4, <3>5 DEF Proceed
  <2>7. CASE UNCHANGED <<lsp, server, lspReturn>>
    BY <2>3, <2>7 DEF LspInv, LspAnswerIsMine
  <2>8. CASE Give(Class("Protocol"), <<0, 0>>) /\ UNCHANGED server
    BY <2>1, <2>5, <2>8, GiveKeeps
  <2>9. CASE Give(Class("Transport"), <<0, 0>>) /\ server' = [server EXCEPT !.alive = FALSE]
    BY <2>1, <2>5, <2>9, GiveKeeps
  <2> QED
    BY <2>4, <2>6, <2>7, <2>8, <2>9
<1>4. CASE ReadStalls
  <2>1. Class("Transport") \in {"Transport", "Protocol", "Crashed"}
    BY DEF Class
  <2> QED
    BY <1>4, <2>1, GiveKeeps DEF ReadStalls
<1>5. CASE Restart
  <2>1. /\ Dead /\ lsp.call.at = "references" /\ ~lsp.call.again /\ server.spawn < MaxSpawns
        /\ server' = [NewServer(server.spawn + 1) EXCEPT !.owes = {lsp.next_id}]
        /\ lsp' = InitializeCall(lsp.next_id, TRUE) /\ UNCHANGED <<lspPipe, lspReturn>>
    BY <1>5 DEF Restart
  <2>2. lspPipe' = <<>>
    BY <2>1 DEF Dead
  <2>3. /\ server' \in LspServer /\ server'.spawn = server.spawn + 1 /\ server'.owes = {lsp.next_id}
        /\ ~server'.asked
    <3>1. server.spawn + 1 \in Nat /\ {lsp.next_id} \subseteq Nat
      BY <1>t
    <3> QED
      BY <2>1, <3>1 DEF NewServer, LspServer
  <2>4. /\ lsp' \in LspClient /\ lsp'.next_id = lsp.next_id + 1 /\ lsp'.call.id = lsp.next_id
        /\ lsp'.call.at = "initialize" /\ lsp'.call.again /\ ~lsp'.initialized
    <3>1. lsp.next_id + 1 \in Nat
      BY <1>t
    <3> QED
      BY ONLY <2>1, <3>1, <1>t DEF InitializeCall, LspClient, LspCall
  <2>5. IdsUsed(lsp')
    <3>1. lsp.next_id <= MaxLspIds + 1
      BY <2>1, <1>t DEF LspInv, IdsUsed
    <3> QED
      BY <3>1, <2>4, <1>t, LspNumbers DEF IdsUsed
  <2>6. server'.spawn \in 1..MaxSpawns
    BY <2>1, <2>3, <1>t, LspNumbers
  <2> QED
    <3>1. lspPipe' \in Seq(LspFrame) /\ \A i \in DOMAIN lspPipe' : lspPipe'[i].spawn = server'.spawn
      BY <2>2
    <3>2. \A id \in server'.owes : id <= lsp'.next_id
      BY <2>3, <2>4, <1>t
    <3>3. lsp'.call.id <= lsp'.next_id
      BY <2>4, <1>t
    <3>4. lspReturn' \in LspResult /\ (lspReturn'.result = "ok" => lspReturn'.of = lspReturn'.asked)
      BY <2>1 DEF LspInv, LspAnswerIsMine
    <3> QED
      BY <2>3, <2>4, <2>5, <2>6, <3>1, <3>2, <3>3, <3>4 DEF LspInv, LspAnswerIsMine
<1>6. CASE RestartFails
  <2>1. /\ lsp' = [lsp EXCEPT !.call = Idling, !.initialized = FALSE]
        /\ lspReturn' = [LspNone EXCEPT !.result = "Transport", !.restarted = TRUE]
        /\ UNCHANGED <<server, lspPipe>>
    BY <1>6 DEF RestartFails
  <2>2. lsp' \in LspClient /\ lsp'.next_id = lsp.next_id /\ ~lsp'.initialized /\ lsp'.call = Idling
    BY <2>1 DEF LspInv, LspClient, LspCall, Idling
  <2>3. lspReturn' \in LspResult /\ lspReturn'.result = "Transport"
    BY <2>1 DEF LspResult, LspNone
  <2>4. IdsUsed(lsp') /\ lsp'.call.id <= lsp'.next_id
    <3>1. lsp.next_id <= MaxLspIds + 3
      BY <1>t, LspNumbers DEF LspInv, IdsUsed
    <3> QED
      BY <3>1, <2>2, <1>t DEF IdsUsed, Idling
  <2> QED
    BY <2>1, <2>2, <2>3, <2>4 DEF LspInv, LspAnswerIsMine
<1>7. CASE Crashed
  BY <1>7, GiveKeeps DEF Crashed
<1>8. ASSUME NEW kind \in FrameKind, NEW id \in 0..MaxLspIds + 3, ServerSays(kind, id)
      PROVE  LspInv'
  <2> DEFINE frame == [kind |-> kind, id |-> id, spawn |-> server.spawn]
  <2>1. lspPipe' = Append(lspPipe, frame) /\ UNCHANGED <<lsp, lspReturn>>
    BY <1>8 DEF ServerSays
  <2>2. frame \in LspFrame /\ frame.spawn = server.spawn
    BY <1>t, LspNumbers DEF LspFrame
  <2>3. /\ server' \in LspServer /\ server'.spawn = server.spawn /\ server'.owes \subseteq server.owes
        /\ server'.asked = server.asked /\ server'.handshaken = server.handshaken
    BY <1>8 DEF ServerSays, LspInv, LspServer
  <2> HIDE DEF frame
  <2>4. lspPipe' \in Seq(LspFrame) /\ \A i \in DOMAIN lspPipe' : lspPipe'[i].spawn = server.spawn
    BY <2>1, <2>2 DEF LspInv
  <2> QED
    BY <2>1, <2>3, <2>4 DEF LspInv, LspAnswerIsMine
<1>9. CASE ServerExits
  <2>1. server' = [server EXCEPT !.alive = FALSE] /\ UNCHANGED <<lsp, lspPipe, lspReturn>>
    BY <1>9 DEF ServerExits
  <2>2. /\ server' \in LspServer /\ server'.spawn = server.spawn /\ server'.owes = server.owes
        /\ server'.asked = server.asked /\ server'.handshaken = server.handshaken
    BY <2>1 DEF LspInv, LspServer
  <2> QED
    BY <2>1, <2>2 DEF LspInv, LspAnswerIsMine
<1> QED
  BY <1>1, <1>2, <1>3, <1>4, <1>5, <1>6, <1>7, <1>8, <1>9 DEF LspNext

\* What the invariant says of the client.
LEMMA LspTyped == LspInv => LspTypeOK /\ LspAnswerIsMine
<1> SUFFICES ASSUME LspInv PROVE LspTypeOK
  BY DEF LspInv
<1>1. lsp.next_id \in Nat /\ lsp.call.at \in {"idle", "initialize", "references"} /\ lsp.initialized \in BOOLEAN
  BY DEF LspInv, LspClient, LspCall
<1>2. lsp.next_id \in 0..MaxLspIds + 3
  BY <1>1, LspNumbers DEF LspInv, IdsUsed
<1>3. server.owes \subseteq 0..MaxLspIds + 3
  <2>1. server.owes \subseteq Nat
    BY DEF LspInv, LspServer
  <2> QED
    BY <1>2, <2>1, LspNumbers DEF LspInv
<1>4. \A i \in DOMAIN lspPipe : lspPipe[i] \in LspFrame
  BY DEF LspInv
<1>5. lspReturn \in LspResult
  BY DEF LspInv
<1> QED
  BY <1>1, <1>2, <1>3, <1>4, <1>5 DEF LspInv, LspTypeOK, LspFrame, LspResult

\* Of some naturals one is the least.
LEMMA NatMin ==
  ASSUME NEW T \in SUBSET Nat, T # {}
  PROVE  \E x \in T : \A y \in T : x <= y
<1> DEFINE R == OpToRel(<, Nat)
<1>1. IsWellFoundedOn(R, Nat)
  BY NatLessThanWellFounded
<1>2. \E x \in T : \A y \in T : ~(<<y, x>> \in R)
  <2> HIDE DEF R
  <2> QED BY <1>1, WFMin
<1>3. PICK x \in T : \A y \in T : ~(<<y, x>> \in R)
  BY <1>2
<1>4. \A y \in T : <<y, x>> \in R <=> y < x
  BY DEF OpToRel
<1> HIDE DEF R
<1>5. \A y \in T : ~(y < x)
  BY <1>3, <1>4
<1> QED
  BY <1>5

-----------------------------------------------------------------------------
(***************************************************************************)
(* The MCP gateway (Mcp)                                                   *)
(***************************************************************************)
ProbeMethod == {"initialize", "notify", "tools/list", "page"}
GatewayRecord ==
  [at : {"down", "probing", "up"}, todo : Seq(McpServers), live : SUBSET McpServers,
   server : McpServers \cup {"none"}, method : ProbeMethod \cup {"none", "tools/call"},
   listed : Seq(Tool), pages : Nat, sessions : Nat]
McpResult == [result : {"none", "ok", "Transport", "Protocol"}, asked : Nat, of : Nat]

\* A table of tools: each row is under the joined name of what it says.
CacheTyped(cache) ==
  \A t \in DOMAIN cache : cache[t] \in Row /\ t = Namespaced[<<cache[t].server, cache[t].local>>]

\* The server asked while a gateway is probing is one not probed before: it is neither
\* up nor still to come, and neither is any server still to come up.
ProbeOnce ==
  /\ \A i, j \in DOMAIN gateway.todo : gateway.todo[i] = gateway.todo[j] => i = j
  /\ gateway.method \in ProbeMethod => gateway.at = "probing"
  /\ gateway.method = "tools/call" => gateway.at = "up"
  /\ gateway.method # "none" => gateway.server \in McpServers
  /\ gateway.at = "probing" =>
       /\ \A i \in DOMAIN gateway.todo : gateway.todo[i] \notin gateway.live
       /\ gateway.method # "none" =>
            gateway.server \notin gateway.live /\ \A i \in DOMAIN gateway.todo : gateway.todo[i] # gateway.server
       /\ gateway.method = "none" /\ gateway.todo = <<>> => McpServers = {}

McpInv ==
  /\ gateway \in GatewayRecord /\ transport \in [McpServers -> Transport] /\ mcpReturn \in McpResult
  /\ CacheTyped(mcpCache) /\ ProbeOnce /\ AnswerIsMine

\* What the configuration gives.
LEMMA McpConstants ==
  /\ Configured \in Seq(McpServers) /\ StdioServers \subseteq McpServers /\ Unnameable \subseteq RemoteTools
  /\ \A i, j \in DOMAIN Configured : Configured[i] = Configured[j] => i = j
  /\ (Configured = <<>> => McpServers = {})
<1>1. Configured = <<>> => McpServers = {}
  BY DEF McpServers
<1> QED
  BY <1>1, McpAssumption

\* A fresh transport is one.
LEMMA FreshIs == Fresh \in Transport /\ [Fresh EXCEPT !.id = 1] \in Transport /\ NoReturn \in McpResult
<1>1. <<>> \in Seq(Line)
  OBVIOUS
<1> QED
  BY <1>1 DEF Fresh, Transport, NoReturn, McpResult

\* No gateway, and transports that never ran.
LEMMA McpBegins == McpInit => McpInv
<1> SUFFICES ASSUME McpInit PROVE McpInv
  OBVIOUS
<1>1. <<>> \in Seq(McpServers) /\ DOMAIN <<>> = {} /\ <<>> \in Seq(Tool)
  OBVIOUS
<1>2. /\ gateway \in GatewayRecord /\ gateway.at = "down" /\ gateway.method = "none"
      /\ gateway.todo = <<>>
  BY <1>1 DEF McpInit, GatewayRecord
<1>3. CacheTyped(mcpCache)
  BY <1>1 DEF McpInit, CacheTyped
<1>4. ProbeOnce
  BY <1>1, <1>2 DEF ProbeOnce, ProbeMethod
<1> QED
  BY <1>2, <1>3, <1>4, FreshIs DEF McpInit, McpInv, AnswerIsMine, NoReturn

\* What becomes of the gateway when the request it made came to nothing.
LEMMA AbandonIs ==
  ASSUME McpInv
  PROVE  LET g == Abandon(gateway) IN
         /\ g \in GatewayRecord /\ g.todo = gateway.todo /\ g.live = gateway.live /\ g.method = "none"
         /\ gateway.at = "probing" =>
              /\ g.at \in {"probing", "up"}
              /\ g.at = "probing" => gateway.todo # <<>>
         /\ gateway.at # "probing" => g.at = gateway.at
<1>1. <<>> \in Seq(Tool)
  OBVIOUS
<1> QED
  BY <1>1 DEF McpInv, GatewayRecord, Abandon

\* Giving up a probe leaves each server probed at most once (Gateway::probe).
LEMMA AbandonKeeps ==
  ASSUME McpInv, gateway' = Abandon(gateway)
  PROVE  gateway' \in GatewayRecord /\ ProbeOnce'
<1> DEFINE g == Abandon(gateway)
<1>1. /\ g \in GatewayRecord /\ g.todo = gateway.todo /\ g.live = gateway.live /\ g.method = "none"
      /\ gateway.at = "probing" =>
           /\ g.at \in {"probing", "up"}
           /\ g.at = "probing" => gateway.todo # <<>>
      /\ gateway.at # "probing" => g.at = gateway.at
  BY AbandonIs
<1>2. gateway' = g
  OBVIOUS
<1> HIDE DEF g
<1> QED
  BY <1>1, <1>2 DEF McpInv, ProbeOnce, ProbeMethod

\* A refused or failed call keeps the gateway's invariant.
LEMMA RefuseKeeps ==
  ASSUME McpInv, NEW s \in McpServers, NEW class \in {"Transport", "Protocol"}, Refuse(s, class),
         transport' \in [McpServers -> Transport]
  PROVE  McpInv'
<1>1. gateway' \in GatewayRecord /\ ProbeOnce'
  BY AbandonKeeps DEF Refuse
<1>2. transport[s].id \in Nat
  BY DEF McpInv, Transport
<1>3. mcpReturn' \in McpResult /\ mcpReturn'.result = class
  BY <1>2 DEF Refuse, McpResult
<1> QED
  BY <1>1, <1>3 DEF Refuse, McpInv, CacheTyped, AnswerIsMine

\* A line less in the pipe, and one more id, leave a transport.
LEMMA TransportsStay ==
  ASSUME McpInv, NEW s \in McpServers
  PROVE  /\ \A b \in BOOLEAN : transport[s].stdout # <<>> =>
              [transport EXCEPT ![s].stdout = Tail(@), ![s].partial = b] \in [McpServers -> Transport]
         /\ [transport EXCEPT ![s].id = @ + 1] \in [McpServers -> Transport]
         /\ [transport EXCEPT ![s].partial = FALSE] \in [McpServers -> Transport]
         /\ [transport EXCEPT ![s].alive = FALSE] \in [McpServers -> Transport]
         /\ transport[s].id \in Nat /\ transport[s].stdout \in Seq(Line)
<1>1. transport[s] \in Transport /\ transport \in [McpServers -> Transport]
  BY DEF McpInv
<1>2. transport[s].id + 1 \in Nat /\ transport[s].id \in Nat /\ transport[s].stdout \in Seq(Line)
  BY <1>1 DEF Transport
<1>3. ASSUME NEW b \in BOOLEAN, transport[s].stdout # <<>>
      PROVE  [transport EXCEPT ![s].stdout = Tail(@), ![s].partial = b] \in [McpServers -> Transport]
  <2>1. Tail(transport[s].stdout) \in Seq(Line)
    BY <1>2, <1>3
  <2> QED
    BY <1>1, <2>1 DEF Transport
<1> QED
  BY <1>1, <1>2, <1>3 DEF Transport

\* Sending a request keeps the gateway's invariant.
LEMMA AskKeeps ==
  ASSUME McpInv, NEW s \in McpServers, NEW method \in ProbeMethod \cup {"tools/call"}, Ask(s, method),
         gateway.at = IF method = "tools/call" THEN "up" ELSE "probing",
         method = "tools/call" \/ (gateway.server = s /\ gateway.method # "none"),
         UNCHANGED mcpCache
  PROVE  McpInv'
<1>1. gateway' = [gateway EXCEPT !.server = s, !.method = method]
  BY DEF Ask
<1>2. /\ gateway' \in GatewayRecord /\ gateway'.todo = gateway.todo /\ gateway'.live = gateway.live
      /\ gateway'.at = gateway.at /\ gateway'.server = s /\ gateway'.method = method
  BY <1>1 DEF McpInv, GatewayRecord
<1>3. transport' \in [McpServers -> Transport]
  BY TransportsStay DEF Ask
<1>4. ProbeOnce'
  BY <1>2 DEF McpInv, ProbeOnce, ProbeMethod
<1> QED
  BY <1>2, <1>3, <1>4, FreshIs DEF Ask, McpInv, CacheTyped, AnswerIsMine, NoReturn

\* What append makes of the table: the rows it had, and of the listing, in its order, those
\* that fit and whose name is free.
LEMMA AppendIs ==
  ASSUME CacheTyped(mcpCache), NEW s \in McpServers, NEW tools \in Seq(Tool), Registrable(tools)
  PROVE  LET cache == append(mcpCache, s, tools) IN
         /\ CacheTyped(cache)
         /\ \A t \in DOMAIN mcpCache : t \in DOMAIN cache /\ cache[t] = mcpCache[t]
         /\ \A i \in Admitted(tools) : Namespaced[<<s, tools[i].local>>] \in DOMAIN cache
         /\ \A t \in DOMAIN cache \ DOMAIN mcpCache :
              /\ cache[t].server = s
              /\ \E i \in DOMAIN tools : tools[i].local = cache[t].local /\ tools[i].description = cache[t].description
<1> DEFINE cache == append(mcpCache, s, tools)
           name(i) == Namespaced[<<s, tools[i].local>>]
           new == {name(i) : i \in Admitted(tools)}
           First(k, i) == name(i) = k /\ \A j \in Admitted(tools) : name(j) = k => i <= j
           first(k) == CHOOSE i \in Admitted(tools) : First(k, i)
<1>1. cache = [t \in DOMAIN mcpCache \cup new |->
                 IF t \in DOMAIN mcpCache THEN mcpCache[t]
                 ELSE [server |-> s, local |-> tools[first(t)].local, description |-> tools[first(t)].description]]
  BY DEF append
<1>2. DOMAIN cache = DOMAIN mcpCache \cup new /\ \A t \in DOMAIN mcpCache : cache[t] = mcpCache[t]
  BY <1>1
<1>3. Admitted(tools) \subseteq DOMAIN tools /\ DOMAIN tools = 1..Len(tools) /\ Len(tools) \in Nat
  BY DEF Admitted
<1>4. ASSUME NEW t \in new PROVE first(t) \in Admitted(tools) /\ First(t, first(t))
  <2> DEFINE T == {i \in Admitted(tools) : name(i) = t}
  <2>1. T # {} /\ T \subseteq Nat
    BY <1>3
  <2>2. PICK i \in T : \A j \in T : i <= j
    <3> HIDE DEF T
    <3> QED BY <2>1, NatMin
  <2>3. i \in Admitted(tools) /\ First(t, i)
    BY <2>2
  <2> HIDE DEF First
  <2> QED
    BY <2>3
<1>5. ASSUME NEW t \in DOMAIN cache, t \notin DOMAIN mcpCache
      PROVE  /\ cache[t] \in Row /\ t = Namespaced[<<cache[t].server, cache[t].local>>] /\ cache[t].server = s
             /\ \E i \in DOMAIN tools : tools[i].local = cache[t].local /\ tools[i].description = cache[t].description
  <2> DEFINE i == first(t)
  <2>1. t \in new /\ i \in Admitted(tools) /\ name(i) = t
    BY <1>2, <1>4, <1>5
  <2>2. cache[t] = [server |-> s, local |-> tools[i].local, description |-> tools[i].description]
    BY <1>1, <1>2, <1>5
  <2> HIDE DEF i, cache, first
  <2>3. i \in DOMAIN tools /\ tools[i].description \notin Oversized
    BY <2>1 DEF Admitted
  <2>4. tools[i] \in Tool /\ tools[i].local \notin Unnameable
    BY <2>3 DEF Registrable
  <2>5. tools[i].local \in RemoteTools \ Unnameable /\ tools[i].description \in Descriptions \ Oversized
    BY <2>3, <2>4 DEF Tool
  <2>6. cache[t] \in Row
    BY <2>2, <2>5 DEF Row
  <2> QED
    BY <2>1, <2>2, <2>3, <2>6
<1> HIDE DEF first, First
<1>6. CacheTyped(cache)
  <2> SUFFICES ASSUME NEW t \in DOMAIN cache
               PROVE  cache[t] \in Row /\ t = Namespaced[<<cache[t].server, cache[t].local>>]
    BY DEF CacheTyped
  <2>1. CASE t \in DOMAIN mcpCache
    <3>1. cache[t] = mcpCache[t]
      BY <1>2, <2>1
    <3> QED
      BY <2>1, <3>1 DEF CacheTyped
  <2>2. CASE t \notin DOMAIN mcpCache
    BY <1>5, <2>2
  <2> QED
    BY <2>1, <2>2
<1> HIDE DEF cache
<1> QED
  BY <1>2, <1>5, <1>6 DEF cache

\* A page, wherever it leads, adds a whole listing or nothing.
LEMMA ListedKeeps ==
  ASSUME McpInv, NEW s \in McpServers, gateway.server = s,
         NEW tools \in Pages, NEW more \in BOOLEAN, Listed(s, tools, more)
  PROVE  /\ gateway' \in GatewayRecord /\ ProbeOnce' /\ CacheTyped(mcpCache')
         /\ TableGrows
<1> DEFINE all == gateway.listed \o tools
           pages == gateway.pages + 1
           follow == more /\ pages < MaxListPages
           keep == ~more /\ Len(all) <= ToolsPerServer /\ Registrable(all)
           done == Abandon(gateway)
<1>1. /\ gateway.method = "tools/list"
      /\ mcpCache' = IF keep THEN append(mcpCache, s, all) ELSE mcpCache
      /\ gateway' = IF follow THEN [gateway EXCEPT !.listed = all, !.pages = pages, !.method = "page"]
                    ELSE IF keep THEN [done EXCEPT !.live = @ \cup {s}, !.listed = all] ELSE done
  BY DEF Listed
<1>2. all \in Seq(Tool) /\ pages \in Nat
  BY McpAssumption DEF McpInv, GatewayRecord
<1>3. gateway.at = "probing" /\ s \notin gateway.live
  BY <1>1 DEF McpInv, ProbeOnce, ProbeMethod
<1>4. keep => Registrable(all) /\ ~follow
  OBVIOUS
<1>5. /\ done \in GatewayRecord /\ done.todo = gateway.todo /\ done.live = gateway.live /\ done.method = "none"
      /\ done.at \in {"probing", "up"} /\ (done.at = "probing" => gateway.todo # <<>>)
  BY <1>3, AbandonIs
<1> HIDE DEF all, pages, follow, keep, done
<1>6. CASE follow
  <2>1. mcpCache' = mcpCache /\ gateway' = [gateway EXCEPT !.listed = all, !.pages = pages, !.method = "page"]
    BY <1>1, <1>4, <1>6
  <2>2. /\ gateway' \in GatewayRecord /\ gateway'.todo = gateway.todo /\ gateway'.live = gateway.live
        /\ gateway'.at = gateway.at /\ gateway'.server = s /\ gateway'.method = "page"
    BY <1>2, <2>1 DEF McpInv, GatewayRecord, ProbeMethod
  <2>3. ProbeOnce'
    BY <1>1, <1>3, <2>2 DEF McpInv, ProbeOnce, ProbeMethod
  <2> QED
    BY <2>1, <2>2, <2>3 DEF McpInv, TableGrows
<1>7. CASE keep
  <2>1. mcpCache' = append(mcpCache, s, all) /\ gateway' = [done EXCEPT !.live = @ \cup {s}, !.listed = all]
    BY <1>1, <1>4, <1>7
  <2>2. /\ gateway' \in GatewayRecord /\ gateway'.todo = gateway.todo /\ gateway'.live = gateway.live \cup {s}
        /\ gateway'.at = done.at /\ gateway'.method = "none" /\ gateway'.listed = all
    BY <1>2, <1>5, <2>1 DEF GatewayRecord
  <2>3. ProbeOnce'
    BY <1>1, <1>3, <1>5, <2>2 DEF McpInv, ProbeOnce, ProbeMethod
  <2>4. CacheTyped(mcpCache') /\ TableGrows
    <3> DEFINE c == append(mcpCache, s, all)
    <3>1. /\ CacheTyped(c)
          /\ \A t \in DOMAIN mcpCache : t \in DOMAIN c /\ c[t] = mcpCache[t]
          /\ \A i \in Admitted(all) : Namespaced[<<s, all[i].local>>] \in DOMAIN c
          /\ \A t \in DOMAIN c \ DOMAIN mcpCache :
               /\ c[t].server = s
               /\ \E i \in DOMAIN all : all[i].local = c[t].local /\ all[i].description = c[t].description
      BY <1>2, <1>4, <1>7, AppendIs DEF McpInv
    <3>2. mcpCache' = c
      BY <2>1
    <3> HIDE DEF c
    <3>3. CacheTyped(mcpCache')
      BY <3>1, <3>2
    <3>4. TableGrows
      BY <1>3, <2>2, <3>1, <3>2 DEF TableGrows
    <3> QED
      BY <3>3, <3>4
  <2> QED
    BY <2>2, <2>3, <2>4
<1>8. CASE ~follow /\ ~keep
  <2>1. mcpCache' = mcpCache /\ gateway' = done
    BY <1>1, <1>8
  <2>2. ProbeOnce'
    BY <2>1, AbandonKeeps DEF done
  <2> QED
    BY <1>5, <2>1, <2>2 DEF McpInv, TableGrows
<1> QED
  BY <1>6, <1>7, <1>8

\* What an answer leads to, and that it leaves the table as ListedKeeps says.
LEMMA DeliverKeeps ==
  ASSUME McpInv, NEW s \in McpServers, gateway.server = s, gateway.method # "none", Deliver(s)
  PROVE  /\ gateway' \in GatewayRecord /\ ProbeOnce' /\ CacheTyped(mcpCache')
         /\ TableGrows
<1>1. ASSUME NEW version \in BOOLEAN, Initialized(s, version)
      PROVE  gateway' \in GatewayRecord /\ ProbeOnce' /\ mcpCache' = mcpCache
  <2>1. gateway.method = "initialize" /\ mcpCache' = mcpCache
    BY <1>1 DEF Initialized
  <2>2. CASE version
    <3>1. gateway' = [gateway EXCEPT !.method = "notify"]
      BY <1>1, <2>2 DEF Initialized
    <3>2. /\ gateway' \in GatewayRecord /\ gateway'.todo = gateway.todo /\ gateway'.live = gateway.live
          /\ gateway'.at = gateway.at /\ gateway'.server = gateway.server /\ gateway'.method = "notify"
      BY <3>1 DEF McpInv, GatewayRecord, ProbeMethod
    <3>3. ProbeOnce'
      BY <2>1, <3>2 DEF McpInv, ProbeOnce, ProbeMethod
    <3> QED
      BY <2>1, <3>2, <3>3
  <2>3. CASE ~version
    BY <1>1, <2>1, <2>3, AbandonKeeps DEF Initialized
  <2> QED
    BY <2>2, <2>3
<1>2. CASE CallReturns
  BY <1>2, AbandonKeeps DEF CallReturns, McpInv, TableGrows
<1> QED
  BY <1>1, <1>2, ListedKeeps DEF Deliver, McpInv, TableGrows

\* The gateway's invariant is inductive, and the table only ever gains one server's whole
\* listing.
LEMMA McpInvKept ==
  ASSUME McpInv, [McpNext]_mcpVars
  PROVE  /\ McpInv'
         /\ TableGrows
<1>k. mcpCache' = mcpCache => TableGrows
  BY DEF TableGrows
<1>s. \A s \in StdioServers \cup HttpServers : s \in McpServers
  BY McpConstants DEF HttpServers
<1>1. CASE UNCHANGED mcpVars
  BY <1>1 DEF mcpVars, McpInv, ProbeOnce, CacheTyped, AnswerIsMine, TableGrows
<1>2. CASE probe
  <2>1. /\ gateway.method = "none" /\ UNCHANGED mcpCache /\ mcpReturn' = NoReturn
        /\ gateway' = [gateway EXCEPT !.at = "probing", !.todo = Configured, !.live = {}, !.sessions = @ + 1]
        /\ transport' = [s \in McpServers |-> Fresh]
    BY <1>2 DEF probe
  <2>2. /\ gateway' \in GatewayRecord /\ gateway'.todo = Configured /\ gateway'.live = {}
        /\ gateway'.at = "probing" /\ gateway'.method = "none"
    <3>1. gateway.sessions + 1 \in Nat
      BY DEF McpInv, GatewayRecord
    <3> QED
      BY <2>1, <3>1, McpConstants DEF McpInv, GatewayRecord
  <2>3. ProbeOnce'
    BY <2>2, McpConstants DEF ProbeOnce, ProbeMethod
  <2>4. McpInv'
    BY <2>1, <2>2, <2>3, FreshIs DEF McpInv, CacheTyped, AnswerIsMine, NoReturn
  <2> QED
    BY <1>k, <2>1, <2>4
<1>3. ASSUME NEW s \in McpServers, ProbeStart(s)
      PROVE  McpInv' /\ TableGrows
  <2>1. /\ gateway.at = "probing" /\ gateway.method = "none" /\ s = Head(gateway.todo)
        /\ transport' = [transport EXCEPT ![s] = [Fresh EXCEPT !.id = 1]]
        /\ gateway' = [gateway EXCEPT !.todo = Tail(@), !.server = s, !.method = "initialize",
                                      !.listed = <<>>]
        /\ mcpReturn' = NoReturn /\ UNCHANGED mcpCache
    BY <1>3 DEF ProbeStart
  <2>2. gateway.todo # <<>> /\ gateway.todo \in Seq(McpServers)
    BY <2>1 DEF McpInv, ProbeOnce, GatewayRecord
  <2>3. /\ gateway' \in GatewayRecord /\ gateway'.todo = Tail(gateway.todo) /\ gateway'.live = gateway.live
        /\ gateway'.at = "probing" /\ gateway'.server = s /\ gateway'.method = "initialize"
    <3>1. Tail(gateway.todo) \in Seq(McpServers) /\ <<>> \in Seq(Tool)
      BY <2>2
    <3> QED
      BY <2>1, <3>1 DEF McpInv, GatewayRecord, ProbeMethod
  <2> DEFINE t == gateway.todo
  <2>4. /\ Len(t) \in Nat /\ s = t[1] /\ 1 \in DOMAIN t /\ DOMAIN t = 1..Len(t)
        /\ DOMAIN Tail(t) = 1..Len(t) - 1 /\ \A i \in 1..Len(t) - 1 : Tail(t)[i] = t[i + 1]
    BY <2>1, <2>2, TailOf
  <2>5. \A i \in DOMAIN t, j \in DOMAIN t : t[i] = t[j] => i = j
    BY DEF McpInv, ProbeOnce
  <2>6. \A i \in DOMAIN t : t[i] \notin gateway.live
    BY <2>1 DEF McpInv, ProbeOnce
  <2> HIDE DEF t
  <2>7. \A i \in DOMAIN Tail(t) : i + 1 \in DOMAIN t /\ i \in Nat /\ Tail(t)[i] = t[i + 1] /\ i + 1 # 1
    BY <2>4
  <2>8. /\ \A i \in DOMAIN Tail(t) : Tail(t)[i] # s /\ Tail(t)[i] \notin gateway.live
        /\ \A i, j \in DOMAIN Tail(t) : Tail(t)[i] = Tail(t)[j] => i = j
    BY <2>4, <2>5, <2>6, <2>7
  <2>9. ProbeOnce'
    BY <2>3, <2>4, <2>6, <2>8 DEF ProbeOnce, ProbeMethod, t
  <2>10. McpInv'
    BY <2>1, <2>3, <2>9, FreshIs DEF McpInv, CacheTyped, AnswerIsMine, NoReturn
  <2> QED
    BY <1>k, <2>1, <2>10
<1>4. ASSUME NEW s \in McpServers, NotifyThenList(s) PROVE McpInv' /\ TableGrows
  <2>1. McpInv'
    BY <1>4, AskKeeps DEF NotifyThenList, McpInv, ProbeOnce, ProbeMethod
  <2> QED
    BY <1>k, <1>4, <2>1 DEF NotifyThenList
<1>5. ASSUME NEW s \in McpServers, NotifyFails(s) PROVE McpInv' /\ TableGrows
  <2>1. McpInv'
    BY <1>5, RefuseKeeps DEF NotifyFails, McpInv
  <2> QED
    BY <1>k, <1>5, <2>1 DEF NotifyFails, Refuse
<1>6. ASSUME NEW s \in McpServers, NextPage(s) PROVE McpInv' /\ TableGrows
  <2>1. McpInv'
    BY <1>6, AskKeeps DEF NextPage, McpInv, ProbeOnce, ProbeMethod
  <2> QED
    BY <1>k, <1>6, <2>1 DEF NextPage
<1>7. ASSUME NEW s \in McpServers, call(s) PROVE McpInv' /\ TableGrows
  <2>1. McpInv'
    BY <1>7, AskKeeps DEF call, McpInv
  <2> QED
    BY <1>k, <1>7, <2>1 DEF call
<1>8. ASSUME NEW s \in McpServers, CallWriteFails(s) PROVE McpInv' /\ TableGrows
  <2>1. /\ transport' = [transport EXCEPT ![s].id = @ + 1] /\ UNCHANGED <<mcpCache, gateway>>
        /\ mcpReturn' = [result |-> "Transport", asked |-> transport[s].id + 1, of |-> 0]
    BY <1>8 DEF CallWriteFails
  <2>2. transport' \in [McpServers -> Transport] /\ transport[s].id + 1 \in Nat
    <3>1. transport[s].id \in Nat /\ [transport EXCEPT ![s].id = @ + 1] \in [McpServers -> Transport]
      BY TransportsStay
    <3> QED
      BY <2>1, <3>1
  <2>3. mcpReturn' \in McpResult /\ mcpReturn'.result = "Transport"
    BY <2>1, <2>2 DEF McpResult
  <2>4. ProbeOnce' /\ gateway' \in GatewayRecord /\ CacheTyped(mcpCache')
    BY <2>1 DEF McpInv, ProbeOnce, CacheTyped
  <2> QED
    BY <1>k, <2>1, <2>2, <2>3, <2>4 DEF McpInv, AnswerIsMine
<1>9. ASSUME NEW s \in StdioServers, ReadLine(s) PROVE McpInv' /\ TableGrows
  <2>0. s \in McpServers
    BY <1>s
  <2>1. transport[s].stdout # <<>>
    BY <1>9 DEF ReadLine
  <2>2. PICK b \in BOOLEAN : Consume(s, b)
    BY <1>9 DEF ReadLine
  <2>3. transport' \in [McpServers -> Transport]
    BY <2>0, <2>1, <2>2, TransportsStay DEF Consume
  <2>4. \/ UNCHANGED <<mcpCache, gateway, mcpReturn>>
        \/ Refuse(s, "Protocol") \/ Refuse(s, "Transport")
    BY <1>9 DEF ReadLine
  <2>5. CASE UNCHANGED <<mcpCache, gateway, mcpReturn>>
    BY <1>k, <2>3, <2>5 DEF McpInv, ProbeOnce, CacheTyped, AnswerIsMine
  <2>6. CASE Refuse(s, "Protocol")
    BY <1>k, <2>0, <2>3, <2>6, RefuseKeeps DEF Refuse
  <2>7. CASE Refuse(s, "Transport")
    BY <1>k, <2>0, <2>3, <2>7, RefuseKeeps DEF Refuse
  <2> QED
    BY <2>4, <2>5, <2>6, <2>7
<1>10. ASSUME NEW s \in StdioServers, StdioAnswer(s) PROVE McpInv' /\ TableGrows
  <2>0. s \in McpServers
    BY <1>s
  <2> DEFINE line == Head(transport[s].stdout)
  <2>1. /\ gateway.server = s /\ gateway.method # "none" /\ transport[s].stdout # <<>>
        /\ is_response_for(line, transport[s].id) /\ Consume(s, FALSE) /\ Deliver(s)
        /\ mcpReturn' = [result |-> "ok", asked |-> transport[s].id, of |-> line.id]
    BY <1>10 DEF StdioAnswer, Answered, Waiting
  <2>2. transport' \in [McpServers -> Transport] /\ transport[s].id \in Nat
    BY <2>0, <2>1, TransportsStay DEF Consume
  <2>3. mcpReturn' \in McpResult /\ mcpReturn'.of = mcpReturn'.asked
    BY <2>1, <2>2 DEF McpResult, is_response_for
  <2> QED
    BY <2>0, <2>1, <2>2, <2>3, DeliverKeeps DEF McpInv, AnswerIsMine
<1>11. ASSUME NEW s \in StdioServers, CallTimesOut(s) \/ StdoutEnds(s) PROVE McpInv' /\ TableGrows
  <2>0. s \in McpServers
    BY <1>s
  <2>1. /\ transport' = [transport EXCEPT ![s].partial = FALSE]
        /\ \E class \in {"Transport", "Protocol"} : Refuse(s, class)
    BY <1>11 DEF CallTimesOut, StdoutEnds
  <2>2. transport' \in [McpServers -> Transport]
    BY <2>0, <2>1, TransportsStay
  <2>3. mcpCache' = mcpCache
    BY <2>1 DEF Refuse
  <2> QED
    BY <1>k, <2>0, <2>1, <2>2, <2>3, RefuseKeeps
<1>12. ASSUME NEW s \in StdioServers, NEW kind \in LineKind, NEW id \in 1..MaxMcpIds, NEW whole \in BOOLEAN,
              ServerWrites(s, kind, id, whole)
       PROVE  McpInv' /\ TableGrows
  <2>0. s \in McpServers /\ MaxMcpIds \in Nat
    BY <1>s, McpAssumption
  <2> DEFINE lines == IF whole THEN <<[kind |-> kind, id |-> id, part |-> "whole"]>>
                      ELSE <<[kind |-> kind, id |-> id, part |-> "head"], [kind |-> kind, id |-> id, part |-> "tail"]>>
  <2>1. transport' = [transport EXCEPT ![s].stdout = @ \o lines] /\ UNCHANGED <<mcpCache, gateway, mcpReturn>>
    BY <1>12 DEF ServerWrites
  <2>2. lines \in Seq(Line)
    <3>1. id \in Nat
      BY <2>0
    <3>2. \A p \in {"whole", "head", "tail"} : [kind |-> kind, id |-> id, part |-> p] \in Line
      BY <3>1 DEF Line
    <3> QED
      BY <3>2
  <2> HIDE DEF lines
  <2>3. transport' \in [McpServers -> Transport]
    <3>1. transport[s] \in Transport /\ transport[s].stdout \o lines \in Seq(Line)
      BY <2>0, <2>2 DEF McpInv, Transport
    <3> QED
      BY <2>0, <2>1, <3>1 DEF McpInv, Transport
  <2> QED
    BY <1>k, <2>1, <2>3 DEF McpInv, ProbeOnce, CacheTyped, AnswerIsMine
<1>13. ASSUME NEW s \in StdioServers, ServerDies(s) PROVE McpInv' /\ TableGrows
  <2>1. transport' = [transport EXCEPT ![s].alive = FALSE] /\ UNCHANGED <<mcpCache, gateway, mcpReturn>>
    BY <1>13 DEF ServerDies
  <2>2. transport' \in [McpServers -> Transport]
    BY <1>s, <2>1, TransportsStay
  <2> QED
    BY <1>k, <2>1, <2>2 DEF McpInv, ProbeOnce, CacheTyped, AnswerIsMine
<1>14. ASSUME NEW s \in HttpServers, HttpExchange(s) PROVE McpInv' /\ TableGrows
  <2>0. s \in McpServers /\ transport[s].id \in Nat
    BY <1>s, TransportsStay
  <2>1. /\ gateway.server = s /\ gateway.method # "none"
        /\ \/ Refuse(s, "Transport") /\ UNCHANGED transport
           \/ Refuse(s, "Protocol") /\ UNCHANGED transport
           \/ /\ Deliver(s) /\ UNCHANGED transport
              /\ mcpReturn' = [result |-> "ok", asked |-> transport[s].id, of |-> transport[s].id]
    BY <1>14 DEF HttpExchange
  <2>2. ASSUME NEW class \in {"Transport", "Protocol"}, Refuse(s, class), UNCHANGED transport
        PROVE  McpInv' /\ TableGrows
    <3>1. transport' \in [McpServers -> Transport] /\ mcpCache' = mcpCache
      BY <2>2 DEF McpInv, Refuse
    <3> QED
      BY <1>k, <2>0, <2>2, <3>1, RefuseKeeps
  <2>3. CASE /\ Deliver(s) /\ UNCHANGED transport
             /\ mcpReturn' = [result |-> "ok", asked |-> transport[s].id, of |-> transport[s].id]
    <3>1. mcpReturn' \in McpResult /\ mcpReturn'.of = mcpReturn'.asked
      BY <2>0, <2>3 DEF McpResult
    <3> QED
      BY <2>0, <2>1, <2>3, <3>1, DeliverKeeps DEF McpInv, AnswerIsMine
  <2> QED
    BY <2>1, <2>2, <2>3
<1> QED
  BY <1>1, <1>2, <1>3, <1>4, <1>5, <1>6, <1>7, <1>8, <1>9, <1>10, <1>11, <1>12, <1>13, <1>14 DEF McpNext

\* What the invariant says of the types.
LEMMA McpTyped == McpInv => McpTypeOK
BY DEF McpInv, McpTypeOK, CacheTyped, GatewayRecord, McpResult

-----------------------------------------------------------------------------
(***************************************************************************)
(* The debug-adapter client (Dap)                                          *)
(***************************************************************************)
DapWait == [op : {"none", "handshake", "call"}, command : Commands \cup {"none"}, seq : Nat,
            event : DapEvents \cup {"none"}]
DapClient == [wait : DapWait, next_seq : Nat, initialized : BOOLEAN, events : Seq(DapEvents)]
Asked == [seq : Nat, command : Commands]
AdapterRecord == [alive : BOOLEAN, todo : Seq(Asked), pushed : Nat, seen : SUBSET Commands]
DapFrame == [kind : {"response", "refusal", "event", "malformed"}, seq : Nat,
             name : DapEvents \cup {"none"}]
DapResult == [result : {"none", "ok", "Protocol", "Transport"}, asked : Nat, of : Nat]

Answers(frame) == frame.kind \in {"response", "refusal"}
FrameTyped(frame) ==
  /\ Answers(frame) => frame.seq \in 1..debugger.next_seq /\ frame.name = "none"
  /\ ~Answers(frame) => frame.seq = 0 /\ frame.name \in DapEvents

\* What is being waited for is one thing, and the second of the two requests of the
\* handshake was sent with the first.
WaitSound ==
  /\ Listening => debugger.wait.seq = 0 /\ debugger.wait.command = "none"
  /\ debugger.wait.seq <= debugger.next_seq
  /\ debugger.wait.op = "handshake" /\ debugger.wait.command = "launch" =>
       debugger.wait.seq # 0 /\ debugger.wait.seq < debugger.next_seq

DapShape ==
  /\ debugger \in DapClient /\ adapter \in AdapterRecord /\ dapPipe \in Seq(DapFrame)
  /\ dapReturn \in DapResult
  /\ debugger.next_seq <= MaxSeq
  /\ \A i \in DOMAIN adapter.todo : adapter.todo[i].seq \in 1..debugger.next_seq
  /\ \A i \in DOMAIN dapPipe : FrameTyped(dapPipe[i])
  /\ consumed \subseteq 1..debugger.next_seq

\* The answer to request n is still to be read.
Owed(n) ==
  \/ \E i \in DOMAIN adapter.todo : adapter.todo[i].seq = n
  \/ \E i \in DOMAIN dapPipe : Answers(dapPipe[i]) /\ dapPipe[i].seq = n

\* Requests are answered in the order they were sent: what was read came before what is
\* in the pipe, and that before what the adapter still owes.
DapOrder ==
  /\ \A i, j \in DOMAIN adapter.todo : i < j => adapter.todo[i].seq < adapter.todo[j].seq
  /\ \A i, j \in DOMAIN dapPipe :
       i < j /\ Answers(dapPipe[i]) /\ Answers(dapPipe[j]) => dapPipe[i].seq < dapPipe[j].seq
  /\ \A i \in DOMAIN dapPipe, j \in DOMAIN adapter.todo :
       Answers(dapPipe[i]) => dapPipe[i].seq < adapter.todo[j].seq
  /\ \A c \in consumed : \A i \in DOMAIN dapPipe : Answers(dapPipe[i]) => c < dapPipe[i].seq
  /\ \A c \in consumed : \A j \in DOMAIN adapter.todo : c < adapter.todo[j].seq

\* What is waited for is owed, and so is what the handshake will wait for next.
WaitOwed ==
  /\ Requesting => Owed(debugger.wait.seq)
  /\ debugger.wait.op = "handshake" /\ debugger.wait.command = "launch" => Owed(debugger.wait.seq + 1)

DapInv ==
  /\ DapShape /\ WaitSound /\ DapAnswerIsMine
  /\ AnswersInOrder => DapOrder /\ WaitOwed

\* The bounds are numbers.
LEMMA DapConstants == MaxSeq \in Nat /\ MaxPushed \in Nat
BY DapAssumption

\* The parts of the records, one by one.
LEMMA DapPieces ==
  ASSUME DapShape
  PROVE  /\ debugger.wait \in DapWait /\ debugger.next_seq \in Nat /\ debugger.wait.seq \in Nat
         /\ debugger.initialized \in BOOLEAN /\ debugger.events \in Seq(DapEvents)
         /\ adapter.todo \in Seq(Asked) /\ Len(adapter.todo) \in Nat
         /\ DOMAIN adapter.todo = 1..Len(adapter.todo)
         /\ \A i \in DOMAIN adapter.todo : adapter.todo[i] \in Asked
         /\ adapter.pushed \in Nat /\ adapter.seen \subseteq Commands
         /\ Len(dapPipe) \in Nat /\ DOMAIN dapPipe = 1..Len(dapPipe)
         /\ \A i \in DOMAIN dapPipe : dapPipe[i] \in DapFrame
<1>1. debugger \in DapClient /\ adapter \in AdapterRecord /\ dapPipe \in Seq(DapFrame)
  BY DEF DapShape
<1> QED
  BY <1>1 DEF DapClient, DapWait, AdapterRecord

\* What rest is made of.
LEMMA RestingIs == Resting \in DapWait /\ Resting.seq = 0 /\ Resting.event = "none" /\ Resting.command = "none"
                   /\ Resting.op = "none" /\ DapNone \in DapResult /\ DapNone.result = "none"
BY DEF Resting, DapWait, DapNone, DapResult

\* Nothing is asked and nothing is owed at first.
LEMMA DapBegins == DapInit => DapInv
<1> SUFFICES ASSUME DapInit PROVE DapInv
  OBVIOUS
<1>1. dapPipe = <<>> /\ adapter.todo = <<>> /\ DOMAIN adapter.todo = {} /\ DOMAIN dapPipe = {} /\ consumed = {}
  BY DEF DapInit
<1>2. debugger \in DapClient /\ debugger.next_seq = 0 /\ debugger.wait = Resting
  BY RestingIs DEF DapInit, DapClient
<1>3. adapter \in AdapterRecord
  BY DEF DapInit, AdapterRecord
<1>4. DapShape
  BY <1>1, <1>2, <1>3, RestingIs, DapConstants DEF DapInit, DapShape
<1>5. WaitSound /\ WaitOwed /\ DapOrder
  BY <1>1, <1>2, RestingIs DEF WaitSound, WaitOwed, DapOrder, Listening, Requesting
<1> QED
  BY <1>4, <1>5, RestingIs DEF DapInv, DapInit, DapAnswerIsMine

\* Nothing sent, received or consumed: what is owed stays so.
LEMMA OrderStays ==
  ASSUME DapInv, UNCHANGED <<dapPipe, consumed>>, adapter'.todo = adapter.todo
  PROVE  (AnswersInOrder => DapOrder') /\ \A n : Owed(n) => Owed(n)'
BY DEF DapInv, DapOrder, Owed

\* A call given up waits for nothing.
LEMMA RestKeeps ==
  ASSUME DapInv, NEW n \in Nat, debugger.next_seq <= n, n <= MaxSeq,
         debugger' = [debugger EXCEPT !.wait = Resting, !.next_seq = n],
         NEW r \in DapResult, dapReturn' = r, r.result = "ok" /\ r.asked # 0 => r.of = r.asked,
         adapter' \in AdapterRecord, adapter'.todo = adapter.todo,
         UNCHANGED <<dapPipe, consumed>>
  PROVE  DapInv'
<1>0. DapShape /\ debugger.next_seq \in Nat
  BY DapPieces DEF DapInv
<1>1. debugger' \in DapClient /\ debugger'.next_seq = n /\ debugger'.wait = Resting
  BY <1>0, RestingIs DEF DapShape, DapClient
<1>2. \A x \in 1..debugger.next_seq : x \in 1..n
  BY <1>0
<1>3. DapShape'
  BY <1>0, <1>1, <1>2 DEF DapShape, FrameTyped
<1>4. WaitSound' /\ WaitOwed'
  BY <1>1, RestingIs DEF WaitSound, WaitOwed, Listening, Requesting
<1>5. DapAnswerIsMine'
  BY DEF DapAnswerIsMine
<1> QED
  BY <1>3, <1>4, <1>5, OrderStays DEF DapInv

\* The element read or answered goes; the others close up.
LEMMA Without ==
  ASSUME NEW S, NEW s \in Seq(S), NEW i \in 1..Len(s),
         NEW r, r = SubSeq(s, 1, i - 1) \o SubSeq(s, i + 1, Len(s))
  PROVE  /\ r \in Seq(S) /\ Len(r) = Len(s) - 1 /\ DOMAIN r = 1..Len(s) - 1
         /\ \A k \in 1..Len(s) - 1 : k < i => r[k] = s[k]
         /\ \A k \in 1..Len(s) - 1 : ~(k < i) => r[k] = s[k + 1]
<1> DEFINE a == SubSeq(s, 1, i - 1)
           b == SubSeq(s, i + 1, Len(s))
<1>0. Len(s) \in Nat /\ i \in Nat /\ i >= 1 /\ i <= Len(s)
  OBVIOUS
<1>1. a \in Seq(S) /\ Len(a) = i - 1 /\ \A k \in 1..i - 1 : a[k] = s[k]
  <2>1. \A k \in 1..i - 1 : 1 + k - 1 = k
    BY <1>0
  <2>2. \A k \in 1..i - 1 : s[k] \in S
    BY <1>0
  <2>3. a = [k \in 1..i - 1 |-> s[k]]
    BY <1>0, <2>1
  <2> QED
    BY <1>0, <2>2, <2>3
<1>2. b \in Seq(S) /\ Len(b) = Len(s) - i /\ \A k \in 1..Len(s) - i : b[k] = s[k + i]
  <2>1. \A k \in 1..Len(s) - i : k + i \in 1..Len(s)
    BY <1>0
  <2>3. b = [k \in 1..Len(s) - i |-> s[k + i]]
    BY <1>0
  <2> QED
    BY <1>0, <2>1, <2>3
<1> HIDE DEF a, b
<1>3. r = a \o b
  BY DEF a, b
<1>4. r \in Seq(S) /\ Len(r) = Len(a) + Len(b)
      /\ \A k \in 1..Len(a) + Len(b) : r[k] = IF k <= Len(a) THEN a[k] ELSE b[k - Len(a)]
  <2>1. a \in Seq(S) /\ b \in Seq(S)
    BY <1>1, <1>2
  <2> QED
    BY ONLY <1>3, <2>1, ConcatProperties
<1>5. Len(a) = i - 1 /\ Len(b) = Len(s) - i /\ Len(a) + Len(b) = Len(s) - 1
  BY <1>0, <1>1, <1>2
<1>6. ASSUME NEW k \in 1..Len(s) - 1 PROVE r[k] = s[IF k < i THEN k ELSE k + 1]
  <2>1. k \in 1..Len(a) + Len(b)
    BY <1>5
  <2>2. CASE k < i
    <3>1. k <= Len(a) /\ k \in 1..i - 1
      BY <1>0, <1>5, <2>2
    <3> QED
      BY <1>1, <1>4, <2>1, <3>1, <2>2
  <2>3. CASE ~(k < i)
    <3>1. ~(k <= Len(a)) /\ k - Len(a) \in 1..Len(s) - i /\ k - Len(a) + i = k + 1
      BY <1>0, <1>5, <2>3
    <3>2. r[k] = b[k - Len(a)]
      BY <1>4, <2>1, <3>1
    <3>3. b[k - Len(a)] = s[k - Len(a) + i]
      BY <1>2, <3>1
    <3> QED
      BY <3>1, <3>2, <3>3, <2>3
  <2> QED
    BY <2>2, <2>3
<1>7. Len(r) = Len(s) - 1
  BY <1>4, <1>5
<1>8. DOMAIN r = 1..Len(r)
  BY ONLY <1>4
<1> QED
  BY <1>4, <1>6, <1>7, <1>8

\* One request, or the handshake's two, written in a row; the first is awaited.
LEMMA SendKeeps ==
  ASSUME DapInv, NEW op \in {"handshake", "call"}, NEW commands \in Seq(Commands),
         Len(commands) \in {1, 2}, op = "handshake" /\ commands[1] = "launch" => Len(commands) = 2,
         SendAll(op, commands), NEW n, n = debugger.next_seq, NEW l, l = Len(adapter.todo)
  PROVE  DapInv'
<1> DEFINE sent == [i \in DOMAIN commands |-> [seq |-> n + i, command |-> commands[i]]]
<1>0. DapShape /\ n \in Nat /\ l \in Nat /\ Len(commands) \in Nat /\ DOMAIN commands = 1..Len(commands)
      /\ adapter.todo \in Seq(Asked) /\ DOMAIN adapter.todo = 1..l
  BY DapPieces DEF DapInv
<1>1. sent \in Seq(Asked) /\ Len(sent) = Len(commands)
      /\ \A i \in 1..Len(commands) : sent[i] = [seq |-> n + i, command |-> commands[i]]
  <2>1. \A i \in 1..Len(commands) : n + i \in Nat /\ commands[i] \in Commands
    BY <1>0
  <2>2. sent \in [1..Len(commands) -> Asked]
    BY <1>0, <2>1 DEF Asked
  <2> QED
    BY <1>0, <2>2
<1>2. adapter'.todo = adapter.todo \o sent
  BY DEF SendAll, DapShape, AdapterRecord
<1>2a. adapter'.todo = adapter.todo \o sent /\ adapter'.alive = adapter.alive /\ adapter'.pushed = adapter.pushed
       /\ adapter'.seen = adapter.seen \cup {commands[i] : i \in DOMAIN commands}
       /\ adapter' = [alive |-> adapter'.alive, todo |-> adapter'.todo, pushed |-> adapter'.pushed, seen |-> adapter'.seen]
  BY <1>0 DEF SendAll, DapShape, AdapterRecord
<1> HIDE DEF sent
<1>3. adapter'.todo \in Seq(Asked) /\ Len(adapter'.todo) = l + Len(commands)
      /\ \A k \in 1..l + Len(commands) : adapter'.todo[k] = IF k <= l THEN adapter.todo[k] ELSE sent[k - l]
  <2>1. /\ adapter'.todo \in Seq(Asked) /\ Len(adapter'.todo) = Len(adapter.todo) + Len(sent)
        /\ \A k \in 1..Len(adapter.todo) + Len(sent) :
             adapter'.todo[k] = IF k <= Len(adapter.todo) THEN adapter.todo[k] ELSE sent[k - Len(adapter.todo)]
    <3>1. adapter.todo \in Seq(Asked) /\ sent \in Seq(Asked) /\ adapter'.todo = adapter.todo \o sent
      BY <1>0, <1>1, <1>2a
    <3> HIDE <1>0, <1>1
    <3>2. ASSUME NEW s1 \in Seq(Asked), NEW s2 \in Seq(Asked), NEW r1, r1 = s1 \o s2
          PROVE  /\ r1 \in Seq(Asked) /\ Len(r1) = Len(s1) + Len(s2)
                 /\ \A k \in 1..Len(s1) + Len(s2) : r1[k] = IF k <= Len(s1) THEN s1[k] ELSE s2[k - Len(s1)]
      BY ONLY <3>2, ConcatProperties
    <3> QED
      BY ONLY <3>1, <3>2
  <2>2. l = Len(adapter.todo) /\ Len(sent) = Len(commands)
    BY <1>1
  <2> QED
    BY ONLY <2>1, <2>2
<1>4. DOMAIN adapter'.todo = 1..l + Len(commands)
  <2>1. DOMAIN adapter'.todo = 1..Len(adapter'.todo)
    BY ONLY <1>3
  <2> QED
    BY <2>1, <1>3
<1>5. /\ \A k \in 1..l : k \in DOMAIN adapter'.todo /\ adapter'.todo[k] = adapter.todo[k]
      /\ \A k \in DOMAIN adapter'.todo :
           \/ k \in 1..l
           \/ k > l /\ k - l \in 1..Len(commands) /\ adapter'.todo[k].seq = n + (k - l)
      /\ \A i \in 1..Len(commands) : l + i \in DOMAIN adapter'.todo /\ adapter'.todo[l + i].seq = n + i
  <2>1. \A k \in 1..l : k \in DOMAIN adapter'.todo /\ adapter'.todo[k] = adapter.todo[k]
    BY <1>0, <1>3, <1>4
  <2>2. \A k \in DOMAIN adapter'.todo : k \in 1..l \/ (k > l /\ k - l \in 1..Len(commands) /\ adapter'.todo[k] = sent[k - l])
    BY SMTT(20), <1>0, <1>3, <1>4
  <2>3. ASSUME NEW i \in 1..Len(commands)
        PROVE  l + i \in DOMAIN adapter'.todo /\ adapter'.todo[l + i] = sent[i]
    <3>1. l + i \in 1..l + Len(commands) /\ ~(l + i <= l) /\ (l + i) - l = i
      BY <1>0
    <3> QED
      BY <1>3, <1>4, <3>1
  <2>4. \A i \in 1..Len(commands) : sent[i].seq = n + i
    <3>1. \A i \in 1..Len(commands) : sent[i] = [seq |-> n + i, command |-> commands[i]]
      BY <1>1
    <3> QED
      <4> SUFFICES ASSUME NEW i \in 1..Len(commands) PROVE sent[i].seq = n + i
        OBVIOUS
      <4>1. sent[i] = [seq |-> n + i, command |-> commands[i]]
        BY <3>1
      <4> QED
        BY ONLY <4>1
  <2> QED
    BY ONLY <2>1, <2>2, <2>3, <2>4
<1>6. debugger' = [debugger EXCEPT !.next_seq = n + Len(commands),
                    !.wait = [op |-> op, command |-> commands[1], seq |-> n + 1, event |-> "none"]]
      /\ n + Len(commands) <= MaxSeq /\ dapReturn' = DapNone /\ UNCHANGED <<dapPipe, consumed>>
  BY DEF SendAll
<1>7. commands[1] \in Commands /\ n + 1 \in Nat /\ n + Len(commands) \in Nat
  BY <1>0
<1>8. /\ debugger'.next_seq = n + Len(commands)
      /\ debugger'.wait = [op |-> op, command |-> commands[1], seq |-> n + 1, event |-> "none"]
      /\ debugger' \in DapClient
  <2>1. [op |-> op, command |-> commands[1], seq |-> n + 1, event |-> "none"] \in DapWait
    BY <1>7 DEF DapWait
  <2> QED
    BY <1>0, <1>6, <1>7, <2>1 DEF DapShape, DapClient
<1>9. adapter' \in AdapterRecord
  <2>1. {commands[i] : i \in DOMAIN commands} \subseteq Commands
    BY <1>0
  <2> QED
    BY <1>0, <1>2a, <1>3, <2>1 DEF DapShape, AdapterRecord
<1>10. \A x \in 1..n : x \in 1..n + Len(commands)
  BY <1>0
<1>11. \A k \in DOMAIN adapter'.todo : adapter'.todo[k].seq \in 1..n + Len(commands)
  <2> SUFFICES ASSUME NEW k \in DOMAIN adapter'.todo PROVE adapter'.todo[k].seq \in 1..n + Len(commands)
    OBVIOUS
  <2>1. CASE k \in 1..l
    BY <1>0, <1>5, <1>10, <2>1 DEF DapShape
  <2>2. CASE k - l \in 1..Len(commands) /\ adapter'.todo[k].seq = n + (k - l)
    <3>1. n + (k - l) \in 1..n + Len(commands)
      BY <1>0, <2>2
    <3> QED
      BY <2>2, <3>1
  <2> QED
    BY <1>5, <2>1, <2>2
<1>12. DapShape'
  BY <1>0, <1>6, <1>8, <1>9, <1>10, <1>11, RestingIs DEF DapShape, FrameTyped
<1>13. WaitSound'
  <2>0. Len(commands) = 1 \/ Len(commands) = 2
    OBVIOUS
  <2>1. n + 1 <= n + Len(commands) /\ n + 1 # 0 /\ (Len(commands) = 2 => n + 1 < n + Len(commands))
    BY <1>0, <2>0
  <2> QED
    BY <1>8, <2>1 DEF WaitSound, Listening
<1>14. DapAnswerIsMine'
  BY <1>6, RestingIs DEF DapAnswerIsMine
<1>15. ASSUME AnswersInOrder PROVE DapOrder' /\ WaitOwed'
  <2>1. DapOrder
    BY <1>15 DEF DapInv
  <2>2. \A i, j \in DOMAIN adapter'.todo : i < j => adapter'.todo[i].seq < adapter'.todo[j].seq
    <3> SUFFICES ASSUME NEW i \in DOMAIN adapter'.todo, NEW j \in DOMAIN adapter'.todo, i < j
                 PROVE  adapter'.todo[i].seq < adapter'.todo[j].seq
      OBVIOUS
    <3>0. i \in Nat /\ j \in Nat
      BY <1>0, <1>4
    <3>1. CASE i \in 1..l /\ j \in 1..l
      BY <1>0, <1>5, <2>1, <3>1 DEF DapOrder
    <3>2. CASE i \in 1..l /\ ~(j \in 1..l)
      <4>1. adapter'.todo[i].seq \in 1..n
        BY <1>0, <1>5, <3>2 DEF DapShape
      <4>2. adapter'.todo[j].seq = n + (j - l) /\ j - l \in 1..Len(commands)
        BY <1>5, <3>2
      <4> QED
        BY <1>0, <4>1, <4>2
    <3>3. CASE ~(i \in 1..l)
      <4>1. i > l /\ ~(j \in 1..l)
        BY <1>0, <1>5, <3>0, <3>3
      <4>2. adapter'.todo[i].seq = n + (i - l) /\ adapter'.todo[j].seq = n + (j - l)
        BY <1>5, <3>3, <4>1
      <4> QED
        BY <1>0, <3>0, <4>2
    <3> QED
      BY <3>1, <3>2, <3>3
  <2>3. ASSUME NEW j \in DOMAIN adapter'.todo, ~(j \in 1..l) PROVE adapter'.todo[j].seq > n
    <3>1. adapter'.todo[j].seq = n + (j - l) /\ j - l \in 1..Len(commands)
      BY <1>5, <2>3
    <3> QED
      BY <1>0, <3>1
  <2>4. \A i \in DOMAIN dapPipe : Answers(dapPipe[i]) => dapPipe[i].seq \in 1..n
    BY <1>0 DEF DapShape, FrameTyped
  <2>5. \A i \in DOMAIN dapPipe, j \in DOMAIN adapter'.todo :
          Answers(dapPipe[i]) => dapPipe[i].seq < adapter'.todo[j].seq
    <3> SUFFICES ASSUME NEW i \in DOMAIN dapPipe, NEW j \in DOMAIN adapter'.todo, Answers(dapPipe[i])
                 PROVE  dapPipe[i].seq < adapter'.todo[j].seq
      OBVIOUS
    <3>1. CASE j \in 1..l
      BY <1>0, <1>5, <2>1, <3>1 DEF DapOrder
    <3>2. CASE ~(j \in 1..l)
      <4>1. adapter'.todo[j].seq = n + (j - l) /\ j - l \in 1..Len(commands)
        BY <1>5, <3>2
      <4> QED
        BY <1>0, <2>4, <4>1
    <3> QED
      BY <3>1, <3>2
  <2>6. \A c \in consumed : \A j \in DOMAIN adapter'.todo : c < adapter'.todo[j].seq
    <3> SUFFICES ASSUME NEW c \in consumed, NEW j \in DOMAIN adapter'.todo
                 PROVE  c < adapter'.todo[j].seq
      OBVIOUS
    <3>0. c \in 1..n
      BY <1>0 DEF DapShape
    <3>1. CASE j \in 1..l
      BY <1>0, <1>5, <2>1, <3>1 DEF DapOrder
    <3>2. CASE ~(j \in 1..l)
      <4>1. adapter'.todo[j].seq = n + (j - l) /\ j - l \in 1..Len(commands)
        BY <1>5, <3>2
      <4> QED
        BY <1>0, <3>0, <4>1
    <3> QED
      BY <3>1, <3>2
  <2>7. DapOrder'
    BY <1>6, <2>1, <2>2, <2>5, <2>6 DEF DapOrder, Answers
  <2>8. Owed(n + 1)'
    <3>1. 1 \in 1..Len(commands)
      <4>1. Len(commands) = 1 \/ Len(commands) = 2
        OBVIOUS
      <4> QED
        BY <4>1
    <3>2. l + 1 \in DOMAIN adapter'.todo /\ adapter'.todo[l + 1].seq = n + 1
      BY <1>5, <3>1
    <3> QED
      BY <3>2 DEF Owed
  <2>9. Len(commands) = 2 => Owed(n + 2)'
    <3> SUFFICES ASSUME Len(commands) = 2 PROVE Owed(n + 2)'
      OBVIOUS
    <3>1. 2 \in 1..Len(commands)
      BY <1>0
    <3>2. l + 2 \in DOMAIN adapter'.todo /\ adapter'.todo[l + 2].seq = n + 2
      BY <1>5, <3>1
    <3> QED
      BY <3>2 DEF Owed
  <2>10. n + 1 + 1 = n + 2
    BY <1>0
  <2>11. debugger'.wait.seq = n + 1 /\ debugger'.wait.op = op /\ debugger'.wait.command = commands[1]
    BY <1>8
  <2>12. DapOrder' /\ Owed(n + 1)' /\ (op = "handshake" /\ commands[1] = "launch" => Owed(n + 1 + 1)')
    BY <2>7, <2>8, <2>9, <2>10
  <2>13. /\ Requesting' => Owed(debugger.wait.seq)'
         /\ debugger'.wait.op = "handshake" /\ debugger'.wait.command = "launch" => Owed(debugger.wait.seq + 1)'
    BY <2>11, <2>12 DEF Owed
  <2> QED
    BY <2>7, <2>13 DEF WaitOwed
<1> QED
  BY <1>12, <1>13, <1>14, <1>15 DEF DapInv

\* A frame is read off the pipe: nothing else stops being owed.
LEMMA FrameTaken ==
  ASSUME DapInv, dapPipe # <<>>, dapPipe' = Tail(dapPipe), NEW frame, frame = Head(dapPipe),
         UNCHANGED adapter, debugger' \in DapClient, debugger'.next_seq = debugger.next_seq,
         dapReturn' \in DapResult,
         consumed' = consumed \/ (Answers(frame) /\ consumed' = consumed \cup {frame.seq})
  PROVE  /\ DapShape' /\ frame \in DapFrame /\ FrameTyped(frame)
         /\ AnswersInOrder => DapOrder'
         /\ \A n : Owed(n) => Owed(n)' \/ (Answers(frame) /\ frame.seq = n)
<1> DEFINE l == Len(dapPipe)
<1>1. DapShape /\ l \in Nat /\ l > 0 /\ DOMAIN dapPipe = 1..l /\ DOMAIN dapPipe' = 1..l - 1
      /\ dapPipe' \in Seq(DapFrame) /\ frame = dapPipe[1] /\ frame \in DapFrame
      /\ \A i \in 1..l - 1 : dapPipe'[i] = dapPipe[i + 1]
  <2>1. DapShape /\ dapPipe \in Seq(DapFrame)
    BY DEF DapInv, DapShape
  <2> QED
    BY <2>1, TailOf
<1>2. 1 \in DOMAIN dapPipe /\ (\A i \in DOMAIN dapPipe' : i + 1 \in DOMAIN dapPipe /\ dapPipe'[i] = dapPipe[i + 1] /\ 1 < i + 1)
      /\ \A i \in DOMAIN dapPipe : i # 1 => i - 1 \in DOMAIN dapPipe' /\ dapPipe'[i - 1] = dapPipe[i]
  <2>1. \A i \in 1..l : i # 1 => i - 1 \in 1..l - 1 /\ (i - 1) + 1 = i
    BY <1>1
  <2> QED
    BY <1>1, <2>1
<1>3. FrameTyped(frame) /\ (Answers(frame) => frame.seq \in 1..debugger.next_seq)
  BY <1>1, <1>2 DEF DapShape, FrameTyped
<1>4. DapShape'
  <2>1. consumed' \subseteq 1..debugger'.next_seq
    BY <1>1, <1>3 DEF DapShape
  <2>2. (\A i \in DOMAIN dapPipe : FrameTyped(dapPipe[i]))'
    <3>1. \A i \in DOMAIN dapPipe' :
           /\ dapPipe'[i].kind \in {"response", "refusal"} => dapPipe'[i].seq \in 1..debugger.next_seq /\ dapPipe'[i].name = "none"
           /\ ~(dapPipe'[i].kind \in {"response", "refusal"}) => dapPipe'[i].seq = 0 /\ dapPipe'[i].name \in DapEvents
      BY <1>1, <1>2 DEF DapShape, FrameTyped, Answers
    <3> QED
      BY <3>1 DEF FrameTyped, Answers
  <2>3. adapter' \in AdapterRecord /\ (\A i \in DOMAIN adapter'.todo : adapter'.todo[i].seq \in 1..debugger'.next_seq)
        /\ debugger'.next_seq <= MaxSeq
    BY <1>1 DEF DapShape
  <2> QED
    BY <1>1, <2>1, <2>2, <2>3 DEF DapShape
<1>5. AnswersInOrder => DapOrder'
  <2> SUFFICES ASSUME AnswersInOrder PROVE DapOrder'
    OBVIOUS
  <2>1. DapOrder
    BY DEF DapInv
  <2>1a. \A i, j \in DOMAIN dapPipe' : i < j => i + 1 < j + 1
    BY <1>1
  <2>2. \A i, j \in DOMAIN dapPipe' :
         i < j /\ Answers(dapPipe'[i]) /\ Answers(dapPipe'[j]) => dapPipe'[i].seq < dapPipe'[j].seq
    BY <1>2, <2>1, <2>1a DEF DapOrder
  <2>3. \A i \in DOMAIN dapPipe', j \in DOMAIN adapter'.todo :
         Answers(dapPipe'[i]) => dapPipe'[i].seq < adapter'.todo[j].seq
    BY <1>2, <2>1 DEF DapOrder
  <2>4. \A c \in consumed' : \A i \in DOMAIN dapPipe' : Answers(dapPipe'[i]) => c < dapPipe'[i].seq
    BY <1>1, <1>2, <2>1 DEF DapOrder
  <2>5. \A c \in consumed' : \A j \in DOMAIN adapter'.todo : c < adapter'.todo[j].seq
    BY <1>1, <1>2, <2>1 DEF DapOrder
  <2> QED
    BY <2>1, <2>2, <2>3, <2>4, <2>5 DEF DapOrder, Answers
<1>6. ASSUME NEW n, Owed(n) PROVE Owed(n)' \/ (Answers(frame) /\ frame.seq = n)
  <2>1. CASE \E i \in DOMAIN adapter.todo : adapter.todo[i].seq = n
    BY <2>1 DEF Owed
  <2>2. CASE \E i \in DOMAIN dapPipe : Answers(dapPipe[i]) /\ dapPipe[i].seq = n
    <3>1. PICK i \in DOMAIN dapPipe : Answers(dapPipe[i]) /\ dapPipe[i].seq = n
      BY <2>2
    <3>2. CASE i = 1
      BY <1>1, <3>1, <3>2
    <3>3. CASE i # 1
      <4>1. i - 1 \in DOMAIN dapPipe' /\ dapPipe'[i - 1] = dapPipe[i]
        BY <1>2, <3>3
      <4>2. \E k \in DOMAIN dapPipe' : dapPipe'[k].kind \in {"response", "refusal"} /\ dapPipe'[k].seq = n
        BY <3>1, <4>1 DEF Answers
      <4> QED
        BY <4>2 DEF Owed, Answers
    <3> QED
      BY <3>2, <3>3
  <2> QED
    BY <1>6, <2>1, <2>2 DEF Owed
<1> QED
  BY <1>1, <1>3, <1>4, <1>5, <1>6

\* The client's record after an update of its parts.
LEMMA ClientTyped ==
  ASSUME DapShape, NEW w \in DapWait, NEW f \in BOOLEAN, NEW e \in Seq(DapEvents),
         debugger' = [debugger EXCEPT !.wait = w, !.initialized = f, !.events = e]
  PROVE  debugger' \in DapClient /\ debugger'.wait = w /\ debugger'.next_seq = debugger.next_seq
BY DEF DapShape, DapClient


\* A wait that is over owes nothing.
LEMMA RestSound ==
  ASSUME debugger'.wait = Resting, debugger'.next_seq \in Nat
  PROVE  WaitSound' /\ WaitOwed'
BY RestingIs DEF WaitSound, WaitOwed, Listening, Requesting

\* The four ways a response goes on.
LEMMA ContinueIs ==
  ASSUME DapShape, WaitSound, Requesting, debugger' = Continue
  PROVE  /\ debugger' \in DapClient /\ debugger'.next_seq = debugger.next_seq /\ WaitSound'
         /\ \/ debugger'.wait = Resting
            \/ debugger'.wait.seq = 0 /\ debugger'.wait.command = "none"
            \/ /\ debugger.wait.op = "handshake" /\ debugger.wait.command = "launch"
               /\ debugger'.wait.seq = debugger.wait.seq + 1 /\ debugger'.wait.command = "configurationDone"
<1> DEFINE w == debugger.wait
<1>0. w \in DapWait /\ w.seq \in Nat /\ debugger.next_seq \in Nat /\ debugger.initialized \in BOOLEAN
      /\ debugger.events \in Seq(DapEvents) /\ debugger \in DapClient
      /\ debugger = [debugger EXCEPT !.initialized = debugger.initialized, !.events = debugger.events]
  BY DapPieces DEF DapShape, DapClient
<1>1. CASE w.op = "handshake" /\ w.command = "initialize"
  <2>1. debugger' = [debugger EXCEPT !.wait = [w EXCEPT !.command = "none", !.seq = 0, !.event = "initialized"]]
    BY <1>1 DEF Continue
  <2>2. [w EXCEPT !.command = "none", !.seq = 0, !.event = "initialized"] \in DapWait
    BY <1>0 DEF DapWait, DapEvents
  <2>3. debugger' \in DapClient /\ debugger'.next_seq = debugger.next_seq
        /\ debugger'.wait = [w EXCEPT !.command = "none", !.seq = 0, !.event = "initialized"]
    BY <1>0, <2>1, <2>2 DEF DapClient
  <2>4. debugger'.wait.seq = 0 /\ debugger'.wait.command = "none"
    BY <1>0, <2>3 DEF DapWait
  <2> QED
    BY <1>0, <2>3, <2>4 DEF WaitSound
<1>2. CASE w.op = "handshake" /\ w.command = "launch"
  <2>0. w.seq + 1 \in Nat /\ w.seq + 1 # 0 /\ w.seq + 1 <= debugger.next_seq /\ w.event = "none"
    BY <1>0, <1>2 DEF WaitSound, Requesting, Listening
  <2>1. debugger' = [debugger EXCEPT !.wait = [w EXCEPT !.command = "configurationDone", !.seq = w.seq + 1]]
    BY <1>2 DEF Continue
  <2>2. [w EXCEPT !.command = "configurationDone", !.seq = w.seq + 1] \in DapWait
    BY <1>0, <2>0 DEF DapWait, Commands
  <2>3. debugger' \in DapClient /\ debugger'.next_seq = debugger.next_seq
        /\ debugger'.wait = [w EXCEPT !.command = "configurationDone", !.seq = w.seq + 1]
    BY <1>0, <2>1, <2>2 DEF DapClient
  <2>4. debugger'.wait.seq = w.seq + 1 /\ debugger'.wait.command = "configurationDone" /\ debugger'.wait.event = "none"
    BY <1>0, <2>0, <2>3 DEF DapWait
  <2> QED
    BY <1>0, <1>2, <2>0, <2>3, <2>4 DEF WaitSound, Listening
<1>3. CASE w.op = "handshake" /\ w.command = "configurationDone"
  <2>1. debugger' = [debugger EXCEPT !.wait = Resting, !.initialized = TRUE]
    BY <1>3 DEF Continue
  <2>2. debugger' \in DapClient /\ debugger'.next_seq = debugger.next_seq /\ debugger'.wait = Resting
    BY <1>0, <2>1, RestingIs DEF DapClient
  <2> QED
    BY <1>0, <2>2, RestSound
<1>4. CASE ~(w.op = "handshake" /\ w.command \in {"initialize", "launch", "configurationDone"})
  <2>1. debugger' = [debugger EXCEPT !.wait = Resting]
    BY <1>4 DEF Continue
  <2>2. debugger' \in DapClient /\ debugger'.next_seq = debugger.next_seq /\ debugger'.wait = Resting
    BY <1>0, <2>1, RestingIs DEF DapClient
  <2> QED
    BY <1>0, <2>2, RestSound
<1> QED
  BY <1>1, <1>2, <1>3, <1>4

\* A response awaited: mine, refused, someone else's, an event, or nothing that parses.
LEMMA AwaitKeeps == DapInv /\ await_response => DapInv'
<1> SUFFICES ASSUME DapInv, await_response PROVE DapInv'
  OBVIOUS
<1> DEFINE frame == Head(dapPipe)
           w == debugger.wait
<1>0. DapShape /\ WaitSound /\ DapAnswerIsMine /\ (AnswersInOrder => DapOrder /\ WaitOwed)
      /\ w \in DapWait /\ w.seq \in Nat /\ debugger.next_seq \in Nat
      /\ debugger.initialized \in BOOLEAN /\ debugger.events \in Seq(DapEvents) /\ debugger \in DapClient
      /\ dapReturn \in DapResult
  BY DapPieces DEF DapInv, DapShape
<1>1. dapPipe # <<>> /\ dapPipe' = Tail(dapPipe) /\ UNCHANGED adapter /\ Requesting
  BY DEF await_response
<1>2. frame \in DapFrame /\ FrameTyped(frame) /\ frame.seq \in Nat
  <2>1. frame \in DapFrame
    BY <1>0, <1>1, TailOf DEF DapShape
  <2>2. frame = dapPipe[1] /\ 1 \in DOMAIN dapPipe
    BY <1>0, <1>1, TailOf DEF DapShape
  <2> QED
    BY <1>0, <2>1, <2>2 DEF DapFrame, DapShape
<1>3. CASE Answers(frame) /\ Mine(frame) /\ debugger' = Continue /\ Return("ok", frame.seq)
           /\ consumed' = consumed \cup {frame.seq}
  <2>1. debugger' \in DapClient /\ debugger'.next_seq = debugger.next_seq /\ WaitSound'
        /\ \/ debugger'.wait = Resting
           \/ debugger'.wait.seq = 0 /\ debugger'.wait.command = "none"
           \/ /\ w.op = "handshake" /\ w.command = "launch"
              /\ debugger'.wait.seq = w.seq + 1 /\ debugger'.wait.command = "configurationDone"
    BY <1>0, <1>1, <1>3, ContinueIs
  <2>2. dapReturn' = [result |-> "ok", asked |-> w.seq, of |-> frame.seq] /\ frame.seq = w.seq
    BY <1>3 DEF Return, Mine
  <2>3. dapReturn' \in DapResult /\ DapAnswerIsMine'
    BY <1>0, <2>2 DEF DapResult, DapAnswerIsMine
  <2>4. /\ DapShape' /\ (AnswersInOrder => DapOrder')
        /\ \A n : Owed(n) => Owed(n)' \/ (Answers(frame) /\ frame.seq = n)
    BY <1>1, <1>3, <2>1, <2>3, FrameTaken
  <2>5. ASSUME AnswersInOrder PROVE WaitOwed'
    <3>1. CASE debugger'.wait = Resting
      BY <3>1, <1>0, <2>1, RestSound
    <3>2. CASE debugger'.wait.seq = 0 /\ debugger'.wait.command = "none"
      BY <3>2 DEF WaitOwed, Requesting
    <3>3. CASE /\ w.op = "handshake" /\ w.command = "launch"
               /\ debugger'.wait.seq = w.seq + 1 /\ debugger'.wait.command = "configurationDone"
      <4>1. Owed(w.seq + 1)
        BY <1>0, <2>5, <3>3 DEF WaitOwed
      <4>2. frame.seq # w.seq + 1
        BY <1>0, <2>2
      <4>3. PICK n \in Nat : n = w.seq + 1
        BY <1>0
      <4>4. Owed(n)'
        BY <2>4, <4>1, <4>2, <4>3
      <4>5. debugger'.wait.seq = n
        BY <3>3, <4>3
      <4>6. Owed(debugger.wait.seq)'
        BY <4>4, <4>5
      <4> QED
        BY <3>3, <4>6 DEF WaitOwed
    <3> QED
      BY <2>1, <3>1, <3>2, <3>3
  <2> QED
    BY <2>1, <2>3, <2>4, <2>5 DEF DapInv
<1>4. CASE Quit("Protocol") /\ (consumed' = consumed \/ (Answers(frame) /\ consumed' = consumed \cup {frame.seq}))
  <2>1. debugger' \in DapClient /\ debugger'.next_seq = debugger.next_seq /\ debugger'.wait = Resting
    BY <1>0, <1>4, RestingIs DEF Quit, DapClient
  <2>2. dapReturn' = [result |-> "Protocol", asked |-> w.seq, of |-> 0]
    BY <1>4 DEF Quit, Return
  <2>3. dapReturn' \in DapResult /\ DapAnswerIsMine'
    BY <1>0, <2>2 DEF DapResult, DapAnswerIsMine
  <2>4. DapShape' /\ (AnswersInOrder => DapOrder')
    BY <1>1, <1>4, <2>1, <2>3, FrameTaken
  <2> QED
    BY <1>0, <2>1, <2>3, <2>4, RestSound DEF DapInv
<1>5. CASE /\ debugger'.wait = w /\ debugger' \in DapClient /\ debugger'.next_seq = debugger.next_seq
           /\ dapReturn' = dapReturn
           /\ \/ consumed' = consumed /\ ~Answers(frame)
              \/ Answers(frame) /\ consumed' = consumed \cup {frame.seq} /\ ~Mine(frame)
  <2>1. /\ DapShape' /\ (AnswersInOrder => DapOrder')
        /\ \A n : Owed(n) => Owed(n)' \/ (Answers(frame) /\ frame.seq = n)
    BY <1>0, <1>1, <1>5, FrameTaken
  <2>2. WaitSound' /\ DapAnswerIsMine'
    BY <1>0, <1>5 DEF WaitSound, DapAnswerIsMine, Listening
  <2>3. ASSUME AnswersInOrder PROVE WaitOwed'
    <3>1. PICK n \in Nat : n = w.seq
      BY <1>0
    <3>2. Owed(n) /\ (w.op = "handshake" /\ w.command = "launch" => Owed(n + 1)) /\ DapOrder
      BY <1>0, <1>1, <2>3, <3>1 DEF WaitOwed
    <3>3. Owed(n)'
      BY <1>5, <2>1, <3>1, <3>2 DEF Mine
    <3>4. ASSUME Answers(frame), frame.seq = n + 1 PROVE FALSE
      <4>1. frame = dapPipe[1] /\ 1 \in DOMAIN dapPipe /\ DOMAIN dapPipe = 1..Len(dapPipe) /\ Len(dapPipe) \in Nat
        BY <1>0, <1>1, TailOf DEF DapShape
      <4>2. CASE \E i \in DOMAIN adapter.todo : adapter.todo[i].seq = n
        <5>1. frame.seq < n
          BY <3>2, <3>4, <4>1, <4>2 DEF DapOrder
        <5> QED
          BY <3>4, <5>1
      <4>3. CASE \E i \in DOMAIN dapPipe : Answers(dapPipe[i]) /\ dapPipe[i].seq = n
        <5>1. PICK i \in DOMAIN dapPipe : Answers(dapPipe[i]) /\ dapPipe[i].seq = n
          BY <4>3
        <5>2. i # 1
          BY <3>4, <4>1, <5>1
        <5>3. 1 < i
          BY <4>1, <5>2
        <5>4. frame.seq < n
          BY <3>2, <3>4, <4>1, <5>1, <5>3 DEF DapOrder
        <5> QED
          BY <3>4, <5>4
      <4> QED
        BY <3>2, <4>2, <4>3 DEF Owed
    <3>5. w.op = "handshake" /\ w.command = "launch" => Owed(n + 1)'
      BY <2>1, <3>2, <3>4
    <3>6. debugger'.wait = w /\ debugger'.wait.seq = n
      BY <1>5, <3>1
    <3>7. Owed(debugger.wait.seq)' /\ (w.op = "handshake" /\ w.command = "launch" => Owed(debugger.wait.seq + 1)')
      BY <3>3, <3>5, <3>6
    <3> QED
      BY <3>6, <3>7 DEF WaitOwed
  <2> QED
    BY <2>1, <2>2, <2>3 DEF DapInv
<1>6. \/ Answers(frame) /\ Mine(frame) /\ debugger' = Continue /\ Return("ok", frame.seq)
         /\ consumed' = consumed \cup {frame.seq}
      \/ Quit("Protocol") /\ (consumed' = consumed \/ (Answers(frame) /\ consumed' = consumed \cup {frame.seq}))
      \/ Answers(frame) /\ ~Mine(frame) /\ consumed' = consumed \cup {frame.seq} /\ UNCHANGED <<debugger, dapReturn>>
      \/ frame.kind = "event" /\ debugger' = [debugger EXCEPT !.events = Append(@, frame.name)]
         /\ UNCHANGED <<consumed, dapReturn>>
  BY DEF await_response, Answers
<1>7. CASE Answers(frame) /\ ~Mine(frame) /\ consumed' = consumed \cup {frame.seq} /\ UNCHANGED <<debugger, dapReturn>>
  BY <1>0, <1>5, <1>7
<1>8. CASE frame.kind = "event" /\ debugger' = [debugger EXCEPT !.events = Append(@, frame.name)]
           /\ UNCHANGED <<consumed, dapReturn>>
  <2>1. ~Answers(frame) /\ frame.name \in DapEvents
    BY <1>2, <1>8 DEF Answers, FrameTyped
  <2>2. Append(debugger.events, frame.name) \in Seq(DapEvents)
    BY <1>0, <2>1
  <2>3. debugger' \in DapClient /\ debugger'.next_seq = debugger.next_seq /\ debugger'.wait = w
    BY <1>0, <1>8, <2>2 DEF DapClient
  <2> QED
    BY <1>5, <1>8, <2>1, <2>3
<1> QED
  BY <1>3, <1>4, <1>6, <1>7, <1>8

\* An event heard ends the wait, or leaves the handshake launch to send.
LEMMA HeardIs ==
  ASSUME DapInv, Listening, NEW e \in Seq(DapEvents), Heard(e)
  PROVE  /\ debugger' \in DapClient /\ debugger'.next_seq = debugger.next_seq
         /\ dapReturn' \in DapResult /\ DapAnswerIsMine' /\ WaitSound' /\ WaitOwed'
<1> DEFINE w == debugger.wait
<1>0. DapShape /\ WaitSound /\ w \in DapWait /\ debugger.next_seq \in Nat /\ debugger \in DapClient
      /\ w.seq = 0 /\ w.command = "none"
  BY DapPieces DEF DapInv, DapShape, WaitSound
<1>1. debugger' = [debugger EXCEPT !.events = e, !.wait = IF w.op = "handshake" THEN [w EXCEPT !.event = "none"] ELSE Resting]
      /\ dapReturn' = [result |-> "ok", asked |-> 0, of |-> 0]
  BY <1>0 DEF Heard, Return
<1>2. dapReturn' \in DapResult /\ DapAnswerIsMine'
  BY <1>1 DEF DapResult, DapAnswerIsMine
<1>3. CASE w.op = "handshake"
  <2>1. [w EXCEPT !.event = "none"] \in DapWait /\ [w EXCEPT !.event = "none"].seq = 0
        /\ [w EXCEPT !.event = "none"].command = "none"
    BY <1>0 DEF DapWait
  <2>2. debugger' \in DapClient /\ debugger'.next_seq = debugger.next_seq
        /\ debugger'.wait = [w EXCEPT !.event = "none"]
    BY <1>0, <1>1, <1>3, <2>1 DEF DapClient
  <2> QED
    BY <1>0, <1>2, <2>1, <2>2 DEF WaitSound, WaitOwed, Listening, Requesting
<1>4. CASE w.op # "handshake"
  <2>1. debugger' \in DapClient /\ debugger'.next_seq = debugger.next_seq /\ debugger'.wait = Resting
    BY <1>0, <1>1, <1>4, RestingIs DEF DapClient
  <2> QED
    BY <1>0, <1>2, <2>1, RestSound
<1> QED
  BY <1>3, <1>4

\* What is owed stays so while the pipe is not read.
LEMMA QueueKeeps == DapInv /\ WaitFromQueue => DapInv'
<1> SUFFICES ASSUME DapInv, WaitFromQueue PROVE DapInv'
  OBVIOUS
<1> DEFINE w == debugger.wait
           name == w.event
           queued == debugger.events
<1>0. DapShape /\ WaitSound /\ DapAnswerIsMine /\ (AnswersInOrder => DapOrder /\ WaitOwed)
      /\ w \in DapWait /\ debugger.next_seq \in Nat /\ queued \in Seq(DapEvents) /\ debugger \in DapClient
      /\ w.seq \in Nat /\ dapReturn \in DapResult
  BY DapPieces DEF DapInv, DapShape
<1>1. Listening /\ UNCHANGED <<adapter, dapPipe, consumed>>
      /\ \/ \E i \in FirstOf(name, queued) : Heard(SubSeq(queued, i + 1, Len(queued)))
         \/ debugger' = [debugger EXCEPT !.events = <<>>] /\ UNCHANGED dapReturn
  BY DEF WaitFromQueue
<1>2. ASSUME debugger' \in DapClient, debugger'.next_seq = debugger.next_seq, dapReturn' \in DapResult,
             DapAnswerIsMine', WaitSound', WaitOwed'
      PROVE  DapInv'
  <2>1. DapShape'
    BY <1>0, <1>1, <1>2 DEF DapShape, FrameTyped
  <2> QED
    BY <1>1, <1>2, <2>1, OrderStays DEF DapInv
<1>3. ASSUME NEW i \in FirstOf(name, queued), Heard(SubSeq(queued, i + 1, Len(queued))) PROVE DapInv'
  <2>1. i \in 1..Len(queued) /\ Len(queued) \in Nat
    BY <1>0 DEF FirstOf
  <2>2. SubSeq(queued, i + 1, Len(queued)) \in Seq(DapEvents)
    <3>1. \A k \in (i + 1)..Len(queued) : queued[k] \in DapEvents
      BY <1>0, <2>1
    <3> QED
      BY <1>0, <2>1, SubSeqProperties
  <2> QED
    BY <1>1, <1>2, <1>3, <2>2, HeardIs
<1>4. CASE debugger' = [debugger EXCEPT !.events = <<>>] /\ UNCHANGED dapReturn
  <2>1. <<>> \in Seq(DapEvents)
    OBVIOUS
  <2>2. debugger' \in DapClient /\ debugger'.next_seq = debugger.next_seq /\ debugger'.wait = w
    BY <1>0, <1>4, <2>1 DEF DapClient
  <2>3. w.seq = 0 /\ w.command = "none"
    BY <1>0, <1>1 DEF WaitSound
  <2>4. WaitSound' /\ WaitOwed' /\ DapAnswerIsMine'
    BY <1>0, <1>4, <2>2, <2>3 DEF WaitSound, WaitOwed, Listening, Requesting, DapAnswerIsMine
  <2> QED
    BY <1>0, <1>2, <1>4, <2>2, <2>4
<1> QED
  BY <1>1, <1>3, <1>4

\* wait_event reading the pipe.
LEMMA PipeKeeps == DapInv /\ WaitFromPipe => DapInv'
<1> SUFFICES ASSUME DapInv, WaitFromPipe PROVE DapInv'
  OBVIOUS
<1> DEFINE frame == Head(dapPipe)
           w == debugger.wait
<1>0. DapShape /\ WaitSound /\ DapAnswerIsMine /\ (AnswersInOrder => DapOrder /\ WaitOwed)
      /\ w \in DapWait /\ w.seq \in Nat /\ debugger.next_seq \in Nat /\ debugger \in DapClient
      /\ dapReturn \in DapResult
  BY DapPieces DEF DapInv, DapShape
<1>1. dapPipe # <<>> /\ dapPipe' = Tail(dapPipe) /\ UNCHANGED adapter /\ Listening /\ w.seq = 0 /\ w.command = "none"
  BY <1>0 DEF WaitFromPipe, WaitSound
<1>2. frame \in DapFrame /\ FrameTyped(frame) /\ frame.seq \in Nat
  <2>1. frame \in DapFrame
    BY <1>0, <1>1, TailOf DEF DapShape
  <2>2. frame = dapPipe[1] /\ 1 \in DOMAIN dapPipe
    BY <1>0, <1>1, TailOf DEF DapShape
  <2> QED
    BY <1>0, <2>1, <2>2 DEF DapFrame, DapShape
<1>3. consumed' = consumed \/ (Answers(frame) /\ consumed' = consumed \cup {frame.seq})
  BY DEF WaitFromPipe, Answers
<1>4. ASSUME debugger' \in DapClient, debugger'.next_seq = debugger.next_seq, dapReturn' \in DapResult,
             DapAnswerIsMine', WaitSound', WaitOwed'
      PROVE  DapInv'
  <2>1. DapShape' /\ (AnswersInOrder => DapOrder')
    BY <1>1, <1>3, <1>4, FrameTaken
  <2> QED
    BY <1>4, <2>1 DEF DapInv
<1>5. CASE Heard(<<>>)
  <2>1. <<>> \in Seq(DapEvents)
    OBVIOUS
  <2> QED
    BY <1>1, <1>4, <1>5, <2>1, HeardIs
<1>6. CASE frame.kind = "event" /\ debugger' = [debugger EXCEPT !.events = <<frame.name>>] /\ UNCHANGED dapReturn
  <2>1. frame.name \in DapEvents
    BY <1>2, <1>6 DEF Answers, FrameTyped
  <2>2. <<frame.name>> \in Seq(DapEvents)
    BY <2>1
  <2>3. debugger' \in DapClient /\ debugger'.next_seq = debugger.next_seq /\ debugger'.wait = w
    BY <1>0, <1>6, <2>2 DEF DapClient
  <2>4. WaitSound' /\ WaitOwed' /\ DapAnswerIsMine'
    BY <1>0, <1>1, <1>6, <2>3 DEF WaitSound, WaitOwed, Listening, Requesting, DapAnswerIsMine
  <2> QED
    BY <1>0, <1>4, <1>6, <2>3, <2>4
<1>7. CASE UNCHANGED <<debugger, dapReturn>>
  <2>1. WaitSound' /\ WaitOwed' /\ DapAnswerIsMine'
    BY <1>0, <1>1, <1>7 DEF WaitSound, WaitOwed, Listening, Requesting, DapAnswerIsMine
  <2> QED
    BY <1>0, <1>4, <1>7, <2>1
<1>8. CASE Quit("Protocol")
  <2>1. debugger' \in DapClient /\ debugger'.next_seq = debugger.next_seq /\ debugger'.wait = Resting
    BY <1>0, <1>8, RestingIs DEF Quit, DapClient
  <2>2. dapReturn' = [result |-> "Protocol", asked |-> w.seq, of |-> 0]
    BY <1>8 DEF Quit, Return
  <2>3. dapReturn' \in DapResult /\ DapAnswerIsMine'
    BY <1>0, <2>2 DEF DapResult, DapAnswerIsMine
  <2> QED
    BY <1>0, <1>4, <2>1, <2>3, RestSound
<1> QED
  BY <1>5, <1>6, <1>7, <1>8 DEF WaitFromPipe

\* The calls that end without reading: the pipe at its end, a write to a dead adapter.
LEMMA EndKeeps == DapInv /\ (PipeEndsOrStalls \/ WriteFails) => DapInv'
<1> SUFFICES ASSUME DapInv, PipeEndsOrStalls \/ WriteFails PROVE DapInv'
  OBVIOUS
<1>0. DapShape /\ debugger.next_seq \in Nat /\ debugger.wait.seq \in Nat /\ debugger \in DapClient
      /\ adapter \in AdapterRecord /\ debugger.next_seq <= MaxSeq /\ MaxSeq \in Nat
  BY DapPieces, DapConstants DEF DapInv, DapShape
<1>1. CASE PipeEndsOrStalls
  <2>1. debugger' = [debugger EXCEPT !.wait = Resting] /\ UNCHANGED <<dapPipe, consumed>>
        /\ dapReturn' = [result |-> "Transport", asked |-> debugger.wait.seq, of |-> 0]
        /\ adapter' = [adapter EXCEPT !.alive = FALSE]
    BY <1>1 DEF PipeEndsOrStalls, Quit, Return
  <2>2. [result |-> "Transport", asked |-> debugger.wait.seq, of |-> 0] \in DapResult
    BY <1>0 DEF DapResult
  <2>3. adapter' \in AdapterRecord /\ adapter'.todo = adapter.todo
    BY <1>0, <2>1 DEF AdapterRecord
  <2>4. debugger' = [debugger EXCEPT !.wait = Resting, !.next_seq = debugger.next_seq]
    BY <1>0, <2>1 DEF DapClient
  <2>5. PICK n \in Nat : n = debugger.next_seq
    BY <1>0
  <2>6. PICK r \in DapResult : dapReturn' = r /\ r.result = "Transport"
    BY <2>1, <2>2
  <2>8. debugger.next_seq <= n /\ n <= MaxSeq /\ debugger' = [debugger EXCEPT !.wait = Resting, !.next_seq = n]
    BY <1>0, <2>4, <2>5
  <2>9. r.result = "ok" /\ r.asked # 0 => r.of = r.asked
    BY <2>6
  <2> QED
    BY <2>1, <2>3, <2>6, <2>8, <2>9, RestKeeps
<1>2. CASE WriteFails
  <2>1. debugger' = [debugger EXCEPT !.next_seq = @ + 1, !.wait = Resting] /\ UNCHANGED <<adapter, dapPipe, consumed>>
        /\ dapReturn' = [result |-> "Transport", asked |-> debugger.next_seq + 1, of |-> 0]
        /\ debugger.next_seq < MaxSeq
    BY <1>2 DEF WriteFails
  <2>2. debugger.next_seq + 1 \in Nat /\ debugger.next_seq + 1 <= MaxSeq /\ debugger.next_seq <= debugger.next_seq + 1
    BY <1>0, <2>1
  <2>3. [result |-> "Transport", asked |-> debugger.next_seq + 1, of |-> 0] \in DapResult
    BY <2>2 DEF DapResult
  <2>4. debugger' = [debugger EXCEPT !.wait = Resting, !.next_seq = debugger.next_seq + 1]
    BY <1>0, <2>1 DEF DapClient
  <2>5. PICK n \in Nat : n = debugger.next_seq + 1
    BY <2>2
  <2>6. PICK r \in DapResult : dapReturn' = r /\ r.result = "Transport"
    BY <2>1, <2>3
  <2>7. adapter' \in AdapterRecord /\ adapter'.todo = adapter.todo /\ UNCHANGED <<dapPipe, consumed>>
    BY <1>0, <2>1
  <2>8. debugger.next_seq <= n /\ n <= MaxSeq /\ debugger' = [debugger EXCEPT !.wait = Resting, !.next_seq = n]
    BY <2>2, <2>4, <2>5
  <2>9. r.result = "ok" /\ r.asked # 0 => r.of = r.asked
    BY <2>6
  <2> QED
    BY <2>6, <2>7, <2>8, <2>9, RestKeeps
<1> QED
  BY <1>1, <1>2

\* The public calls.
LEMMA CallsKeep ==
  DapInv /\ (initialize \/ LaunchAndConfigure \/ set_breakpoint \/ stack_trace) => DapInv'
<1> SUFFICES ASSUME DapInv, initialize \/ LaunchAndConfigure \/ set_breakpoint \/ stack_trace PROVE DapInv'
  OBVIOUS
<1>1. \E op \in {"handshake", "call"}, commands \in Seq(Commands) :
        /\ Len(commands) \in {1, 2} /\ (op = "handshake" /\ commands[1] = "launch" => Len(commands) = 2)
        /\ SendAll(op, commands)
  <2>1. /\ <<"initialize">> \in Seq(Commands) /\ <<"setBreakpoints">> \in Seq(Commands)
        /\ <<"stackTrace">> \in Seq(Commands) /\ <<"launch", "configurationDone">> \in Seq(Commands)
    BY DEF Commands
  <2>2. CASE initialize
    <3>1. Len(<<"initialize">>) = 1 /\ <<"initialize">>[1] # "launch"
      OBVIOUS
    <3> QED
      BY <2>1, <2>2, <3>1 DEF initialize
  <2>3. CASE LaunchAndConfigure
    <3>1. Len(<<"launch", "configurationDone">>) = 2
      OBVIOUS
    <3> QED
      BY <2>1, <2>3, <3>1 DEF LaunchAndConfigure
  <2>4. CASE set_breakpoint
    <3>1. Len(<<"setBreakpoints">>) = 1
      OBVIOUS
    <3> QED
      BY <2>1, <2>4, <3>1 DEF set_breakpoint
  <2>5. CASE stack_trace
    <3>1. Len(<<"stackTrace">>) = 1
      OBVIOUS
    <3> QED
      BY <2>1, <2>5, <3>1 DEF stack_trace
  <2> QED
    BY <2>2, <2>3, <2>4, <2>5
<1>2. PICK op \in {"handshake", "call"}, commands \in Seq(Commands) :
        /\ Len(commands) \in {1, 2} /\ (op = "handshake" /\ commands[1] = "launch" => Len(commands) = 2)
        /\ SendAll(op, commands)
  BY <1>1
<1> QED
  BY <1>2, SendKeeps

\* wait_event asks for nothing.
LEMMA ListenKeeps == ASSUME DapInv, NEW name \in DapEvents, wait_event(name) PROVE DapInv'
<1>0. DapShape /\ debugger.next_seq \in Nat /\ debugger \in DapClient
  BY DapPieces DEF DapInv, DapShape
<1> DEFINE w2 == [Resting EXCEPT !.op = "call", !.event = name]
<1>1. debugger' = [debugger EXCEPT !.wait = w2] /\ dapReturn' = DapNone /\ UNCHANGED <<adapter, dapPipe, consumed>>
  BY DEF wait_event
<1>2. w2 \in DapWait /\ w2.seq = 0 /\ w2.command = "none"
  BY RestingIs DEF DapWait
<1> HIDE DEF w2
<1>3. debugger' \in DapClient /\ debugger'.next_seq = debugger.next_seq /\ debugger'.wait = w2
  BY <1>0, <1>1, <1>2 DEF DapClient
<1>4. DapShape'
  BY <1>0, <1>1, <1>3, RestingIs DEF DapShape, FrameTyped
<1>5. WaitSound' /\ WaitOwed' /\ DapAnswerIsMine'
  BY <1>0, <1>1, <1>2, <1>3, RestingIs DEF WaitSound, WaitOwed, Listening, Requesting, DapAnswerIsMine
<1> QED
  BY <1>1, <1>4, <1>5, OrderStays DEF DapInv

\* What an append leaves and what it adds.
LEMMA Appended ==
  ASSUME NEW S, NEW s \in Seq(S), NEW e \in S, NEW r, r = Append(s, e)
  PROVE  /\ r \in Seq(S) /\ Len(s) \in Nat /\ DOMAIN s = 1..Len(s)
         /\ DOMAIN r = 1..Len(s) + 1 /\ r[Len(s) + 1] = e
         /\ \A k \in DOMAIN s : k \in DOMAIN r /\ r[k] = s[k] /\ k < Len(s) + 1
         /\ \A k \in DOMAIN r : k \in DOMAIN s \/ k = Len(s) + 1
OBVIOUS

\* An adapter's answer goes to the end of the pipe; in order, it is the oldest owed.
LEMMA AnswerKeeps ==
  ASSUME DapInv, NEW i \in 1..MaxSeq, NEW kind \in {"response", "refusal"}, AdapterAnswers(i, kind)
  PROVE  DapInv'
<1> DEFINE l == Len(dapPipe)
           todo == adapter.todo
           m == Len(todo)
           frame == [kind |-> kind, seq |-> todo[i].seq, name |-> "none"]
           at(k) == IF k < i THEN k ELSE k + 1
<1>0. DapShape /\ WaitSound /\ DapAnswerIsMine /\ (AnswersInOrder => DapOrder /\ WaitOwed)
      /\ debugger.next_seq \in Nat /\ todo \in Seq(Asked) /\ m \in Nat /\ DOMAIN todo = 1..m
      /\ l \in Nat /\ DOMAIN dapPipe = 1..l /\ dapPipe \in Seq(DapFrame) /\ debugger.wait.seq \in Nat
      /\ adapter \in AdapterRecord
  BY DapPieces DEF DapInv, DapShape
<1>1. i \in 1..m /\ UNCHANGED <<debugger, consumed, dapReturn>> /\ (AnswersInOrder => i = 1)
      /\ adapter'.todo = SubSeq(todo, 1, i - 1) \o SubSeq(todo, i + 1, m)
      /\ adapter' = [adapter EXCEPT !.todo = adapter'.todo]
      /\ dapPipe' = Append(dapPipe, frame)
  <2>1. adapter' = [adapter EXCEPT !.todo = SubSeq(todo, 1, i - 1) \o SubSeq(todo, i + 1, m)]
    BY DEF AdapterAnswers
  <2>2. adapter'.todo = SubSeq(todo, 1, i - 1) \o SubSeq(todo, i + 1, m)
    BY <1>0, <2>1 DEF AdapterRecord
  <2> QED
    BY <1>0, <2>1, <2>2 DEF AdapterAnswers
<1>2. /\ adapter'.todo \in Seq(Asked) /\ DOMAIN adapter'.todo = 1..m - 1
      /\ \A k \in 1..m - 1 : adapter'.todo[k] = todo[IF k < i THEN k ELSE k + 1]
  <2>1. todo \in Seq(Asked) /\ i \in 1..Len(todo) /\ adapter'.todo = SubSeq(todo, 1, i - 1) \o SubSeq(todo, i + 1, Len(todo))
    BY <1>0, <1>1
  <2>2. ASSUME NEW s \in Seq(Asked), NEW r, NEW k \in 1..Len(s), r = SubSeq(s, 1, k - 1) \o SubSeq(s, k + 1, Len(s))
        PROVE  /\ r \in Seq(Asked) /\ DOMAIN r = 1..Len(s) - 1
               /\ \A j \in 1..Len(s) - 1 : r[j] = s[IF j < k THEN j ELSE j + 1]
    <3>1. r \in Seq(Asked)
      BY ONLY <2>2, Without
    <3>2. DOMAIN r = 1..Len(s) - 1
      BY ONLY <2>2, Without
    <3>3. ASSUME NEW j \in 1..Len(s) - 1 PROVE r[j] = s[IF j < k THEN j ELSE j + 1]
      <4>1. /\ \A q \in 1..Len(s) - 1 : q < k => r[q] = s[q]
            /\ \A q \in 1..Len(s) - 1 : ~(q < k) => r[q] = s[q + 1]
        BY ONLY <2>2, Without, ZenonT(60)
      <4>2. CASE j < k
        BY ONLY <3>3, <4>1, <4>2
      <4>3. CASE ~(j < k)
        BY ONLY <3>3, <4>1, <4>3
      <4> QED
        BY <4>2, <4>3
    <3> QED
      BY <3>1, <3>2, <3>3
  <2> QED
    BY ONLY <2>1, <2>2
<1>3. /\ \A k \in DOMAIN adapter'.todo : at(k) \in DOMAIN todo /\ at(k) # i /\ adapter'.todo[k] = todo[at(k)]
      /\ \A j, k \in DOMAIN adapter'.todo : j < k => at(j) < at(k)
      /\ \A j \in DOMAIN todo : j # i => \E k \in DOMAIN adapter'.todo : adapter'.todo[k] = todo[j]
  <2> HIDE DEF at
  <2>0. m \in Nat /\ i \in 1..m
    BY <1>0, <1>1
  <2>a. ASSUME NEW M \in Nat, NEW I \in 1..M, NEW k \in 1..M - 1
        PROVE  (IF k < I THEN k ELSE k + 1) \in 1..M /\ (IF k < I THEN k ELSE k + 1) # I
    BY ONLY M \in Nat, I \in 1..M, k \in 1..M - 1
  <2>1. \A k \in 1..m - 1 : at(k) \in 1..m /\ at(k) # i
    BY ONLY <2>0, <2>a DEF at
  <2>b. ASSUME NEW M \in Nat, NEW I \in 1..M, NEW k \in 1..M - 1, NEW j \in 1..M - 1, j < k
        PROVE  (IF j < I THEN j ELSE j + 1) < (IF k < I THEN k ELSE k + 1)
    BY ONLY M \in Nat, I \in 1..M, k \in 1..M - 1, j \in 1..M - 1, j < k
  <2>2. \A j, k \in 1..m - 1 : j < k => at(j) < at(k)
    BY ONLY <2>0, <2>b DEF at
  <2>3. ASSUME NEW j \in DOMAIN todo, j # i PROVE \E k \in DOMAIN adapter'.todo : adapter'.todo[k] = todo[j]
    <3>1. CASE j < i
      <4>1. j \in 1..m - 1
        <5>1. m \in Nat /\ i \in 1..m /\ j \in 1..m
          BY <1>0, <1>1
        <5> QED
          BY ONLY <5>1, <3>1
      <4> QED
        BY <1>2, <3>1, <4>1
    <3>2. CASE j > i
      <4>1. j - 1 \in 1..m - 1 /\ ~(j - 1 < i) /\ (j - 1) + 1 = j
        <5>1. m \in Nat /\ i \in 1..m /\ j \in 1..m
          BY <1>0, <1>1
        <5> QED
          BY ONLY <5>1, <3>2
      <4>2. j - 1 \in DOMAIN adapter'.todo
        BY <1>2, <4>1
      <4>3. adapter'.todo[j - 1] = todo[j]
        BY <1>2, <4>1
      <4> QED
        BY ONLY <4>2, <4>3
    <3>3. j < i \/ j > i
      <4>1. m \in Nat /\ i \in 1..m /\ j \in 1..m
        BY <1>0, <1>1
      <4> QED
        BY ONLY <4>1, <2>3
    <3> QED
      BY <3>1, <3>2, <3>3
  <2> QED
    BY <1>0, <1>2, <2>1, <2>2, <2>3 DEF at
<1>4. frame \in DapFrame /\ Answers(frame) /\ frame.seq = todo[i].seq /\ frame.seq \in 1..debugger.next_seq
  <2>1. todo[i] \in Asked /\ todo[i].seq \in 1..debugger.next_seq
    BY SMTT(20), <1>0, <1>1 DEF DapShape
  <2> QED
    BY <2>1 DEF DapFrame, Answers, Asked
<1> HIDE DEF frame
<1>5. /\ dapPipe' \in Seq(DapFrame) /\ DOMAIN dapPipe' = 1..l + 1 /\ dapPipe'[l + 1] = frame
      /\ \A k \in DOMAIN dapPipe : k \in DOMAIN dapPipe' /\ dapPipe'[k] = dapPipe[k] /\ k < l + 1
      /\ \A k \in DOMAIN dapPipe' : k \in DOMAIN dapPipe \/ k = l + 1
  <2>1. dapPipe \in Seq(DapFrame) /\ frame \in DapFrame /\ dapPipe' = Append(dapPipe, frame)
    BY <1>0, <1>1, <1>4
  <2>2. /\ dapPipe' \in Seq(DapFrame) /\ Len(dapPipe) \in Nat /\ DOMAIN dapPipe = 1..Len(dapPipe)
        /\ DOMAIN dapPipe' = 1..Len(dapPipe) + 1 /\ dapPipe'[Len(dapPipe) + 1] = frame
        /\ \A k \in DOMAIN dapPipe : k \in DOMAIN dapPipe' /\ dapPipe'[k] = dapPipe[k] /\ k < Len(dapPipe) + 1
        /\ \A k \in DOMAIN dapPipe' : k \in DOMAIN dapPipe \/ k = Len(dapPipe) + 1
    BY ONLY <2>1, Appended
  <2> QED
    BY ONLY <2>2
<1> HIDE DEF at
<1>6. adapter' \in AdapterRecord
  BY <1>0, <1>1, <1>2 DEF AdapterRecord
<1>7. DapShape'
  <2>1. (\A k \in DOMAIN dapPipe : FrameTyped(dapPipe[k]))'
    <3>1. \A k \in DOMAIN dapPipe' :
           /\ dapPipe'[k].kind \in {"response", "refusal"} => dapPipe'[k].seq \in 1..debugger.next_seq /\ dapPipe'[k].name = "none"
           /\ ~(dapPipe'[k].kind \in {"response", "refusal"}) => dapPipe'[k].seq = 0 /\ dapPipe'[k].name \in DapEvents
      <4>1. frame.name = "none" /\ frame.kind \in {"response", "refusal"}
        BY DEF frame
      <4> QED
        BY <1>0, <1>4, <1>5, <4>1 DEF DapShape, FrameTyped, Answers
    <3> QED
      BY <1>1, <3>1 DEF FrameTyped, Answers
  <2>2. \A k \in DOMAIN adapter'.todo : adapter'.todo[k].seq \in 1..debugger.next_seq
    BY <1>0, <1>3 DEF DapShape
  <2> QED
    BY <1>0, <1>1, <1>5, <1>6, <2>1, <2>2 DEF DapShape
<1>8. \A n : Owed(n) => Owed(n)'
  <2> SUFFICES ASSUME NEW n, Owed(n) PROVE Owed(n)'
    OBVIOUS
  <2>1. CASE \E j \in DOMAIN todo : todo[j].seq = n /\ j # i
    <3>1. \E k \in DOMAIN adapter'.todo : adapter'.todo[k].seq = n
      BY <1>3, <2>1
    <3> QED
      BY <3>1 DEF Owed
  <2>2. CASE \E k \in DOMAIN dapPipe' : dapPipe'[k].kind \in {"response", "refusal"} /\ dapPipe'[k].seq = n
    BY <2>2 DEF Owed, Answers
  <2>3. CASE todo[i].seq = n
    <3>1. l + 1 \in DOMAIN dapPipe'
      BY <1>0, <1>5
    <3> QED
      BY <1>4, <1>5, <2>2, <2>3, <3>1 DEF Answers
  <2>4. CASE \E k \in DOMAIN dapPipe : Answers(dapPipe[k]) /\ dapPipe[k].seq = n
    BY <1>5, <2>2, <2>4 DEF Answers
  <2> QED
    BY <2>1, <2>3, <2>4 DEF Owed
<1>9. ASSUME AnswersInOrder PROVE DapOrder'
  <2>0. DapOrder /\ i = 1
    BY <1>0, <1>1, <1>9
  <2>1. \A k \in DOMAIN adapter'.todo : i < at(k)
    <3> SUFFICES ASSUME NEW k \in DOMAIN adapter'.todo PROVE i < at(k)
      OBVIOUS
    <3>1. at(k) \in 1..m /\ at(k) # i
      BY <1>0, <1>3
    <3> QED
      BY <1>0, <2>0, <3>1
  <2>2. \A j, k \in DOMAIN adapter'.todo : j < k => adapter'.todo[j].seq < adapter'.todo[k].seq
    BY <1>3, <2>0 DEF DapOrder
  <2>3. \A k \in DOMAIN adapter'.todo : frame.seq < adapter'.todo[k].seq
    <3> SUFFICES ASSUME NEW k \in DOMAIN adapter'.todo PROVE frame.seq < adapter'.todo[k].seq
      OBVIOUS
    <3>1. at(k) \in DOMAIN todo /\ i \in DOMAIN todo /\ i < at(k) /\ adapter'.todo[k] = todo[at(k)]
      BY <1>0, <1>1, <1>3, <2>1
    <3>2. todo[i].seq < todo[at(k)].seq
      BY <2>0, <3>1 DEF DapOrder
    <3> QED
      BY <1>4, <3>1, <3>2
  <2>4. \A j, k \in DOMAIN dapPipe' :
         j < k /\ Answers(dapPipe'[j]) /\ Answers(dapPipe'[k]) => dapPipe'[j].seq < dapPipe'[k].seq
    <3> SUFFICES ASSUME NEW j \in DOMAIN dapPipe', NEW k \in DOMAIN dapPipe', j < k,
                        Answers(dapPipe'[j]), Answers(dapPipe'[k])
                 PROVE  dapPipe'[j].seq < dapPipe'[k].seq
      OBVIOUS
    <3>1. j \in DOMAIN dapPipe
      BY <1>0, <1>5
    <3>2. CASE k \in DOMAIN dapPipe
      BY <1>5, <2>0, <3>1, <3>2 DEF DapOrder
    <3>3. CASE k = l + 1
      <4>1. dapPipe[j].seq < todo[i].seq
        BY <1>0, <1>1, <1>5, <2>0, <3>1 DEF DapOrder
      <4> QED
        BY <1>4, <1>5, <3>1, <3>3, <4>1
    <3> QED
      BY <1>5, <3>2, <3>3
  <2>5. \A j \in DOMAIN dapPipe', k \in DOMAIN adapter'.todo :
         Answers(dapPipe'[j]) => dapPipe'[j].seq < adapter'.todo[k].seq
    BY <1>3, <1>5, <2>0, <2>3 DEF DapOrder
  <2>6. \A c \in consumed : \A j \in DOMAIN dapPipe' : Answers(dapPipe'[j]) => c < dapPipe'[j].seq
    BY <1>0, <1>1, <1>4, <1>5, <2>0 DEF DapOrder
  <2>7. \A c \in consumed : \A k \in DOMAIN adapter'.todo : c < adapter'.todo[k].seq
    BY <1>3, <2>0 DEF DapOrder
  <2> QED
    BY <1>1, <2>2, <2>4, <2>5, <2>6, <2>7 DEF DapOrder, Answers
<1>10. WaitSound' /\ DapAnswerIsMine' /\ (AnswersInOrder => WaitOwed')
  BY <1>0, <1>1, <1>8 DEF WaitSound, WaitOwed, Listening, Requesting, DapAnswerIsMine
<1> QED
  BY <1>7, <1>9, <1>10 DEF DapInv

\* An event, or a frame that does not parse, is nobody's answer.
LEMMA PushKeeps ==
  ASSUME DapInv, NEW kind \in {"event", "malformed"}, NEW name \in DapEvents, AdapterPushes(kind, name)
  PROVE  DapInv'
<1> DEFINE l == Len(dapPipe)
           frame == [kind |-> kind, seq |-> 0, name |-> name]
<1>0. DapShape /\ WaitSound /\ DapAnswerIsMine /\ (AnswersInOrder => DapOrder /\ WaitOwed)
      /\ l \in Nat /\ DOMAIN dapPipe = 1..l /\ dapPipe \in Seq(DapFrame) /\ adapter \in AdapterRecord
      /\ adapter.pushed \in Nat
  BY DapPieces DEF DapInv, DapShape
<1>1. adapter' = [adapter EXCEPT !.pushed = @ + 1] /\ UNCHANGED <<debugger, consumed, dapReturn>>
      /\ dapPipe' = Append(dapPipe, frame)
  BY DEF AdapterPushes
<1>2. adapter.pushed + 1 \in Nat
  BY <1>0
<1>3. adapter' \in AdapterRecord /\ adapter'.todo = adapter.todo
  BY <1>0, <1>1, <1>2 DEF AdapterRecord
<1>4. frame \in DapFrame /\ ~Answers(frame) /\ frame.seq = 0 /\ frame.name \in DapEvents
  BY DEF DapFrame, Answers
<1> HIDE DEF frame
<1>5. /\ dapPipe' \in Seq(DapFrame) /\ DOMAIN dapPipe' = 1..l + 1 /\ dapPipe'[l + 1] = frame
      /\ \A k \in DOMAIN dapPipe : k \in DOMAIN dapPipe' /\ dapPipe'[k] = dapPipe[k]
      /\ \A k \in DOMAIN dapPipe' : k \in DOMAIN dapPipe \/ k = l + 1
  <2>1. dapPipe \in Seq(DapFrame) /\ frame \in DapFrame /\ dapPipe' = Append(dapPipe, frame)
    BY <1>0, <1>1, <1>4
  <2>2. /\ dapPipe' \in Seq(DapFrame) /\ Len(dapPipe) \in Nat /\ DOMAIN dapPipe = 1..Len(dapPipe)
        /\ DOMAIN dapPipe' = 1..Len(dapPipe) + 1 /\ dapPipe'[Len(dapPipe) + 1] = frame
        /\ \A k \in DOMAIN dapPipe : k \in DOMAIN dapPipe' /\ dapPipe'[k] = dapPipe[k] /\ k < Len(dapPipe) + 1
        /\ \A k \in DOMAIN dapPipe' : k \in DOMAIN dapPipe \/ k = Len(dapPipe) + 1
    BY ONLY <2>1, Appended
  <2> QED
    BY ONLY <2>2
<1>6. DapShape'
  <2>1. (\A k \in DOMAIN dapPipe : FrameTyped(dapPipe[k]))'
    <3>1. \A k \in DOMAIN dapPipe' :
           /\ dapPipe'[k].kind \in {"response", "refusal"} => dapPipe'[k].seq \in 1..debugger.next_seq /\ dapPipe'[k].name = "none"
           /\ ~(dapPipe'[k].kind \in {"response", "refusal"}) => dapPipe'[k].seq = 0 /\ dapPipe'[k].name \in DapEvents
      BY <1>0, <1>4, <1>5 DEF DapShape, FrameTyped, Answers
    <3> QED
      BY <1>1, <3>1 DEF FrameTyped, Answers
  <2> QED
    BY <1>0, <1>1, <1>3, <1>5, <2>1 DEF DapShape
<1>7. \A n : Owed(n) => Owed(n)'
  <2> SUFFICES ASSUME NEW n, Owed(n) PROVE Owed(n)'
    OBVIOUS
  <2>1. CASE \E j \in DOMAIN adapter.todo : adapter.todo[j].seq = n
    BY <1>3, <2>1 DEF Owed
  <2>2. CASE \E k \in DOMAIN dapPipe : Answers(dapPipe[k]) /\ dapPipe[k].seq = n
    <3>1. \E k \in DOMAIN dapPipe' : dapPipe'[k].kind \in {"response", "refusal"} /\ dapPipe'[k].seq = n
      BY <1>5, <2>2 DEF Answers
    <3> QED
      BY <3>1 DEF Owed, Answers
  <2> QED
    BY <2>1, <2>2 DEF Owed
<1>8. AnswersInOrder => DapOrder'
  <2>1. \A j \in DOMAIN dapPipe' : Answers(dapPipe'[j]) => j \in DOMAIN dapPipe /\ dapPipe'[j] = dapPipe[j]
    BY <1>4, <1>5
  <2> QED
    BY <1>0, <1>1, <1>3, <2>1 DEF DapOrder, Answers
<1>9. WaitSound' /\ DapAnswerIsMine' /\ (AnswersInOrder => WaitOwed')
  BY <1>0, <1>1, <1>7 DEF WaitSound, WaitOwed, Listening, Requesting, DapAnswerIsMine
<1> QED
  BY <1>6, <1>8, <1>9 DEF DapInv

\* The debug client's invariant is inductive.
LEMMA DapInvKept == DapInv /\ [DapNext]_dapVars => DapInv'
<1> SUFFICES ASSUME DapInv, [DapNext]_dapVars PROVE DapInv'
  OBVIOUS
<1>1. CASE initialize \/ LaunchAndConfigure \/ set_breakpoint \/ stack_trace
  BY <1>1, CallsKeep
<1>2. CASE \E name \in DapEvents : wait_event(name)
  BY <1>2, ListenKeeps
<1>3. CASE await_response
  BY <1>3, AwaitKeeps
<1>4. CASE WriteFails \/ PipeEndsOrStalls
  BY <1>4, EndKeeps
<1>5. CASE WaitFromQueue
  BY <1>5, QueueKeeps
<1>6. CASE WaitFromPipe
  BY <1>6, PipeKeeps
<1>7. CASE \E i \in 1..MaxSeq, kind \in {"response", "refusal"} : AdapterAnswers(i, kind)
  BY <1>7, AnswerKeeps
<1>8. CASE \E kind \in {"event", "malformed"}, name \in DapEvents : AdapterPushes(kind, name)
  BY <1>8, PushKeeps
<1>9. CASE AdapterDies
  <2>1. adapter' = [adapter EXCEPT !.alive = FALSE] /\ UNCHANGED <<debugger, dapPipe, consumed, dapReturn>>
    BY <1>9 DEF AdapterDies
  <2>2. adapter' \in AdapterRecord /\ adapter'.todo = adapter.todo
    BY <2>1 DEF DapInv, DapShape, AdapterRecord
  <2>3. DapShape' /\ WaitSound' /\ DapAnswerIsMine'
    BY <2>1, <2>2 DEF DapInv, DapShape, FrameTyped, WaitSound, Listening, DapAnswerIsMine
  <2>4. AnswersInOrder => DapOrder' /\ WaitOwed'
    BY <2>1, <2>2 DEF DapInv, DapOrder, WaitOwed, Owed, Requesting
  <2> QED
    BY <2>3, <2>4 DEF DapInv
<1>10. CASE UNCHANGED dapVars
  <2>1. UNCHANGED <<debugger, adapter, dapPipe, consumed, dapReturn>>
    BY <1>10 DEF dapVars
  <2>2. DapShape' /\ WaitSound' /\ DapAnswerIsMine'
    BY <2>1 DEF DapInv, DapShape, FrameTyped, WaitSound, Listening, DapAnswerIsMine
  <2>3. AnswersInOrder => DapOrder' /\ WaitOwed'
    BY <2>1 DEF DapInv, DapOrder, WaitOwed, Owed, Requesting
  <2> QED
    BY <2>2, <2>3 DEF DapInv
<1> QED
  BY <1>1, <1>2, <1>3, <1>4, <1>5, <1>6, <1>7, <1>8, <1>9, <1>10 DEF DapNext

\* What the invariant says of the client: the answer is the asked request's, and against
\* an adapter that answers in order no awaited response was read already.
LEMMA DapTyped == DapInv => DapTypeOK /\ DapAnswerIsMine /\ (AnswersInOrder => NeverStarves)
<1> SUFFICES ASSUME DapInv PROVE DapTypeOK /\ DapAnswerIsMine /\ (AnswersInOrder => NeverStarves)
  OBVIOUS
<1>0. DapShape /\ debugger.wait \in DapWait /\ debugger.next_seq \in Nat /\ debugger.next_seq <= MaxSeq
      /\ debugger.initialized \in BOOLEAN /\ debugger.events \in Seq(DapEvents)
      /\ dapReturn \in DapResult /\ MaxSeq \in Nat
  BY DapPieces, DapConstants DEF DapInv, DapShape
<1>1. \A x \in 1..debugger.next_seq : x \in 1..MaxSeq
  BY <1>0
<1>2. \A k \in DOMAIN dapPipe : dapPipe[k] \in FrameForms
  <2> SUFFICES ASSUME NEW k \in DOMAIN dapPipe PROVE dapPipe[k] \in FrameForms
    OBVIOUS
  <2>1. dapPipe[k] \in DapFrame /\ FrameTyped(dapPipe[k])
    BY <1>0, DapPieces DEF DapShape
  <2>2. CASE Answers(dapPipe[k])
    <3>1. dapPipe[k].seq \in 1..MaxSeq /\ dapPipe[k].name = "none"
      BY <1>1, <2>1, <2>2 DEF FrameTyped
    <3> QED
      BY <2>1, <2>2, <3>1 DEF FrameForms, DapFrame, Answers
  <2>3. CASE ~Answers(dapPipe[k])
    BY <2>1, <2>3 DEF FrameForms, DapFrame, Answers, FrameTyped
  <2> QED
    BY <2>2, <2>3
<1>3. \A k \in DOMAIN adapter.todo : adapter.todo[k].command \in Commands
  BY <1>0, DapPieces DEF Asked
<1>4. DapTypeOK
  <2>1. debugger.next_seq \in 0..MaxSeq
    BY <1>0
  <2>2. consumed \subseteq 1..MaxSeq
    BY <1>0, <1>1 DEF DapShape
  <2> QED
    BY <1>0, <1>2, <1>3, <2>1, <2>2 DEF DapTypeOK, DapWait, DapResult
<1>5. ASSUME AnswersInOrder, Requesting PROVE debugger.wait.seq \notin consumed
  <2>1. DapOrder /\ Owed(debugger.wait.seq)
    BY <1>5 DEF DapInv, WaitOwed
  <2>2. debugger.wait.seq \in Nat
    BY <1>0 DEF DapWait
  <2>3. ~(debugger.wait.seq < debugger.wait.seq)
    BY <2>2
  <2> QED
    BY <2>1, <2>3 DEF DapOrder, Owed
<1> QED
  BY <1>4, <1>5 DEF DapInv, NeverStarves

-----------------------------------------------------------------------------
(***************************************************************************)
(* The external gate (Gate)                                                *)
(***************************************************************************)
GateCaller == [pc : {"start", "wait", "collect", "recv", "done", "refused"}, stream : {1, 2}, passed : BOOLEAN]

\* What a reader kept is what left its pipe, up to the cap; it stops only at the end of
\* a pipe nobody holds.
ReaderSound(s) ==
  /\ pipe[s].held <= PipeRoom /\ pipe[s].held <= pipe[s].written
  /\ reader[s].kept = IF pipe[s].written - pipe[s].held < GateOutputCap
                      THEN pipe[s].written - pipe[s].held ELSE GateOutputCap
  /\ reader[s].sent => pipe[s].held = 0 /\ child_state = "exited" /\ ~Held

GateInv ==
  /\ caller \in GateCaller /\ child_state \in {"none", "runs", "exited"}
  /\ kin \in [Grandchildren -> {"unborn", "group", "dead"}]
  /\ pipe \in [StreamSet -> [held : Nat, written : Nat]]
  /\ reader \in [StreamSet -> [kept : Nat, sent : BOOLEAN]]
  /\ \A s \in StreamSet : ReaderSound(s)
  /\ caller.pc \in {"collect", "recv", "done"} => child_state = "exited"
  /\ caller.pc = "start" => child_state = "none"
  /\ caller.pc = "recv" => ~Held
  /\ caller.stream = 2 => reader["stdout"].sent
  /\ caller.pc = "done" => caller.stream = 2 /\ reader["stderr"].sent

\* The bounds are numbers.
LEMMA GateNumbers == PipeRoom \in Nat /\ GateOutputCap \in Nat
BY GateAssumption

\* The two streams, by name.
LEMMA StreamsAre == Streams[1] = "stdout" /\ Streams[2] = "stderr" /\ StreamSet = {"stdout", "stderr"}
BY DEF Streams, StreamSet

\* Nothing starts once the child has exited, so a pipe let go stays so.
LEMMA LetGo ==
  ASSUME GateInv, ~Held, child_state # "none", child_state' = child_state,
         \A g \in Grandchildren : kin'[g] = kin[g] \/ kin'[g] = "dead"
  PROVE  ~Held'
BY DEF Held, Alive

\* A step of the caller alone, or of the processes, as long as no pipe is taken up again.
LEMMA ReadersStay ==
  ASSUME GateInv, UNCHANGED <<pipe, reader>>, \A s \in StreamSet : reader[s].sent => child_state' = "exited" /\ ~Held'
  PROVE  /\ pipe' \in [StreamSet -> [held : Nat, written : Nat]]
         /\ reader' \in [StreamSet -> [kept : Nat, sent : BOOLEAN]]
         /\ \A s \in StreamSet : ReaderSound(s)'
BY DEF GateInv, ReaderSound

\* One stream collected, on to the next.
LEMMA AfterKeeps ==
  ASSUME GateInv, caller.pc \in {"collect", "recv"}, reader[Streams[caller.stream]].sent, caller' = AfterStream,
         UNCHANGED <<child_state, kin, pipe, reader>>
  PROVE  GateInv'
<1>1. caller \in GateCaller /\ caller.stream \in {1, 2}
  BY DEF GateInv, GateCaller
<1>2. CASE caller.stream = 1
  <2>1. caller' = [caller EXCEPT !.pc = "collect", !.stream = 2] /\ reader["stdout"].sent
    BY <1>2, StreamsAre DEF AfterStream
  <2>2. caller' \in GateCaller /\ caller'.pc = "collect" /\ caller'.stream = 2
    BY <1>1, <2>1 DEF GateCaller
  <2> QED
    BY <2>1, <2>2 DEF GateInv, ReaderSound, Held, Alive
<1>3. CASE caller.stream = 2
  <2>1. caller' = [caller EXCEPT !.pc = "done"] /\ reader["stderr"].sent
    BY <1>3, StreamsAre DEF AfterStream
  <2>2. caller' \in GateCaller /\ caller'.pc = "done" /\ caller'.stream = 2
    BY <1>1, <1>3, <2>1 DEF GateCaller
  <2> QED
    BY <2>1, <2>2, <1>3 DEF GateInv, ReaderSound, Held, Alive
<1> QED
  BY <1>1, <1>2, <1>3

\* The gate's invariant is inductive while nothing leaves its process group.
LEMMA GateInvKept ==
  ASSUME ~MayLeaveGroup, GateInv, [GateNext]_runGateVars
  PROVE  GateInv'
<1>0. /\ caller \in GateCaller /\ child_state \in {"none", "runs", "exited"}
      /\ kin \in [Grandchildren -> {"unborn", "group", "dead"}]
      /\ pipe \in [StreamSet -> [held : Nat, written : Nat]]
      /\ reader \in [StreamSet -> [kept : Nat, sent : BOOLEAN]]
      /\ caller.stream \in {1, 2} /\ (\A s \in StreamSet : ReaderSound(s))
      /\ PipeRoom \in Nat /\ GateOutputCap \in Nat
      /\ \A s \in StreamSet : pipe[s].held \in Nat /\ pipe[s].written \in Nat /\ reader[s].kept \in Nat
  BY GateNumbers DEF GateInv, GateCaller
<1>1. CASE StartGate
  <2>1. child_state = "none" /\ UNCHANGED <<kin, pipe, reader>>
        /\ \/ caller' = [caller EXCEPT !.pc = "wait"] /\ child_state' = "runs"
           \/ caller' = [caller EXCEPT !.pc = "refused"] /\ child_state' = child_state
    BY <1>1 DEF GateInv, StartGate
  <2>2. \A s \in StreamSet : ~reader[s].sent
    BY <1>0, <2>1 DEF ReaderSound
  <2>3. \A s \in StreamSet : ReaderSound(s)'
    BY <2>1, <2>2, ReadersStay
  <2>4. caller' \in GateCaller /\ caller'.pc \in {"wait", "refused"} /\ caller'.stream = caller.stream
    BY <1>0, <2>1 DEF GateCaller
  <2> QED
    BY <1>0, <2>1, <2>2, <2>3, <2>4 DEF GateInv
<1>2. CASE WaitChild
  <2>1. PICK ok \in BOOLEAN : caller' = [caller EXCEPT !.pc = "collect", !.passed = ok]
    BY <1>2 DEF WaitChild
  <2>2. caller' \in GateCaller /\ caller'.pc = "collect" /\ caller'.stream = caller.stream
    BY <1>0, <2>1 DEF GateCaller
  <2> QED
    BY <1>2, <2>2 DEF WaitChild, GateInv, ReaderSound, Held, Alive
<1>3. CASE Collect \/ Receive
  BY <1>3, AfterKeeps DEF Collect, Receive
<1>4. CASE WaitFails
  <2>1. caller' = [caller EXCEPT !.pc = "refused"] /\ child_state' = "exited" /\ UNCHANGED <<pipe, reader>>
        /\ kin' = [g \in Grandchildren |-> IF kin[g] = "group" THEN "dead" ELSE kin[g]]
    BY <1>4 DEF WaitFails, kill_group
  <2>2. caller' \in GateCaller /\ caller'.pc = "refused" /\ caller'.stream = caller.stream
    BY <1>0, <2>1 DEF GateCaller
  <2>3. kin' \in [Grandchildren -> {"unborn", "group", "dead"}] /\ ~Held'
    BY <1>0, <2>1 DEF Held, Alive
  <2>4. \A s \in StreamSet : ReaderSound(s)'
    BY <2>1, <2>3, ReadersStay
  <2> QED
    BY <1>0, <2>1, <2>2, <2>3, <2>4 DEF GateInv
<1>5. CASE Quiesce
  <2>1. caller' = [caller EXCEPT !.pc = "recv"] /\ UNCHANGED <<child_state, pipe, reader>> /\ child_state = "exited"
        /\ kin' = [g \in Grandchildren |-> IF kin[g] = "group" THEN "dead" ELSE kin[g]]
    BY <1>5 DEF Quiesce, kill_group, GateInv
  <2>2. caller' \in GateCaller /\ caller'.pc = "recv" /\ caller'.stream = caller.stream
    BY <1>0, <2>1 DEF GateCaller
  <2>3. kin' \in [Grandchildren -> {"unborn", "group", "dead"}] /\ ~Held'
    BY <1>0, <2>1 DEF Held, Alive
  <2>4. \A s \in StreamSet : ReaderSound(s)'
    BY <2>1, <2>3, ReadersStay
  <2> QED
    BY <1>0, <2>1, <2>2, <2>3, <2>4 DEF GateInv
<1>6. ASSUME NEW s \in StreamSet, ReadChunk(s) PROVE GateInv'
  <2>1. /\ pipe' = [pipe EXCEPT ![s].held = @ - 1] /\ UNCHANGED <<caller, child_state, kin>>
        /\ reader' = [reader EXCEPT ![s].kept = IF @ < GateOutputCap THEN @ + 1 ELSE @]
        /\ ~reader[s].sent /\ pipe[s].held > 0
    BY <1>6 DEF ReadChunk
  <2>2. pipe[s].held - 1 \in Nat /\ reader[s].kept + 1 \in Nat
    BY <1>0, <2>1
  <2>3. pipe' \in [StreamSet -> [held : Nat, written : Nat]] /\ reader' \in [StreamSet -> [kept : Nat, sent : BOOLEAN]]
    BY <1>0, <2>1, <2>2
  <2>4. pipe'[s].held = pipe[s].held - 1 /\ pipe'[s].written = pipe[s].written
        /\ reader'[s].kept = (IF reader[s].kept < GateOutputCap THEN reader[s].kept + 1 ELSE reader[s].kept)
        /\ reader'[s].sent = reader[s].sent
    BY <1>0, <2>1
  <2>5. \A t \in StreamSet : t # s => pipe'[t] = pipe[t] /\ reader'[t] = reader[t]
    BY <1>0, <2>1
  <2>6. ReaderSound(s)'
    BY <1>0, <2>1, <2>4 DEF ReaderSound
  <2>7. \A t \in StreamSet : ReaderSound(t)'
    BY <1>0, <2>1, <2>5, <2>6 DEF ReaderSound, Held, Alive
  <2>8. \A t \in StreamSet : reader'[t].sent = reader[t].sent
    BY <2>4, <2>5
  <2> QED
    BY <1>0, <2>1, <2>3, <2>7, <2>8, StreamsAre DEF GateInv, Held, Alive
<1>7. ASSUME NEW s \in StreamSet, ReadEnd(s) PROVE GateInv'
  <2>1. /\ reader' = [reader EXCEPT ![s].sent = TRUE] /\ UNCHANGED <<caller, child_state, kin, pipe>>
        /\ pipe[s].held = 0 /\ ~Held /\ child_state = "exited"
    BY <1>0, <1>7 DEF ReadEnd, Held
  <2>2. reader' \in [StreamSet -> [kept : Nat, sent : BOOLEAN]] /\ reader'[s].kept = reader[s].kept /\ reader'[s].sent = TRUE
    BY <1>0, <2>1
  <2>3. \A t \in StreamSet : t # s => reader'[t] = reader[t]
    BY <1>0, <2>1
  <2>4. \A t \in StreamSet : ReaderSound(t)'
    BY <1>0, <2>1, <2>2, <2>3 DEF ReaderSound, Held, Alive
  <2>5. \A t \in StreamSet : reader[t].sent => reader'[t].sent
    BY <2>2, <2>3
  <2> QED
    BY <1>0, <2>1, <2>2, <2>4, <2>5, StreamsAre DEF GateInv, Held, Alive
<1>8. ASSUME NEW s \in StreamSet, WriteOut(s) PROVE GateInv'
  <2>1. /\ pipe' = [pipe EXCEPT ![s] = [held |-> @.held + 1, written |-> @.written + 1]]
        /\ Held /\ pipe[s].held < PipeRoom /\ UNCHANGED <<caller, child_state, kin, reader>>
    BY <1>8 DEF WriteOut
  <2>2. pipe[s].held + 1 \in Nat /\ pipe[s].written + 1 \in Nat
    BY <1>0
  <2>3. pipe' \in [StreamSet -> [held : Nat, written : Nat]]
        /\ pipe'[s].held = pipe[s].held + 1 /\ pipe'[s].written = pipe[s].written + 1
    BY <1>0, <2>1, <2>2
  <2>4. \A t \in StreamSet : t # s => pipe'[t] = pipe[t]
    BY <1>0, <2>1
  <2>5. ~reader[s].sent
    BY <1>0, <2>1 DEF ReaderSound
  <2>6. ReaderSound(s)'
    BY <1>0, <2>1, <2>3, <2>5 DEF ReaderSound
  <2>7. \A t \in StreamSet : ReaderSound(t)'
    BY <1>0, <2>1, <2>4, <2>6 DEF ReaderSound, Held, Alive
  <2> QED
    BY <1>0, <2>1, <2>3, <2>7 DEF GateInv, Held, Alive
<1>9. ASSUME NEW g \in Grandchildren, Forks(g) PROVE GateInv'
  <2>1. /\ kin' = [kin EXCEPT ![g] = "group"] /\ child_state = "runs" /\ UNCHANGED <<caller, child_state, pipe, reader>>
    BY <1>9 DEF Forks
  <2>2. kin' \in [Grandchildren -> {"unborn", "group", "dead"}]
    BY <1>0, <2>1
  <2>3. \A s \in StreamSet : ~reader[s].sent
    BY <1>0, <2>1 DEF ReaderSound
  <2>4. \A s \in StreamSet : ReaderSound(s)'
    BY <2>1, <2>3, ReadersStay
  <2> QED
    BY <1>0, <2>1, <2>2, <2>4 DEF GateInv
<1>10. ASSUME NEW g \in Grandchildren, KinExits(g) PROVE GateInv'
  <2>1. /\ kin' = [kin EXCEPT ![g] = "dead"] /\ UNCHANGED <<caller, child_state, pipe, reader>>
    BY <1>10 DEF KinExits
  <2>2. kin' \in [Grandchildren -> {"unborn", "group", "dead"}] /\ \A h \in Grandchildren : kin'[h] = kin[h] \/ kin'[h] = "dead"
    BY <1>0, <2>1
  <2>3. child_state # "none" /\ ~Held => ~Held'
    BY <2>1, <2>2, LetGo
  <2>4. \A s \in StreamSet : ReaderSound(s)'
    <3>1. \A s \in StreamSet : reader[s].sent => child_state' = "exited" /\ ~Held'
      BY <1>0, <2>1, <2>3 DEF ReaderSound
    <3> QED
      BY <2>1, <3>1, ReadersStay
  <2> QED
    BY <1>0, <2>1, <2>2, <2>3, <2>4 DEF GateInv
<1>11. CASE ChildExits
  <2>1. child_state = "runs" /\ child_state' = "exited" /\ UNCHANGED <<caller, kin, pipe, reader>>
    BY <1>11 DEF ChildExits
  <2>2. \A s \in StreamSet : ~reader[s].sent
    BY <1>0, <2>1 DEF ReaderSound
  <2>3. \A s \in StreamSet : ReaderSound(s)'
    BY <2>1, <2>2, ReadersStay
  <2>4. caller.pc \notin {"collect", "recv", "done"}
    BY <2>1 DEF GateInv
  <2> QED
    BY <1>0, <2>1, <2>3, <2>4 DEF GateInv
<1>12. CASE UNCHANGED runGateVars
  BY <1>12 DEF runGateVars, GateInv, ReaderSound, Held, Alive
<1> QED
  BY <1>1, <1>2, <1>3, <1>4, <1>5, <1>6, <1>7, <1>8, <1>9, <1>10, <1>11, <1>12 DEF GateNext, GateStep

\* Nothing runs and nothing was written at first.
LEMMA GateBegins == GateInit => GateInv
<1> SUFFICES ASSUME GateInit PROVE GateInv
  OBVIOUS
<1>1. \A s \in StreamSet : ReaderSound(s)
  BY GateNumbers DEF GateInit, ReaderSound
<1> QED
  BY <1>1 DEF GateInit, GateInv, GateCaller

\* What the invariant says of the gate.
LEMMA GateTyped == GateInv => GateTypeOK /\ GateBounded
<1> SUFFICES ASSUME GateInv PROVE GateTypeOK /\ GateBounded
  OBVIOUS
<1>1. \A s \in StreamSet : pipe[s].held \in 0..PipeRoom /\ reader[s].kept \in 0..GateOutputCap
  BY GateNumbers DEF GateInv, ReaderSound
<1>2. GateTypeOK
  BY <1>1 DEF GateInv, GateTypeOK, GateCaller
<1>3. \A s \in StreamSet : pipe[s].held > 0 => ~reader[s].sent
  BY DEF GateInv, ReaderSound
<1>4. ASSUME caller.pc = "done", NEW s \in StreamSet
      PROVE  reader[s].kept = IF pipe[s].written < GateOutputCap THEN pipe[s].written ELSE GateOutputCap
  <2>1. reader[s].sent /\ pipe[s].written \in Nat
    BY <1>4, StreamsAre DEF GateInv
  <2>2. pipe[s].held = 0 /\ pipe[s].written - 0 = pipe[s].written
    BY <2>1 DEF GateInv, ReaderSound
  <2> QED
    BY <2>2 DEF GateInv, ReaderSound
<1> QED
  BY <1>2, <1>3, <1>4 DEF GateInv, GateBounded

-----------------------------------------------------------------------------
(***************************************************************************)
(* Child processes (Spawn)                                                 *)
(***************************************************************************)
HostFds == [path : {"file"}, cloexec : {FALSE}]
Session ==
  [pc : {"none", "prepared", "opened", "audited", "judged", "launched", "running"},
   marker : {"none", "ours", "foreign"}, slave : BOOLEAN, process : Pids \cup {0},
   request : Requests \cup {NoRequest}, since : SUBSET HostFds, leaks : SUBSET HostFds, crossed : BOOLEAN]
ProcRecord == [state : {"free", "live", "zombie"}, owner : ShellSessions \cup {NoSession, "other"}, holds : SUBSET End]
PolicyRecord ==
  [paths : 0..MaxPaths, ports : BOOLEAN, isolated : BOOLEAN, required : DOMAIN Tiers, inherited : SUBSET {"tty", "pipe"}]

\* The session's slave is open only while it spawns, its handle names a child of its own,
\* what leaks was opened since the audit, and the verdict and the policy are still those
\* it was started under.
SessionSound(s) ==
  /\ shells[s].slave => Opening(s)
  /\ shells[s].pc = "none" => ~shells[s].crossed
  /\ shells[s].process # 0 =>
       /\ shells[s].pc \in {"launched", "running"}
       /\ procs[shells[s].process].owner = s /\ procs[shells[s].process].state # "free"
  /\ shells[s].leaks \subseteq shells[s].since
  /\ shells[s].pc \in {"audited", "judged"} => find_leaks(host_fds) \subseteq shells[s].since
  /\ shells[s].pc \in {"judged", "launched", "running"} =>
       identity /\ judge(shells[s].request, shells[s].marker) = {}
  /\ shells[s].pc \in {"launched", "running"} => Enforceable

SpawnShape ==
  /\ identity \in BOOLEAN /\ marker_key \in BOOLEAN
  /\ policy \in PolicyRecord /\ platform \in [tier : DOMAIN Tiers, granular : BOOLEAN]
  /\ host_fds \subseteq HostFds
  /\ shells \in [ShellSessions -> Session] /\ procs \in [Pids -> ProcRecord]
  /\ tree_total \in Nat

\* Who holds an end of a session forked while the session was starting.
OnlyCrossed == \A p \in Pids : \A e \in procs[p].holds : shells[e[2]].crossed

SpawnInv == SpawnShape /\ OnlyCrossed /\ \A s \in ShellSessions : SessionSound(s)

\* What the constants are.
LEMMA SpawnConstants ==
  /\ MaxPaths \in Nat /\ MaxPaths >= 1 /\ 0 \notin Pids
  /\ NoSession \notin ShellSessions /\ "other" \notin ShellSessions
  /\ \A r \in Requests : r.marker \in {"none", "foreign"}
BY SpawnAssumption DEF RequestOK

\* A session nobody opened.
LEMMA ClosedIs ==
  /\ Closed \in Session /\ Closed.pc = "none" /\ Closed.process = 0 /\ Closed.slave = FALSE
  /\ Closed.since = {} /\ Closed.leaks = {} /\ Closed.crossed = FALSE
BY DEF Closed, Session

\* What is reaped belongs to nobody and holds nothing.
LEMMA FreeIs == Free \in ProcRecord /\ Free.holds = {} /\ Free.owner = NoSession
BY DEF ProcRecord, Free

\* What the parts of a session and of a process are.
LEMMA SessionParts ==
  ASSUME SpawnShape, NEW s \in ShellSessions
  PROVE  /\ shells[s] \in Session /\ shells[s].slave \in BOOLEAN /\ shells[s].process \in Pids \cup {0}
         /\ \A p \in Pids : procs[p] \in ProcRecord /\ procs[p].holds \subseteq End
BY DEF SpawnShape, Session, ProcRecord

\* No layer refused: there is an identity and a key.
LEMMA JudgedKeys == \A r, m : judge(r, m) = {} => identity /\ marker_key
<1> SUFFICES ASSUME NEW r, NEW m, judge(r, m) = {} PROVE identity /\ marker_key
  OBVIOUS
<1>1. 1 \in 1..7 /\ 2 \in 1..7
  OBVIOUS
<1>2. 1 \notin judge(r, m) /\ 2 \notin judge(r, m)
  OBVIOUS
<1> QED
  BY <1>1, <1>2 DEF judge

\* A session closes: its ends are gone, and every process stays what it was.
LEMMA ForgetIs ==
  ASSUME NEW held \in [Pids -> ProcRecord], NEW s
  PROVE  /\ Forget(held, s) \in [Pids -> ProcRecord]
         /\ \A p \in Pids : /\ Forget(held, s)[p].owner = held[p].owner
                            /\ Forget(held, s)[p].state = held[p].state
                            /\ Forget(held, s)[p].holds = {e \in held[p].holds : e[2] # s}
<1>1. ASSUME NEW p \in Pids
      PROVE  /\ [held[p] EXCEPT !.holds = {e \in @ : e[2] # s}] \in ProcRecord
             /\ [held[p] EXCEPT !.holds = {e \in @ : e[2] # s}].owner = held[p].owner
             /\ [held[p] EXCEPT !.holds = {e \in @ : e[2] # s}].state = held[p].state
             /\ [held[p] EXCEPT !.holds = {e \in @ : e[2] # s}].holds = {e \in held[p].holds : e[2] # s}
  <2>1. held[p] \in ProcRecord
    OBVIOUS
  <2>2. {e \in held[p].holds : e[2] # s} \subseteq End
    BY <2>1 DEF ProcRecord
  <2> QED
    BY <2>1, <2>2 DEF ProcRecord
<1> QED
  BY <1>1 DEF Forget

\* A session that is looked at by others only: its descriptors may become fewer or be
\* noted as opened since its audit, and it may be noted that another forked.
LEMMA StaysSound ==
  ASSUME NEW t \in ShellSessions, SessionSound(t), UNCHANGED <<identity, marker_key, policy, platform>>,
         shells'[t].pc = shells[t].pc, shells'[t].slave = shells[t].slave, shells'[t].process = shells[t].process,
         shells'[t].request = shells[t].request, shells'[t].marker = shells[t].marker,
         shells'[t].leaks = shells[t].leaks, shells[t].since \subseteq shells'[t].since,
         shells'[t].crossed => shells[t].crossed \/ Opening(t),
         shells[t].process # 0 => procs'[shells[t].process].owner = t /\ procs'[shells[t].process].state # "free",
         shells[t].pc \in {"audited", "judged"} => find_leaks(host_fds') \subseteq shells'[t].since
  PROVE  SessionSound(t)'
<1>1. (\A r, m : judge(r, m)' = judge(r, m)) /\ Enforceable' = Enforceable
  BY DEF judge, verify, Enforceable
<1>2. Opening(t)' = Opening(t) /\ find_leaks(host_fds)' = find_leaks(host_fds')
  BY DEF Opening, find_leaks
<1>3. shells[t].pc = "none" => ~Opening(t)
  BY DEF Opening
<1> QED
  BY <1>1, <1>2, <1>3 DEF SessionSound

\* A step of one session, under the identity, policy and descriptors there were: the
\* other sessions stay sound if their children are left alone.
LEMMA SessionMoves ==
  ASSUME SpawnInv, NEW s \in ShellSessions, NEW new \in Session, shells' = [shells EXCEPT ![s] = new],
         UNCHANGED <<identity, marker_key, policy, platform, host_fds>>,
         procs' \in [Pids -> ProcRecord], tree_total' \in Nat,
         \A t \in ShellSessions : t # s /\ shells[t].process # 0 =>
           /\ procs'[shells[t].process].owner = procs[shells[t].process].owner
           /\ procs'[shells[t].process].state = procs[shells[t].process].state,
         \A p \in Pids : \A e \in procs'[p].holds : e \in procs[p].holds /\ (e[2] = s => new.crossed),
         new.slave => new.pc \in {"opened", "audited", "judged", "launched"},
         new.pc = "none" => ~new.crossed,
         new.leaks \subseteq new.since,
         new.process # 0 =>
           /\ new.pc \in {"launched", "running"}
           /\ procs'[new.process].owner = s /\ procs'[new.process].state # "free",
         new.pc \in {"audited", "judged"} => find_leaks(host_fds) \subseteq new.since,
         new.pc \in {"judged", "launched", "running"} => identity /\ judge(new.request, new.marker) = {},
         new.pc \in {"launched", "running"} => Enforceable
  PROVE  SpawnInv'
<1>1. shells \in [ShellSessions -> Session] /\ shells' \in [ShellSessions -> Session] /\ shells'[s] = new
      /\ \A t \in ShellSessions : t # s => shells'[t] = shells[t]
  BY DEF SpawnInv, SpawnShape
<1>2. SpawnShape'
  BY <1>1 DEF SpawnInv, SpawnShape, PolicyRecord
<1>3. OnlyCrossed'
  <2> SUFFICES ASSUME NEW p \in Pids, NEW e \in procs'[p].holds PROVE shells'[e[2]].crossed
    BY DEF OnlyCrossed
  <2>1. e \in procs[p].holds /\ (e[2] = s => new.crossed)
    OBVIOUS
  <2>2. e[2] \in ShellSessions /\ shells[e[2]].crossed
    BY <2>1, SessionParts DEF SpawnInv, OnlyCrossed, End
  <2> QED
    BY <1>1, <2>1, <2>2
<1>4. (\A r, m : judge(r, m)' = judge(r, m)) /\ Enforceable' = Enforceable /\ find_leaks(host_fds)' = find_leaks(host_fds)
  BY DEF judge, verify, Enforceable, find_leaks
<1>5. SessionSound(s)'
  BY <1>1, <1>4 DEF SessionSound, Opening
<1>6. ASSUME NEW t \in ShellSessions, t # s PROVE SessionSound(t)'
  <2>1. shells'[t] = shells[t] /\ SessionSound(t)
    BY <1>1, <1>6 DEF SpawnInv
  <2>2. shells[t].process # 0 => procs'[shells[t].process].owner = t /\ procs'[shells[t].process].state # "free"
    BY <1>6, <2>1 DEF SessionSound
  <2> QED
    BY <1>4, <2>1, <2>2 DEF SessionSound, Opening
<1> QED
  BY <1>2, <1>3, <1>5, <1>6 DEF SpawnInv

\* A spawn that fails leaves a closed session.
LEMMA FailsKeeps ==
  ASSUME SpawnInv, NEW s \in ShellSessions, SpawnFails(s),
         UNCHANGED <<identity, marker_key, policy, platform, host_fds, tree_total>>
  PROVE  SpawnInv'
<1>1. shells' = [shells EXCEPT ![s] = Closed] /\ procs' = Forget(procs, s)
  BY DEF SpawnFails, Become
<1>2. procs \in [Pids -> ProcRecord] /\ tree_total' \in Nat
      /\ \A t \in ShellSessions : shells[t].process \in Pids \cup {0}
  BY SessionParts DEF SpawnInv, SpawnShape
<1>3. procs' \in [Pids -> ProcRecord]
      /\ \A p \in Pids : /\ procs'[p].owner = procs[p].owner /\ procs'[p].state = procs[p].state
                         /\ procs'[p].holds = {e \in procs[p].holds : e[2] # s}
  BY <1>1, <1>2, ForgetIs
<1>4. \A p \in Pids : \A e \in procs'[p].holds : e \in procs[p].holds /\ (e[2] = s => Closed.crossed)
  BY <1>3
<1>5. \A t \in ShellSessions : t # s /\ shells[t].process # 0 =>
        /\ procs'[shells[t].process].owner = procs[shells[t].process].owner
        /\ procs'[shells[t].process].state = procs[shells[t].process].state
  BY <1>2, <1>3
<1> QED
  BY <1>1, <1>2, <1>3, <1>4, <1>5, ClosedIs, SessionMoves

\* A spawning session goes on to its next point, nothing else changing.
LEMMA GoesOn ==
  ASSUME SpawnInv, NEW s \in ShellSessions, shells[s].pc \in {"prepared", "opened", "audited"},
         NEW pc \in {"opened", "audited", "judged"}, NEW slave \in BOOLEAN,
         shells' = [shells EXCEPT ![s] = [shells[s] EXCEPT !.pc = pc, !.slave = slave]],
         UNCHANGED <<identity, marker_key, policy, platform, host_fds, procs, tree_total>>,
         pc \in {"audited", "judged"} => find_leaks(host_fds) \subseteq shells[s].since,
         pc = "judged" => identity /\ judge(shells[s].request, shells[s].marker) = {}
  PROVE  SpawnInv'
<1> DEFINE new == [shells[s] EXCEPT !.pc = pc, !.slave = slave]
<1>1. shells[s] \in Session /\ SessionSound(s)
  BY SessionParts DEF SpawnInv
<1>2. new \in Session /\ new.pc = pc /\ new.slave = slave /\ new.process = shells[s].process
      /\ new.since = shells[s].since /\ new.leaks = shells[s].leaks /\ new.request = shells[s].request
      /\ new.marker = shells[s].marker /\ new.crossed = shells[s].crossed
  BY <1>1 DEF Session
<1>3. new.process = 0 /\ new.leaks \subseteq new.since
  BY <1>1, <1>2 DEF SessionSound
<1>4. procs' \in [Pids -> ProcRecord] /\ tree_total' \in Nat
  BY DEF SpawnInv, SpawnShape
<1>5. shells' = [shells EXCEPT ![s] = new]
  OBVIOUS
<1>6. \A p \in Pids : \A e \in procs'[p].holds : e \in procs[p].holds /\ (e[2] = s => new.crossed)
  BY <1>2 DEF SpawnInv, OnlyCrossed
<1> HIDE DEF new
<1>7. /\ new.pc \in {"audited", "judged"} => find_leaks(host_fds) \subseteq new.since
      /\ new.pc \in {"judged", "launched", "running"} => identity /\ judge(new.request, new.marker) = {}
      /\ ~(new.pc \in {"launched", "running", "none"})
      /\ new.slave => new.pc \in {"opened", "audited", "judged", "launched"}
  BY <1>2
<1>8. \A t \in ShellSessions : t # s /\ shells[t].process # 0 =>
        /\ procs'[shells[t].process].owner = procs[shells[t].process].owner
        /\ procs'[shells[t].process].state = procs[shells[t].process].state
  OBVIOUS
<1> QED
  BY <1>2, <1>3, <1>4, <1>5, <1>6, <1>7, <1>8, SessionMoves

\* A policy built anew changes nothing but the policy.
LEMMA BuildKeeps == SpawnInv /\ BuildPolicy => SpawnInv'
<1> SUFFICES ASSUME SpawnInv, BuildPolicy PROVE SpawnInv'
  OBVIOUS
<1>1. policy \in PolicyRecord /\ policy.paths \in 0..MaxPaths /\ policy.inherited \subseteq {"tty", "pipe"}
  BY DEF SpawnInv, SpawnShape, PolicyRecord
<1>2. (\A s \in ShellSessions : shells[s].pc = "none")
      /\ UNCHANGED <<identity, marker_key, platform, host_fds, shells, procs, tree_total>>
  BY DEF BuildPolicy
<1>3. policy' \in PolicyRecord
  <2>1. CASE AllowPath
    <3>1. policy.paths + 1 \in 0..MaxPaths
      BY <1>1, <2>1, SpawnConstants DEF AllowPath
    <3> QED
      BY <1>1, <2>1, <3>1 DEF AllowPath, PolicyRecord
  <2>2. CASE DefaultPolicy
    <3>1. 1 \in 0..MaxPaths
      BY SpawnConstants
    <3> QED
      BY <2>2, <3>1 DEF DefaultPolicy, PolicyRecord, Tiers
  <2>3. CASE AllowPort
    BY <1>1, <2>3 DEF AllowPort, PolicyRecord
  <2>4. CASE \E ports \in BOOLEAN : SetNetwork(ports)
    BY <1>1, <2>4 DEF SetNetwork, PolicyRecord
  <2>5. CASE AllowInherited("pipe")
    <3>1. policy.inherited \cup {"pipe"} \subseteq {"tty", "pipe"}
      BY <1>1
    <3> QED
      BY <1>1, <2>5, <3>1 DEF AllowInherited, PolicyRecord
  <2> QED
    BY <2>1, <2>2, <2>3, <2>4, <2>5 DEF BuildPolicy
<1>4. SpawnShape'
  BY <1>2, <1>3 DEF SpawnInv, SpawnShape
<1>5. OnlyCrossed'
  BY <1>2 DEF SpawnInv, OnlyCrossed
<1>6. ASSUME NEW s \in ShellSessions PROVE SessionSound(s)'
  <2>1. SessionSound(s) /\ shells'[s] = shells[s] /\ shells[s].pc = "none"
    BY <1>2 DEF SpawnInv
  <2> QED
    BY <1>2, <2>1 DEF SessionSound, Opening
<1> QED
  BY <1>4, <1>5, <1>6 DEF SpawnInv

\* The identity and the key once there stay, so verdicts passed stay passed.
LEMMA KeysStay ==
  ASSUME SpawnInv, NEW t \in ShellSessions, identity' \in {identity, TRUE}, marker_key' \in {marker_key, TRUE},
         shells'[t] = shells[t], shells[t].pc \in {"judged", "launched", "running"}
  PROVE  identity' /\ judge(shells[t].request, shells[t].marker)' = {}
<1>1. identity /\ marker_key /\ judge(shells[t].request, shells[t].marker) = {}
  BY JudgedKeys DEF SpawnInv, SessionSound
<1>2. identity \in BOOLEAN /\ marker_key \in BOOLEAN
  BY DEF SpawnInv, SpawnShape
<1>3. identity' = identity /\ marker_key' = marker_key
  BY <1>1, <1>2
<1> QED
  BY <1>1, <1>3 DEF judge, verify

\* A new request is on its way; no verdict there was is touched.
LEMMA PrepareKeeps ==
  ASSUME SpawnInv, NEW s \in ShellSessions, PrepareSpawn(s) PROVE SpawnInv'
<1>1. shells[s].pc = "none" /\ identity \in BOOLEAN /\ marker_key \in BOOLEAN
      /\ identity' \in {identity, TRUE} /\ marker_key' \in {marker_key, TRUE}
      /\ UNCHANGED <<policy, platform, host_fds, tree_total>>
  BY DEF PrepareSpawn, Establish, GenerateKey, SpawnInv, SpawnShape
<1>0. procs \in [Pids -> ProcRecord] /\ shells \in [ShellSessions -> Session]
      /\ \A t \in ShellSessions : shells[t].process \in Pids \cup {0}
  BY SessionParts DEF SpawnInv, SpawnShape
<1>2. PICK new \in Session : shells' = [shells EXCEPT ![s] = new] /\ new.pc \in {"none", "prepared"}
         /\ new.slave = FALSE /\ new.process = 0 /\ new.leaks = {} /\ new.crossed = FALSE
         /\ (procs' = procs \/ procs' = Forget(procs, s))
  <2>1. PICK r \in Requests, issued \in IssueOutcomes :
          IF issued = "no_entropy" THEN SpawnFails(s)
          ELSE /\ Become(s, [Closed EXCEPT !.pc = "prepared", !.request = r,
                               !.marker = IF issued = "none" THEN r.marker ELSE issued])
               /\ UNCHANGED procs
    BY DEF PrepareSpawn
  <2>2. CASE issued = "no_entropy"
    BY <2>1, <2>2, ClosedIs DEF SpawnFails, Become
  <2>3. CASE issued # "no_entropy"
    <3> DEFINE m == IF issued = "none" THEN r.marker ELSE issued
               n == [Closed EXCEPT !.pc = "prepared", !.request = r, !.marker = m]
    <3>1. m \in {"none", "ours", "foreign"}
      <4>1. issued \in {"ours", "no_entropy", "none"}
        BY <2>1 DEF IssueOutcomes
      <4> QED
        BY <4>1, <2>3, SpawnConstants
    <3>2. shells' = [shells EXCEPT ![s] = n] /\ procs' = procs
      BY <2>1, <2>3 DEF Become
    <3> HIDE DEF m
    <3>3. n \in Session /\ n.pc = "prepared" /\ n.slave = FALSE /\ n.process = 0 /\ n.leaks = {} /\ n.crossed = FALSE
      BY <3>1 DEF Closed, Session
    <3> HIDE DEF n
    <3> QED
      BY <3>2, <3>3
  <2> QED
    BY <2>2, <2>3
<1>3. shells' \in [ShellSessions -> Session] /\ shells'[s] = new
      /\ \A t \in ShellSessions : t # s => shells'[t] = shells[t]
  BY <1>0, <1>2
<1>4. procs' \in [Pids -> ProcRecord]
      /\ \A p \in Pids : /\ procs'[p].owner = procs[p].owner /\ procs'[p].state = procs[p].state
                         /\ procs'[p].holds \subseteq procs[p].holds
  BY <1>0, <1>2, ForgetIs
<1>5. SpawnShape'
  BY <1>1, <1>3, <1>4 DEF SpawnInv, SpawnShape, PolicyRecord
<1>6. OnlyCrossed'
  <2> SUFFICES ASSUME NEW p \in Pids, NEW e \in procs'[p].holds PROVE shells'[e[2]].crossed
    BY DEF OnlyCrossed
  <2>1. e \in procs[p].holds /\ e[2] \in ShellSessions /\ shells[e[2]].crossed
    BY <1>4, SessionParts DEF SpawnInv, OnlyCrossed, End
  <2>2. ~shells[s].crossed
    BY <1>1 DEF SpawnInv, SessionSound
  <2> QED
    BY <1>3, <2>1, <2>2
<1>7. SessionSound(s)'
  BY <1>2, <1>3 DEF SessionSound
<1>8. ASSUME NEW t \in ShellSessions, t # s PROVE SessionSound(t)'
  <2>1. shells'[t] = shells[t] /\ SessionSound(t)
    BY <1>3, <1>8 DEF SpawnInv
  <2>2. shells[t].pc \in {"judged", "launched", "running"} =>
          identity' /\ judge(shells[t].request, shells[t].marker)' = {}
    BY <1>1, <2>1, KeysStay DEF SessionSound
  <2>3. Enforceable' = Enforceable /\ find_leaks(host_fds)' = find_leaks(host_fds)
    BY <1>1 DEF Enforceable, find_leaks
  <2>4. shells[t].process # 0 => procs'[shells[t].process].owner = t /\ procs'[shells[t].process].state # "free"
    BY <1>0, <1>4, <2>1 DEF SessionSound
  <2> QED
    BY <1>1, <2>1, <2>2, <2>3, <2>4 DEF SessionSound, Opening
<1> QED
  BY <1>5, <1>6, <1>7, <1>8 DEF SpawnInv

\* The pseudo-terminal, the audit and the verdict.
LEMMA SpawningKeeps ==
  ASSUME SpawnInv, NEW s \in ShellSessions, OpenPty(s) \/ AuditDescriptors(s) \/ Judge(s)
  PROVE  SpawnInv'
<1>0. shells[s] \in Session /\ shells[s].slave \in BOOLEAN /\ SessionSound(s)
      /\ UNCHANGED <<identity, marker_key, policy, platform, host_fds, tree_total>>
  BY SessionParts DEF SpawnInv, OpenPty, AuditDescriptors, Judge
<1>1. shells[s] = [shells[s] EXCEPT !.slave = shells[s].slave]
  BY <1>0 DEF Session
<1>2. CASE OpenPty(s)
  <2>1. SpawnFails(s) \/ (procs' = procs /\ shells' = [shells EXCEPT ![s] = [shells[s] EXCEPT !.pc = "opened", !.slave = TRUE]])
    BY <1>2 DEF OpenPty, Become
  <2>2. shells[s].pc = "prepared"
    BY <1>2 DEF OpenPty
  <2> QED
    BY <1>0, <2>1, <2>2, FailsKeeps, GoesOn
<1>3. CASE AuditDescriptors(s)
  <2>1. SpawnFails(s)
        \/ (find_leaks(host_fds) = {} /\ procs' = procs /\ shells' = [shells EXCEPT ![s] = [shells[s] EXCEPT !.pc = "audited"]])
    BY <1>3 DEF AuditDescriptors, StepTo, Become, snapshot
  <2>2. shells[s].pc = "opened"
    BY <1>3 DEF AuditDescriptors
  <2>3. [shells[s] EXCEPT !.pc = "audited"] = [shells[s] EXCEPT !.pc = "audited", !.slave = shells[s].slave]
    BY <1>0 DEF Session
  <2>4. CASE SpawnFails(s)
    BY <1>0, <2>4, FailsKeeps
  <2>5. CASE find_leaks(host_fds) = {} /\ procs' = procs /\ shells' = [shells EXCEPT ![s] = [shells[s] EXCEPT !.pc = "audited"]]
    <3>1. find_leaks(host_fds) \subseteq shells[s].since
      BY <2>5
    <3>2. shells' = [shells EXCEPT ![s] = [shells[s] EXCEPT !.pc = "audited", !.slave = shells[s].slave]]
      BY <2>3, <2>5
    <3> QED
      BY <1>0, <2>2, <2>5, <3>1, <3>2, GoesOn
  <2> QED
    BY <2>1, <2>4, <2>5
<1>4. CASE Judge(s)
  <2>1. SpawnFails(s)
        \/ (identity /\ judge(shells[s].request, shells[s].marker) = {} /\ procs' = procs
            /\ shells' = [shells EXCEPT ![s] = [shells[s] EXCEPT !.pc = "judged"]])
    BY <1>4 DEF Judge, StepTo, Become
  <2>2. shells[s].pc = "audited" /\ find_leaks(host_fds) \subseteq shells[s].since
    BY <1>0, <1>4 DEF Judge, SessionSound
  <2>3. [shells[s] EXCEPT !.pc = "judged"] = [shells[s] EXCEPT !.pc = "judged", !.slave = shells[s].slave]
    BY <1>0 DEF Session
  <2>4. CASE SpawnFails(s)
    BY <1>0, <2>4, FailsKeeps
  <2>5. CASE identity /\ judge(shells[s].request, shells[s].marker) = {} /\ procs' = procs
             /\ shells' = [shells EXCEPT ![s] = [shells[s] EXCEPT !.pc = "judged"]]
    <3>1. shells' = [shells EXCEPT ![s] = [shells[s] EXCEPT !.pc = "judged", !.slave = shells[s].slave]]
      BY <2>3, <2>5
    <3> QED
      BY <1>0, <2>2, <2>5, <3>1, GoesOn
  <2> QED
    BY <2>1, <2>4, <2>5
<1> QED
  BY <1>2, <1>3, <1>4

\* What the parent holds of other sessions is of sessions that are starting.
LEMMA EndsOpening ==
  ASSUME SpawnInv
  PROVE  ParentEnds \subseteq End /\ \A e \in ParentEnds : Opening(e[2])
<1> SUFFICES ASSUME NEW e \in ParentEnds PROVE e \in End /\ Opening(e[2])
  OBVIOUS
<1>1. CASE \E t \in ShellSessions : shells[t].slave /\ e = <<"slave", t>>
  <2>1. PICK t \in ShellSessions : shells[t].slave /\ e = <<"slave", t>>
    BY <1>1
  <2> QED
    BY <2>1 DEF SpawnInv, SessionSound, End
<1>2. CASE \E t \in ShellSessions : shells[t].pc \in {"judged", "launched"} /\ e = <<"report", t>>
  <2>1. PICK t \in ShellSessions : shells[t].pc \in {"judged", "launched"} /\ e = <<"report", t>>
    BY <1>2
  <2> QED
    BY <2>1 DEF Opening, End
<1> QED
  BY <1>1, <1>2 DEF ParentEnds

\* The fork takes the descriptors of the moment, which differ from those audited by what
\* was opened since, and every session it takes an end of is noted as crossed.
LEMMA ForkKeeps ==
  ASSUME SpawnInv, NEW s \in ShellSessions, NEW p \in Pids, shells[s].pc = "judged", Enforceable,
         procs[p].state = "free", ForksChild(s, p),
         UNCHANGED <<identity, marker_key, policy, platform, host_fds, tree_total>>
  PROVE  SpawnInv'
<1> DEFINE held == IF policy.isolated THEN {e \in ParentEnds : e[2] # s} ELSE {}
           child == [state |-> "live", owner |-> s, holds |-> held]
           new == [shells[s] EXCEPT !.pc = "launched", !.process = p,
                     !.leaks = find_leaks(host_fds), !.since = @ \cap find_leaks(host_fds)]
<1>0. shells[s] \in Session /\ SessionSound(s) /\ shells \in [ShellSessions -> Session] /\ procs \in [Pids -> ProcRecord]
      /\ host_fds \subseteq HostFds /\ tree_total' \in Nat /\ SpawnShape
  BY SessionParts DEF SpawnInv, SpawnShape
<1>1. procs' = [procs EXCEPT ![p] = child]
      /\ shells' = [t \in ShellSessions |-> IF t = s THEN new ELSE [shells[t] EXCEPT !.crossed = @ \/ Opening(t)]]
  BY DEF ForksChild
<1>2. held \subseteq End /\ \A e \in held : e[2] # s /\ Opening(e[2])
  BY EndsOpening
<1>3. child \in ProcRecord /\ child.owner = s /\ child.state = "live" /\ child.holds = held
  BY <1>2 DEF ProcRecord
<1>4. find_leaks(host_fds) \subseteq HostFds /\ find_leaks(host_fds) \subseteq shells[s].since
  BY <1>0 DEF find_leaks, SessionSound
<1>5. new \in Session /\ new.pc = "launched" /\ new.process = p /\ new.leaks \subseteq new.since
      /\ new.slave = shells[s].slave /\ new.request = shells[s].request /\ new.marker = shells[s].marker
      /\ new.crossed = shells[s].crossed
  <2>1. shells[s].since \cap find_leaks(host_fds) \subseteq HostFds
    BY <1>4
  <2>2. new.leaks = find_leaks(host_fds) /\ new.since = shells[s].since \cap find_leaks(host_fds)
    BY <1>0 DEF Session
  <2>3. new.leaks \subseteq new.since
    BY <1>4, <2>2
  <2> QED
    BY <1>0, <1>4, <2>1, <2>3 DEF Session
<1> HIDE DEF held, child, new
<1>6. ASSUME NEW t \in ShellSessions, t # s
      PROVE  /\ shells'[t] \in Session /\ shells'[t].crossed = (shells[t].crossed \/ Opening(t))
             /\ shells'[t].pc = shells[t].pc /\ shells'[t].slave = shells[t].slave /\ shells'[t].process = shells[t].process
             /\ shells'[t].request = shells[t].request /\ shells'[t].marker = shells[t].marker
             /\ shells'[t].leaks = shells[t].leaks /\ shells'[t].since = shells[t].since
  <2>1. shells'[t] = [shells[t] EXCEPT !.crossed = @ \/ Opening(t)] /\ shells[t] \in Session
    BY <1>0, <1>1, <1>6
  <2>2. (shells[t].crossed \/ Opening(t)) \in BOOLEAN
    BY DEF Opening
  <2> QED
    BY <2>1, <2>2 DEF Session
<1>7. shells'[s] = new /\ procs'[p] = child /\ \A q \in Pids : q # p => procs'[q] = procs[q]
  BY <1>0, <1>1
<1>8. procs' \in [Pids -> ProcRecord] /\ shells' \in [ShellSessions -> Session]
  <2>1. \A t \in ShellSessions : shells'[t] \in Session
    BY <1>5, <1>6, <1>7
  <2> QED
    BY <1>0, <1>1, <1>3, <2>1
<1>9. SpawnShape'
  BY <1>0, <1>8 DEF SpawnShape, PolicyRecord
<1>10. OnlyCrossed'
  <2> SUFFICES ASSUME NEW q \in Pids, NEW e \in procs'[q].holds PROVE shells'[e[2]].crossed
    BY DEF OnlyCrossed
  <2>1. CASE q = p
    <3>1. e[2] \in ShellSessions /\ e[2] # s /\ Opening(e[2])
      BY <1>2, <1>3, <1>7, <2>1 DEF End
    <3> QED
      BY <1>6, <3>1
  <2>2. CASE q # p
    <3>1. e[2] \in ShellSessions /\ shells[e[2]].crossed
      BY <1>0, <1>7, <2>2, SessionParts DEF SpawnInv, OnlyCrossed, End
    <3> QED
      BY <1>5, <1>6, <1>7, <3>1
  <2> QED
    BY <2>1, <2>2
<1>11. SessionSound(s)'
  <2>1. (\A r, m : judge(r, m)' = judge(r, m)) /\ Enforceable' = Enforceable
    BY DEF judge, verify, Enforceable
  <2>2. identity /\ judge(new.request, new.marker) = {}
    BY <1>0, <1>5 DEF SessionSound
  <2> QED
    BY <1>3, <1>5, <1>7, <2>1, <2>2 DEF SessionSound, Opening
<1>12. ASSUME NEW t \in ShellSessions, t # s PROVE SessionSound(t)'
  <2>1. SessionSound(t) /\ shells[t].process \in Pids \cup {0}
    BY <1>0, SessionParts DEF SpawnInv
  <2>2. shells[t].process # 0 => procs'[shells[t].process].owner = t /\ procs'[shells[t].process].state # "free"
    <3> SUFFICES ASSUME shells[t].process # 0
                 PROVE  procs'[shells[t].process].owner = t /\ procs'[shells[t].process].state # "free"
      OBVIOUS
    <3>1. shells[t].process \in Pids /\ procs[shells[t].process].owner = t /\ procs[shells[t].process].state # "free"
      BY <2>1 DEF SessionSound
    <3> QED
      BY <1>7, <3>1
  <2>3. shells[t].pc \in {"audited", "judged"} => find_leaks(host_fds') \subseteq shells'[t].since
    BY <1>6, <1>12, <2>1 DEF SessionSound
  <2> QED
    BY <1>6, <1>12, <2>1, <2>2, <2>3, StaysSound
<1> QED
  BY <1>9, <1>10, <1>11, <1>12 DEF SpawnInv

\* A launch that fails leaves a closed session.
LEMMA LaunchKeeps ==
  ASSUME SpawnInv, NEW s \in ShellSessions, Launch(s) PROVE SpawnInv'
<1>0. shells[s].pc = "judged" /\ UNCHANGED <<identity, marker_key, policy, platform, host_fds, tree_total>>
  BY DEF Launch
<1>1. CASE SpawnFails(s)
  BY <1>0, <1>1, FailsKeeps
<1>2. ASSUME NEW p \in Pids, Enforceable, procs[p].state = "free", ForksChild(s, p) PROVE SpawnInv'
  BY <1>0, <1>2, ForkKeeps
<1> QED
  BY <1>1, <1>2 DEF Launch

\* What another process holds of a session that goes on stays held of a crossed one.
LEMMA HoldsStay ==
  ASSUME SpawnInv, NEW s \in ShellSessions, NEW crossed \in BOOLEAN, crossed = shells[s].crossed,
         NEW q \in Pids \cup {0}, NEW r \in ProcRecord, r.holds = {} \/ (q # 0 /\ r.holds = procs[q].holds),
         procs' = procs \/ (q # 0 /\ procs' = [procs EXCEPT ![q] = r])
  PROVE  \A p \in Pids : \A e \in procs'[p].holds : e \in procs[p].holds /\ (e[2] = s => crossed)
<1> SUFFICES ASSUME NEW p \in Pids, NEW e \in procs'[p].holds PROVE e \in procs[p].holds /\ (e[2] = s => crossed)
  OBVIOUS
<1>1. procs \in [Pids -> ProcRecord]
  BY DEF SpawnInv, SpawnShape
<1>2. e \in procs[p].holds
  BY <1>1
<1> QED
  BY <1>2 DEF SpawnInv, OnlyCrossed

\* A session that has its child, or gives it up.
LEMMA RunningKeeps ==
  ASSUME SpawnInv, NEW s \in ShellSessions, NEW new \in Session,
         shells[s].pc \in {"launched", "running"},
         \/ new = [shells[s] EXCEPT !.pc = "running", !.slave = FALSE]
         \/ new = [shells[s] EXCEPT !.process = 0] /\ shells[s].pc = "running",
         shells' = [shells EXCEPT ![s] = new], tree_total' \in Nat,
         UNCHANGED <<identity, marker_key, policy, platform, host_fds>>,
         \/ procs' = procs
         \/ /\ shells[s].process # 0 /\ new.process = 0
            /\ \E r \in ProcRecord : (r.holds = {} \/ r.holds = procs[shells[s].process].holds)
                                     /\ procs' = [procs EXCEPT ![shells[s].process] = r]
  PROVE  SpawnInv'
<1>0. shells[s] \in Session /\ SessionSound(s) /\ procs \in [Pids -> ProcRecord]
      /\ shells[s].process \in Pids \cup {0}
  BY SessionParts DEF SpawnInv, SpawnShape
<1>1. procs' \in [Pids -> ProcRecord]
      /\ \A q \in Pids : shells[s].process # q => procs'[q] = procs[q]
  BY <1>0
<1>2. \A t \in ShellSessions : t # s /\ shells[t].process # 0 =>
        /\ procs'[shells[t].process].owner = procs[shells[t].process].owner
        /\ procs'[shells[t].process].state = procs[shells[t].process].state
  <2> SUFFICES ASSUME NEW t \in ShellSessions, t # s, shells[t].process # 0
               PROVE  shells[t].process \in Pids /\ (shells[s].process = shells[t].process => FALSE)
    BY <1>1
  <2>1. SessionSound(t) /\ shells[t].process \in Pids \cup {0}
    BY SessionParts DEF SpawnInv
  <2> QED
    BY <1>0, <2>1 DEF SessionSound
<1>3. new.crossed = shells[s].crossed /\ new.since = shells[s].since /\ new.leaks = shells[s].leaks
      /\ new.request = shells[s].request /\ new.marker = shells[s].marker /\ new.pc = "running"
  BY <1>0 DEF Session
<1>4. \A p \in Pids : \A e \in procs'[p].holds : e \in procs[p].holds /\ (e[2] = s => new.crossed)
  <2>1. CASE procs' = procs
    BY <1>3, <2>1 DEF SpawnInv, OnlyCrossed
  <2>2. ASSUME NEW r \in ProcRecord, shells[s].process # 0, r.holds = {} \/ r.holds = procs[shells[s].process].holds,
               procs' = [procs EXCEPT ![shells[s].process] = r]
        PROVE  \A p \in Pids : \A e \in procs'[p].holds : e \in procs[p].holds /\ (e[2] = s => new.crossed)
    <3>1. shells[s].crossed \in BOOLEAN
      BY <1>0 DEF Session
    <3> QED
      BY <1>0, <1>3, <2>2, <3>1, HoldsStay
  <2> QED
    BY <2>1, <2>2
<1>5. CASE new = [shells[s] EXCEPT !.pc = "running", !.slave = FALSE]
  <2>1. new.slave = FALSE /\ new.process = shells[s].process
    BY <1>0, <1>5 DEF Session
  <2>2. new.process # 0 => procs'[new.process] = procs[shells[s].process]
    BY <2>1
  <2>3. new.process # 0 => procs'[new.process].owner = s /\ procs'[new.process].state # "free"
    BY <1>0, <2>1, <2>2 DEF SessionSound
  <2>4. /\ new.leaks \subseteq new.since /\ identity /\ judge(new.request, new.marker) = {} /\ Enforceable
    BY <1>0, <1>3 DEF SessionSound
  <2> QED
    BY <1>1, <1>2, <1>3, <1>4, <2>1, <2>3, <2>4, SessionMoves
<1>6. CASE new = [shells[s] EXCEPT !.process = 0] /\ shells[s].pc = "running"
  <2>1. new.slave = shells[s].slave /\ new.process = 0
    BY <1>0, <1>6 DEF Session
  <2>2. ~new.slave
    BY <1>0, <1>6, <2>1 DEF SessionSound, Opening
  <2>3. /\ new.leaks \subseteq new.since /\ identity /\ judge(new.request, new.marker) = {} /\ Enforceable
    BY <1>0, <1>3 DEF SessionSound
  <2> QED
    BY <1>1, <1>2, <1>3, <1>4, <2>1, <2>2, <2>3, SessionMoves
<1> QED
  BY <1>5, <1>6

\* A session dropped is closed, its child reaped or left to the kernel.
LEMMA DropKeeps ==
  ASSUME SpawnInv, NEW s \in ShellSessions, DropSession(s) PROVE SpawnInv'
<1> DEFINE p == shells[s].process
           held == IF p # 0 THEN [procs EXCEPT ![p] = Free] ELSE procs
<1>0. SessionSound(s) /\ procs \in [Pids -> ProcRecord] /\ p \in Pids \cup {0} /\ tree_total' \in Nat
      /\ UNCHANGED <<identity, marker_key, policy, platform, host_fds>> /\ shells' = [shells EXCEPT ![s] = Closed]
  BY SessionParts DEF SpawnInv, SpawnShape, DropSession, Become
<1>1. held \in [Pids -> ProcRecord] /\ (\A q \in Pids : held[q].holds \subseteq procs[q].holds)
      /\ \A q \in Pids : q # p => held[q] = procs[q]
  BY <1>0, FreeIs
<1>2. procs' = Forget(held, s) \/ procs' = Forget(procs, s)
  BY DEF DropSession, ProcessOf
<1> HIDE DEF held
<1>3. procs' \in [Pids -> ProcRecord]
      /\ (\A q \in Pids : procs'[q].holds \subseteq {e \in procs[q].holds : e[2] # s})
      /\ \A q \in Pids : q # p => procs'[q].owner = procs[q].owner /\ procs'[q].state = procs[q].state
  <2>1. CASE procs' = Forget(held, s)
    BY <1>1, <2>1, ForgetIs
  <2>2. CASE procs' = Forget(procs, s)
    BY <1>0, <2>2, ForgetIs
  <2> QED
    BY <1>2, <2>1, <2>2
<1>4. \A t \in ShellSessions : t # s /\ shells[t].process # 0 =>
        /\ procs'[shells[t].process].owner = procs[shells[t].process].owner
        /\ procs'[shells[t].process].state = procs[shells[t].process].state
  <2> SUFFICES ASSUME NEW t \in ShellSessions, t # s, shells[t].process # 0
               PROVE  shells[t].process \in Pids /\ shells[t].process # p
    BY <1>3
  <2>1. SessionSound(t) /\ shells[t].process \in Pids \cup {0}
    BY SessionParts DEF SpawnInv
  <2> QED
    BY <1>0, <2>1 DEF SessionSound
<1>5. \A q \in Pids : \A e \in procs'[q].holds : e \in procs[q].holds /\ (e[2] = s => Closed.crossed)
  BY <1>3
<1> QED
  BY <1>0, <1>3, <1>4, <1>5, ClosedIs, SessionMoves

\* Waiting, signalling and handing over touch the session's own child.
LEMMA ChildKeeps ==
  ASSUME SpawnInv, NEW s \in ShellSessions, TakeSlave(s) \/ Wait(s) \/ Kill(s) \/ Detach(s)
  PROVE  SpawnInv'
<1> DEFINE p == shells[s].process
           gone == [shells[s] EXCEPT !.process = 0]
<1>0. shells[s] \in Session /\ SessionSound(s) /\ procs \in [Pids -> ProcRecord] /\ p \in Pids \cup {0}
      /\ shells \in [ShellSessions -> Session] /\ tree_total \in Nat
  BY SessionParts DEF SpawnInv, SpawnShape
<1>2. gone \in Session /\ gone.process = 0
  BY <1>0 DEF Session
<1>3. UNCHANGED <<identity, marker_key, policy, platform, host_fds>>
      /\ shells[s].pc \in {"launched", "running"} /\ tree_total' \in Nat
  BY <1>0 DEF TakeSlave, Wait, Kill, Detach
<1>4. CASE TakeSlave(s)
  <2> DEFINE new == [shells[s] EXCEPT !.pc = "running", !.slave = FALSE]
  <2>1. shells' = [shells EXCEPT ![s] = new] /\ procs' = procs
    BY <1>4 DEF TakeSlave, Become
  <2>2. new \in Session
    BY <1>0 DEF Session
  <2> QED
    BY <1>3, <2>1, <2>2, RunningKeeps
<1>5. ASSUME procs' = procs, shells' = shells PROVE SpawnInv'
  <2>1. SpawnShape' /\ OnlyCrossed'
    BY <1>3, <1>5 DEF SpawnInv, SpawnShape, PolicyRecord, OnlyCrossed
  <2>2. ASSUME NEW t \in ShellSessions PROVE SessionSound(t)'
    <3>1. SessionSound(t)
      BY DEF SpawnInv
    <3> QED
      BY <1>3, <1>5, <3>1 DEF SessionSound, Opening, find_leaks, judge, verify, Enforceable
  <2> QED
    BY <2>1, <2>2 DEF SpawnInv
<1>6. ASSUME shells[s].pc = "running", p # 0, Reaped(p), shells' = [shells EXCEPT ![s] = gone]
      PROVE  SpawnInv'
  <2>1. \E r \in ProcRecord : (r.holds = {} \/ r.holds = procs[p].holds) /\ procs' = [procs EXCEPT ![p] = r]
    BY <1>6, FreeIs DEF Reaped
  <2> QED
    BY <1>2, <1>3, <1>6, <2>1, RunningKeeps
<1>7. CASE Wait(s) \/ Kill(s)
  <2>1. shells[s].pc = "running" /\ p # 0
        /\ \/ Reaped(p) /\ shells' = [shells EXCEPT ![s] = gone]
           \/ UNCHANGED <<shells, procs>>
    BY <1>7 DEF Wait, Kill, ProcessOf, Become
  <2> QED
    BY <1>5, <1>6, <2>1
<1>9. CASE Detach(s)
  <2>1. shells[s].pc = "running" /\ p # 0 /\ shells' = [shells EXCEPT ![s] = gone]
        /\ procs' = [procs EXCEPT ![p].owner = NoSession]
    BY <1>9 DEF Detach, ProcessOf, Become
  <2>2. [procs[p] EXCEPT !.owner = NoSession] \in ProcRecord /\ [procs[p] EXCEPT !.owner = NoSession].holds = procs[p].holds
    <3>1. procs[p] \in ProcRecord
      BY <1>0, <2>1
    <3> QED
      BY <3>1 DEF ProcRecord
  <2>3. procs' = [procs EXCEPT ![p] = [procs[p] EXCEPT !.owner = NoSession]]
    BY <1>0, <2>1
  <2>4. \E r \in ProcRecord : (r.holds = {} \/ r.holds = procs[p].holds) /\ procs' = [procs EXCEPT ![p] = r]
    BY <2>2, <2>3
  <2> QED
    BY <1>2, <1>3, <2>1, <2>4, RunningKeeps
<1> QED
  BY <1>4, <1>7, <1>9

\* A step of the kernel leaves every handle its child.
LEMMA KernelKeeps ==
  ASSUME SpawnInv, procs' \in [Pids -> ProcRecord],
         UNCHANGED <<identity, marker_key, policy, platform, host_fds, shells, tree_total>>,
         \A p \in Pids : procs'[p].holds \subseteq procs[p].holds,
         \A t \in ShellSessions : shells[t].process # 0 =>
           procs'[shells[t].process].owner = t /\ procs'[shells[t].process].state # "free"
  PROVE  SpawnInv'
<1>1. SpawnShape'
  BY DEF SpawnInv, SpawnShape, PolicyRecord
<1>2. OnlyCrossed'
  BY DEF SpawnInv, OnlyCrossed
<1>3. ASSUME NEW t \in ShellSessions PROVE SessionSound(t)'
  <2>1. SessionSound(t)
    BY DEF SpawnInv
  <2>2. (\A r, m : judge(r, m)' = judge(r, m)) /\ Enforceable' = Enforceable /\ find_leaks(host_fds)' = find_leaks(host_fds)
    BY DEF judge, verify, Enforceable, find_leaks
  <2> QED
    BY <2>1, <2>2 DEF SessionSound, Opening
<1> QED
  BY <1>1, <1>2, <1>3 DEF SpawnInv

\* A descriptor opened after an audit is noted; one closed leaks no more.
LEMMA DescriptorKeeps ==
  ASSUME SpawnInv, NEW f \in HostFds, HostDescriptor(f) PROVE SpawnInv'
<1>0. /\ procs \in [Pids -> ProcRecord] /\ host_fds \subseteq HostFds /\ shells \in [ShellSessions -> Session]
      /\ UNCHANGED <<identity, marker_key, policy, platform, procs, tree_total>>
  BY DEF SpawnInv, SpawnShape, HostDescriptor
<1>1. CASE f \in host_fds
  <2>1. host_fds' = host_fds \ {f} /\ shells' = shells
    BY <1>1 DEF HostDescriptor
  <2>2. SpawnShape' /\ OnlyCrossed'
    BY <1>0, <2>1 DEF SpawnInv, SpawnShape, PolicyRecord, OnlyCrossed
  <2>3. ASSUME NEW t \in ShellSessions PROVE SessionSound(t)'
    <3>1. SessionSound(t) /\ shells'[t] = shells[t]
      BY <2>1 DEF SpawnInv
    <3>2. find_leaks(host_fds') \subseteq find_leaks(host_fds)
      BY <2>1 DEF find_leaks
    <3>3. shells[t].process # 0 => procs'[shells[t].process].owner = t /\ procs'[shells[t].process].state # "free"
      BY <1>0, <3>1 DEF SessionSound
    <3>4. shells[t].pc \in {"audited", "judged"} => find_leaks(host_fds') \subseteq shells'[t].since
      BY <3>1, <3>2 DEF SessionSound
    <3> QED
      BY <1>0, <3>1, <3>3, <3>4, StaysSound
  <2> QED
    BY <2>2, <2>3 DEF SpawnInv
<1>2. CASE f \notin host_fds
  <2>1. host_fds' = host_fds \cup {f}
        /\ shells' = [t \in ShellSessions |->
             [shells[t] EXCEPT !.since = IF shells[t].pc \in {"audited", "judged"} THEN @ \cup {f} ELSE @]]
    BY <1>2 DEF HostDescriptor
  <2>2. ASSUME NEW t \in ShellSessions
        PROVE  /\ shells'[t] \in Session /\ shells'[t].crossed = shells[t].crossed
               /\ shells'[t].pc = shells[t].pc /\ shells'[t].slave = shells[t].slave /\ shells'[t].process = shells[t].process
               /\ shells'[t].request = shells[t].request /\ shells'[t].marker = shells[t].marker
               /\ shells'[t].leaks = shells[t].leaks /\ shells[t].since \subseteq shells'[t].since
               /\ shells[t].pc \in {"audited", "judged"} => shells'[t].since = shells[t].since \cup {f}
    <3> DEFINE more == IF shells[t].pc \in {"audited", "judged"} THEN shells[t].since \cup {f} ELSE shells[t].since
    <3>1. shells[t] \in Session /\ more \in SUBSET HostFds
      BY <1>0 DEF Session
    <3>2. shells'[t] = [shells[t] EXCEPT !.since = more]
      BY <2>1
    <3>3. shells[t].since \subseteq more /\ (shells[t].pc \in {"audited", "judged"} => more = shells[t].since \cup {f})
      OBVIOUS
    <3> HIDE DEF more
    <3> QED
      BY <3>1, <3>2, <3>3 DEF Session
  <2>3. shells' \in [ShellSessions -> Session]
    BY <2>1, <2>2
  <2>4. SpawnShape'
    BY <1>0, <2>1, <2>3 DEF SpawnInv, SpawnShape, PolicyRecord
  <2>5. OnlyCrossed'
    <3> SUFFICES ASSUME NEW p \in Pids, NEW e \in procs'[p].holds PROVE shells'[e[2]].crossed
      BY DEF OnlyCrossed
    <3>1. e \in procs[p].holds
      BY <1>0
    <3>2. e \in End /\ shells[e[2]].crossed
      BY <1>0, <3>1 DEF SpawnInv, OnlyCrossed, ProcRecord
    <3>3. e[2] \in ShellSessions
      BY <3>2 DEF End
    <3> QED
      BY <2>2, <3>2, <3>3
  <2>6. ASSUME NEW t \in ShellSessions PROVE SessionSound(t)'
    <3>1. SessionSound(t)
      BY DEF SpawnInv
    <3>2. find_leaks(host_fds') \subseteq find_leaks(host_fds) \cup {f}
      BY <2>1 DEF find_leaks
    <3>3. shells[t].process # 0 => procs'[shells[t].process].owner = t /\ procs'[shells[t].process].state # "free"
      BY <1>0, <3>1 DEF SessionSound
    <3>4. shells[t].pc \in {"audited", "judged"} => find_leaks(host_fds') \subseteq shells'[t].since
      BY <2>2, <3>1, <3>2 DEF SessionSound
    <3> QED
      BY <1>0, <2>2, <3>1, <3>3, <3>4, StaysSound
  <2> QED
    BY <2>4, <2>5, <2>6 DEF SpawnInv
<1> QED
  BY <1>1, <1>2

\* The invariant is inductive, whoever else spawns, opens descriptors or takes pids.
LEMMA SpawnInvKept ==
  ASSUME SpawnInv, [SpawnNext]_spawnVars PROVE SpawnInv'
<1>0. /\ procs \in [Pids -> ProcRecord]
      /\ \A t \in ShellSessions : shells[t].process \in Pids \cup {0}
      /\ \A t \in ShellSessions : shells[t].process # 0 =>
           procs[shells[t].process].owner = t /\ procs[shells[t].process].state # "free"
  BY SessionParts DEF SpawnInv, SpawnShape, SessionSound
<1>1. CASE BuildPolicy
  BY <1>1, BuildKeeps
<1>2. ASSUME NEW s \in ShellSessions, PrepareSpawn(s) PROVE SpawnInv'
  BY <1>2, PrepareKeeps
<1>3. ASSUME NEW s \in ShellSessions, OpenPty(s) \/ AuditDescriptors(s) \/ Judge(s) PROVE SpawnInv'
  BY <1>3, SpawningKeeps
<1>4. ASSUME NEW s \in ShellSessions, Launch(s) PROVE SpawnInv'
  BY <1>4, LaunchKeeps
<1>5. ASSUME NEW s \in ShellSessions, TakeSlave(s) \/ Wait(s) \/ Kill(s) \/ DropSession(s) \/ Detach(s) PROVE SpawnInv'
  BY <1>5, ChildKeeps, DropKeeps
<1>6. ASSUME NEW p \in Pids, ProcessExits(p) PROVE SpawnInv'
  <2> DEFINE z == [procs[p] EXCEPT !.state = "zombie", !.holds = {}]
  <2>1. procs' = [procs EXCEPT ![p] = z]
        /\ UNCHANGED <<identity, marker_key, policy, platform, host_fds, shells, tree_total>>
    BY <1>0, <1>6 DEF ProcessExits
  <2>2. z \in ProcRecord /\ z.owner = procs[p].owner /\ z.state = "zombie" /\ z.holds = {}
    <3>1. procs[p] \in ProcRecord
      BY <1>0
    <3> QED
      BY <3>1 DEF ProcRecord
  <2> HIDE DEF z
  <2>3. procs' \in [Pids -> ProcRecord] /\ (\A q \in Pids : procs'[q].holds \subseteq procs[q].holds)
        /\ \A q \in Pids : procs'[q] = procs[q] \/ (procs'[q].owner = procs[q].owner /\ procs'[q].state = "zombie")
    BY <1>0, <2>1, <2>2
  <2>4. ASSUME NEW t \in ShellSessions, shells[t].process # 0
        PROVE  procs'[shells[t].process].owner = t /\ procs'[shells[t].process].state # "free"
    <3>1. PICK q \in Pids : q = shells[t].process
      BY <1>0, <2>4
    <3>2. procs[q].owner = t /\ procs[q].state # "free"
      BY <1>0, <2>4, <3>1
    <3>3. procs'[q].owner = t /\ procs'[q].state # "free"
      BY <2>3, <3>2
    <3> QED
      BY <3>1, <3>3
  <2> QED
    BY <2>1, <2>3, <2>4, KernelKeeps
<1>7. ASSUME NEW p \in Pids, OtherProcess(p) PROVE SpawnInv'
  <2> DEFINE other == [Free EXCEPT !.state = "live", !.owner = "other"]
  <2>1. /\ \/ procs[p].state = "free" /\ procs' = [procs EXCEPT ![p] = other]
           \/ procs[p].owner \in {"other", NoSession} /\ procs' = [procs EXCEPT ![p] = Free]
        /\ UNCHANGED <<identity, marker_key, policy, platform, host_fds, shells, tree_total>>
    BY <1>7 DEF OtherProcess, Reaped
  <2>2. other \in ProcRecord /\ other.holds = {}
    BY DEF ProcRecord, Free
  <2> HIDE DEF other
  <2>3. procs' \in [Pids -> ProcRecord] /\ (\A q \in Pids : procs'[q].holds \subseteq procs[q].holds)
        /\ \A q \in Pids : q # p => procs'[q] = procs[q]
    BY <1>0, <2>1, <2>2, FreeIs
  <2>4. \A t \in ShellSessions : shells[t].process # 0 => shells[t].process # p
    BY <1>0, <2>1, SpawnConstants
  <2>5. \A t \in ShellSessions : shells[t].process # 0 =>
          procs'[shells[t].process].owner = t /\ procs'[shells[t].process].state # "free"
    <3> SUFFICES ASSUME NEW t \in ShellSessions, shells[t].process # 0
                 PROVE  procs'[shells[t].process].owner = t /\ procs'[shells[t].process].state # "free"
      OBVIOUS
    <3>1. PICK q \in Pids : q = shells[t].process
      BY <1>0
    <3>2. procs[q].owner = t /\ procs[q].state # "free" /\ q # p
      BY <1>0, <2>4, <3>1
    <3>3. procs'[q].owner = t /\ procs'[q].state # "free"
      BY <2>3, <3>2
    <3> QED
      BY <3>1, <3>3
  <2> QED
    BY <2>1, <2>3, <2>5, KernelKeeps
<1>8. ASSUME NEW f \in HostFds, HostDescriptor(f) PROVE SpawnInv'
  BY <1>8, DescriptorKeeps
<1>9. CASE UNCHANGED spawnVars
  <2>1. UNCHANGED <<identity, marker_key, policy, platform, host_fds, shells, procs, tree_total>>
    BY <1>9 DEF spawnVars
  <2> QED
    BY <1>0, <2>1, KernelKeeps
<1> QED
  BY <1>1, <1>2, <1>3, <1>4, <1>5, <1>6, <1>7, <1>8, <1>9 DEF SpawnNext, HostFds

\* No session and no child at first.
LEMMA SpawnBegins == SpawnInit => SpawnInv
<1> SUFFICES ASSUME SpawnInit PROVE SpawnInv
  OBVIOUS
<1>1. policy \in PolicyRecord
  <2>1. 0 \in 0..MaxPaths
    BY SpawnConstants
  <2> QED
    BY <2>1 DEF SpawnInit, PolicyRecord, Tiers
<1>2. shells = [s \in ShellSessions |-> Closed] /\ shells \in [ShellSessions -> Session]
  BY ClosedIs DEF SpawnInit
<1>3. procs \in [Pids -> ProcRecord] /\ OnlyCrossed
  BY FreeIs DEF SpawnInit, OnlyCrossed
<1>4. SpawnShape
  BY <1>1, <1>2, <1>3 DEF SpawnInit, SpawnShape
<1>5. \A s \in ShellSessions : SessionSound(s)
  BY <1>2, ClosedIs DEF SessionSound
<1> QED
  BY <1>3, <1>4, <1>5 DEF SpawnInv

\* What the invariant says of children and of the sessions' output.
LEMMA SpawnTyped == SpawnInv => SpawnTypeOK /\ OutputEnds /\ SignalsOwnChild /\ ChildrenVetted
<1> SUFFICES ASSUME SpawnInv PROVE SpawnTypeOK /\ OutputEnds /\ SignalsOwnChild /\ ChildrenVetted
  OBVIOUS
<1>1. SpawnShape /\ OnlyCrossed /\ \A s \in ShellSessions : SessionSound(s)
  BY DEF SpawnInv
<1>2. SpawnTypeOK
  BY <1>1, SessionParts DEF SpawnShape, SpawnTypeOK, PolicyRecord, ProcRecord
<1>3. OutputEnds
  <2> SUFFICES ASSUME NEW s \in ShellSessions
               PROVE  /\ Ended(s) => ~shells[s].slave
                      /\ ~shells[s].crossed => ~HeldElsewhere("slave", s) /\ ~HeldElsewhere("report", s)
    BY DEF OutputEnds
  <2>1. Ended(s) => ~shells[s].slave
    BY <1>1 DEF SessionSound, Opening, Ended
  <2>2. ASSUME NEW kind, HeldElsewhere(kind, s) PROVE shells[s].crossed
    <3>1. PICK p \in Pids : <<kind, s>> \in procs[p].holds
      BY <2>2 DEF HeldElsewhere
    <3>2. <<kind, s>>[2] = s
      OBVIOUS
    <3>3. shells[<<kind, s>>[2]].crossed
      BY <1>1, <3>1 DEF OnlyCrossed
    <3> QED
      BY <3>2, <3>3
  <2> QED
    BY <2>1, <2>2
<1>4. SignalsOwnChild
  BY <1>1 DEF SessionSound, SignalsOwnChild, ProcessOf
<1>5. ChildrenVetted
  BY <1>1 DEF SessionSound, ChildrenVetted
<1> QED
  BY <1>2, <1>3, <1>4, <1>5

-----------------------------------------------------------------------------
(***************************************************************************)
(* The shape of what a terminal shows (Shaper)                             *)
(***************************************************************************)
\* A set of numbers up to a bound that has no least member, given what comes before the
\* least would have, is empty: 0 is not in it, and nothing is that its predecessor is not.
LEMMA NoneUpTo ==
  ASSUME NEW N \in Nat, NEW D \in SUBSET (0..N), 0 \notin D,
         \A n \in D : n # 0 => n - 1 \in D
  PROVE  D = {}
<1> SUFFICES ASSUME D # {} PROVE FALSE
  OBVIOUS
<1>1. D \in SUBSET Nat
  OBVIOUS
<1>2. PICK m \in D : \A y \in D : m <= y
  BY <1>1, NatMin
<1>3. m \in Nat /\ m # 0 /\ m - 1 \in D
  BY <1>1
<1>4. m <= m - 1
  BY <1>2, <1>3
<1> QED
  BY <1>3, <1>4

\* Fed is what its definition says: the recursion has a solution.
LEMMA FedIs ==
  ASSUME NEW sh, NEW bytes, Len(bytes) \in Nat
  PROVE  /\ Fed(sh, bytes)[0] = sh
         /\ \A n \in 1..Len(bytes) : Fed(sh, bytes)[n] = take(Fed(sh, bytes)[n - 1], bytes[n])
<1> DEFINE N == Len(bytes)
           Is(f, n) == f = [k \in 0..n |-> IF k = 0 THEN sh ELSE take(f[k - 1], bytes[k])]
           D == {n \in 0..N : ~ \E f : Is(f, n)}
<1>0. N \in Nat
  OBVIOUS
<1>1. D = {}
  <2>1. 0 \notin D
    <3>1. Is([k \in 0..0 |-> sh], 0)
      OBVIOUS
    <3> QED
      BY <3>1
  <2>2. ASSUME NEW m \in D, m # 0 PROVE m - 1 \in D
    <3>0. m \in 0..N /\ m - 1 \in 0..N /\ m \in Nat
      BY <1>0, <2>2
    <3> SUFFICES ASSUME NEW f, Is(f, m - 1) PROVE FALSE
      BY <3>0
    <3> DEFINE g == [k \in 0..m |-> IF k = m THEN take(f[m - 1], bytes[m]) ELSE f[k]]
    <3>1. ASSUME NEW k \in 0..m PROVE g[k] = IF k = 0 THEN sh ELSE take(g[k - 1], bytes[k])
      <4>1. CASE k = 0
        <5>1. 0 \in 0..m - 1 /\ 0 # m
          BY <3>0, <2>2
        <5>2. f[0] = sh
          BY <5>1
        <5> QED
          BY <3>0, <4>1, <5>1, <5>2
      <4>2. CASE k # 0 /\ k # m
        <5>1. k \in 0..m - 1 /\ k - 1 \in 0..m /\ k - 1 # m /\ k \in 0..m
          BY <3>0, <4>2
        <5>2. f[k] = take(f[k - 1], bytes[k])
          BY <4>2, <5>1
        <5>3. g[k] = f[k] /\ g[k - 1] = f[k - 1]
          BY <4>2, <5>1
        <5> QED
          BY <4>2, <5>2, <5>3
      <4>3. CASE k = m
        <5>1. m - 1 \in 0..m /\ m - 1 # m /\ m \in 0..m
          BY <3>0, <2>2
        <5>2. g[m - 1] = f[m - 1] /\ g[m] = take(f[m - 1], bytes[m])
          BY <5>1
        <5> QED
          BY <2>2, <4>3, <5>2
      <4> QED
        BY <4>1, <4>2, <4>3
    <3>2. Is(g, m)
      <4>1. g = [k \in 0..m |-> g[k]]
        OBVIOUS
      <4> HIDE DEF g
      <4> QED
        BY <3>1, <4>1
    <3> HIDE DEF g, Is
    <3> QED
      BY <3>2
  <2> HIDE DEF D
  <2>3. D \in SUBSET (0..N)
    BY DEF D
  <2> QED
    BY <1>0, <2>1, <2>2, <2>3, NoneUpTo
<1>2. \E f : Is(f, N)
  <2>1. N \in 0..N
    BY <1>0
  <2> QED
    BY <1>1, <2>1
<1>3. Is(Fed(sh, bytes), N)
  <2>1. Fed(sh, bytes) = CHOOSE f : Is(f, N)
    BY DEF Fed
  <2> HIDE DEF Is
  <2> QED
    BY <1>2, <2>1
<1> HIDE DEF N
<1>4. 0 \in 0..N /\ \A n \in 1..N : n \in 0..N /\ n # 0
  BY <1>0
<1>5. Fed(sh, bytes)[0] = sh /\ \A n \in 1..N : Fed(sh, bytes)[n] = take(Fed(sh, bytes)[n - 1], bytes[n])
  <2> DEFINE F == Fed(sh, bytes)
  <2>1. F = [k \in 0..N |-> IF k = 0 THEN sh ELSE take(F[k - 1], bytes[k])]
    BY <1>3
  <2> HIDE DEF F
  <2>2. F[0] = sh /\ \A n \in 1..N : F[n] = take(F[n - 1], bytes[n])
    BY <1>4, <2>1
  <2> QED
    BY <2>2 DEF F
<1> QED
  BY <1>5 DEF N

\* What comes later does not change what was shown: a longer stream agrees on its beginning.
LEMMA FedAgrees ==
  ASSUME NEW sh, NEW s, NEW t, Len(s) \in Nat, Len(t) \in Nat, Len(s) <= Len(t),
         \A n \in 1..Len(s) : t[n] = s[n]
  PROVE  Fed(sh, t)[Len(s)] = Fed(sh, s)[Len(s)]
<1> DEFINE D == {n \in 0..Len(s) : Fed(sh, t)[n] # Fed(sh, s)[n]}
<1>1. 0 \notin D
  BY FedIs
<1>2. ASSUME NEW n \in D, n # 0 PROVE n - 1 \in D
  <2>1. n \in 1..Len(s) /\ n \in 1..Len(t) /\ n - 1 \in 0..Len(s)
    BY <1>2
  <2>2. Fed(sh, t)[n] = take(Fed(sh, t)[n - 1], t[n]) /\ Fed(sh, s)[n] = take(Fed(sh, s)[n - 1], s[n]) /\ t[n] = s[n]
    BY <2>1, FedIs
  <2> QED
    BY <1>2, <2>1, <2>2
<1> HIDE DEF D
<1>3. D \in SUBSET (0..Len(s))
  BY DEF D
<1>4. D = {}
  BY <1>1, <1>2, <1>3, NoneUpTo
<1>5. Len(s) \in 0..Len(s)
  OBVIOUS
<1> QED
  BY <1>4, <1>5 DEF D

ScannerRecord ==
  [state : {"Ground", "Escape", "Csi", "Ignore"}, expect : {0, 1}, run : BOOLEAN,
   kind : {"none", "text", "tail", "control", "seq", "bad"}]
AllBytes == {"a", "[", "ESC", "CR", "LF", "BS", "lead", "cont"}

\* A shaper is what it is made of.
Shaped(sh) ==
  /\ sh.scanner \in ScannerRecord
  /\ sh = [scanner |-> sh.scanner, line |-> sh.line, cursor |-> sh.cursor, ring |-> sh.ring,
           truncated |-> sh.truncated, dropped |-> sh.dropped, finished |-> sh.finished]

\* Two shapers that show the same...
SameShown(x, y) ==
  /\ x.line = y.line /\ x.cursor = y.cursor /\ x.ring = y.ring /\ x.truncated = y.truncated
  /\ x.dropped = y.dropped /\ x.finished = y.finished

\* ...and that are at the same point of their text, except that the one whose reads were
\* cut may not know that it is inside a run.
SamePoint(p, q) ==
  /\ p.state = q.state /\ p.expect = q.expect /\ p.kind = q.kind /\ (p.run = q.run \/ p.run = FALSE)

\* A continuation byte is owed only right after its lead byte, outside any sequence.
OwedAfter(p, b) == p.expect # 0 => p.state = "Ground" /\ b = "lead"

\* One byte of a stream whose scalars are whole takes scanners at the same point to the
\* same point: the run is looked at only when a byte is owed, and then that byte comes.
LEMMA ScanSame ==
  ASSUME NEW p \in ScannerRecord, NEW q \in ScannerRecord, SamePoint(p, q), NEW b \in AllBytes,
         p.expect # 0 => p.state = "Ground" /\ b = "cont"
  PROVE  /\ Scan(p, b) \in ScannerRecord /\ Scan(q, b) \in ScannerRecord
         /\ SamePoint(Scan(p, b), Scan(q, b)) /\ OwedAfter(Scan(p, b), b)
<1>0. /\ p.state \in {"Ground", "Escape", "Csi", "Ignore"} /\ p.expect \in {0, 1} /\ p.run \in BOOLEAN /\ q.run \in BOOLEAN
      /\ q.state = p.state /\ q.expect = p.expect /\ q.kind = p.kind
  BY DEF SamePoint, ScannerRecord
<1>1. CASE p.state = "Ground" /\ p.expect = 0
  <2>0. p.expect = 0 /\ q.expect = 0
    BY <1>0, <1>1
  <2>1. \E g \in ScannerRecord : Ground(p, b) = g /\ Ground(q, b) = g /\ OwedAfter(g, b)
    <3>1. CASE b \in {"a", "[", "LF"}
      <4> DEFINE g == [state |-> "Ground", expect |-> 0, run |-> TRUE, kind |-> "text"]
      <4>1. Ground(p, b) = g /\ Ground(q, b) = g
        BY <2>0, <3>1 DEF Ground
      <4>2. g \in ScannerRecord /\ OwedAfter(g, b)
        BY <3>1 DEF ScannerRecord, OwedAfter
      <4> QED
        BY <4>1, <4>2
    <3>2. CASE b = "lead"
      <4> DEFINE g == [state |-> "Ground", expect |-> 1, run |-> TRUE, kind |-> "text"]
      <4>1. Ground(p, b) = g /\ Ground(q, b) = g
        BY <2>0, <3>2 DEF Ground
      <4>2. g \in ScannerRecord /\ OwedAfter(g, b)
        BY <3>2 DEF ScannerRecord, OwedAfter
      <4> QED
        BY <4>1, <4>2
    <3>3. CASE b = "ESC"
      <4> DEFINE g == [state |-> "Escape", expect |-> 0, run |-> FALSE, kind |-> "none"]
      <4>1. Ground(p, b) = g /\ Ground(q, b) = g
        BY <2>0, <3>3 DEF Ground
      <4>2. g \in ScannerRecord /\ OwedAfter(g, b)
        BY <3>3 DEF ScannerRecord, OwedAfter
      <4> QED
        BY <4>1, <4>2
    <3>4. CASE b = "cont"
      <4> DEFINE g == [state |-> "Csi", expect |-> 0, run |-> FALSE, kind |-> "none"]
      <4>1. Ground(p, b) = g /\ Ground(q, b) = g
        BY <2>0, <3>4 DEF Ground
      <4>2. g \in ScannerRecord /\ OwedAfter(g, b)
        BY <3>4 DEF ScannerRecord, OwedAfter
      <4> QED
        BY <4>1, <4>2
    <3>5. CASE b \in {"CR", "BS"}
      <4> DEFINE g == [state |-> "Ground", expect |-> 0, run |-> FALSE, kind |-> "control"]
      <4>1. Ground(p, b) = g /\ Ground(q, b) = g
        BY <2>0, <3>5 DEF Ground
      <4>2. g \in ScannerRecord /\ OwedAfter(g, b)
        BY <3>5 DEF ScannerRecord, OwedAfter
      <4> QED
        BY <4>1, <4>2
    <3> QED
      BY <3>1, <3>2, <3>3, <3>4, <3>5 DEF AllBytes
  <2>2. Scan(p, b) = Ground(p, b) /\ Scan(q, b) = Ground(q, b)
    BY <1>0, <1>1 DEF Scan
  <2> QED
    BY <2>1, <2>2 DEF SamePoint
<1>2. CASE p.state = "Ground" /\ p.expect = 1
  <2>1. b = "cont"
    BY <1>2
  <2>2. Scan(p, b) = Ground(p, b) /\ Scan(q, b) = Ground(q, b)
    BY <1>0, <1>2 DEF Scan
  <2>3. ASSUME NEW r \in ScannerRecord, r.expect = 1
        PROVE  Ground(r, b) = [state |-> "Ground", expect |-> 0, run |-> TRUE, kind |-> "tail"]
    BY <2>1, <2>3 DEF Ground
  <2>4. Ground(q, b) = [state |-> "Ground", expect |-> 0, run |-> TRUE, kind |-> "tail"]
        /\ Ground(p, b) = [state |-> "Ground", expect |-> 0, run |-> TRUE, kind |-> "tail"]
    BY <1>0, <1>2, <2>3
  <2> QED
    BY <2>2, <2>4 DEF SamePoint, ScannerRecord, OwedAfter
<1>3. CASE p.state # "Ground"
  <2>0. p.expect = 0 /\ q.expect = 0
    BY <1>0, <1>3
  <2>1. CASE Scan(p, b) = p /\ Scan(q, b) = q
    BY <2>0, <2>1 DEF OwedAfter
  <2>2. CASE \E st \in {"Ground", "Csi", "Ignore"}, k \in {"none", "seq", "bad"} :
               Scan(p, b) = [p EXCEPT !.state = st, !.kind = k] /\ Scan(q, b) = [q EXCEPT !.state = st, !.kind = k]
    <3>1. PICK st \in {"Ground", "Csi", "Ignore"}, k \in {"none", "seq", "bad"} :
               Scan(p, b) = [p EXCEPT !.state = st, !.kind = k] /\ Scan(q, b) = [q EXCEPT !.state = st, !.kind = k]
      BY <2>2
    <3>2. ASSUME NEW r \in ScannerRecord
          PROVE  /\ [r EXCEPT !.state = st, !.kind = k] \in ScannerRecord
                 /\ [r EXCEPT !.state = st, !.kind = k].state = st /\ [r EXCEPT !.state = st, !.kind = k].kind = k
                 /\ [r EXCEPT !.state = st, !.kind = k].expect = r.expect /\ [r EXCEPT !.state = st, !.kind = k].run = r.run
      BY DEF ScannerRecord
    <3> QED
      BY <2>0, <3>1, <3>2 DEF SamePoint, OwedAfter
  <2>3. \/ Scan(p, b) = p /\ Scan(q, b) = q
        \/ \E st \in {"Ground", "Csi", "Ignore"}, k \in {"none", "seq", "bad"} :
               Scan(p, b) = [p EXCEPT !.state = st, !.kind = k] /\ Scan(q, b) = [q EXCEPT !.state = st, !.kind = k]
    <3>1. CASE p.state = "Escape"
      <4>1. CASE b = "["
        BY <1>0, <3>1, <4>1 DEF Scan
      <4>2. CASE b # "["
        BY <1>0, <3>1, <4>2 DEF Scan
      <4> QED
        BY <4>1, <4>2
    <3>2. CASE p.state = "Csi"
      <4>1. CASE FinalByte(b)
        BY <1>0, <3>2, <4>1 DEF Scan
      <4>2. CASE ~FinalByte(b)
        BY <1>0, <3>2, <4>2 DEF Scan
      <4> QED
        BY <4>1, <4>2
    <3>3. CASE p.state = "Ignore"
      <4>1. CASE FinalByte(b)
        BY <1>0, <3>3, <4>1 DEF Scan
      <4>2. CASE ~FinalByte(b)
        BY <1>0, <3>3, <4>2 DEF Scan
      <4> QED
        BY <4>1, <4>2
    <3> QED
      BY <1>0, <1>3, <3>1, <3>2, <3>3
  <2> QED
    BY <2>1, <2>2, <2>3
<1> QED
  BY <1>0, <1>1, <1>2, <1>3

\* The line, the ring and the counters a commit leaves are made of those there were; the
\* scanner stays.
LEMMA CommitSame ==
  ASSUME NEW x, NEW y, Shaped(x), Shaped(y), SameShown(x, y)
  PROVE  /\ Shaped(commit_open_line(x)) /\ Shaped(commit_open_line(y))
         /\ SameShown(commit_open_line(x), commit_open_line(y))
         /\ commit_open_line(x).scanner = x.scanner /\ commit_open_line(y).scanner = y.scanner
         /\ commit_open_line(x).finished = x.finished
<1> DEFINE plan == plan_truncate(x.line)
           kept == SubSeq(x.line, 1, plan.prefix)
           cut(n) == IF plan.cut THEN n + 1 ELSE n
           full == Len(x.ring) = MaxLines
           Is(z, c) == c = [scanner |-> z.scanner, line |-> <<>>, cursor |-> 0,
                  ring |-> IF x.line = <<>> \/ MaxLines = 0 THEN x.ring
                           ELSE IF full THEN Append(Tail(x.ring), kept) ELSE Append(x.ring, kept),
                  truncated |-> IF x.line = <<>> THEN x.truncated ELSE cut(x.truncated),
                  dropped |-> IF x.line # <<>> /\ (MaxLines = 0 \/ full) THEN x.dropped + 1 ELSE x.dropped,
                  finished |-> x.finished]
<1>1. ASSUME NEW z, Shaped(z), SameShown(x, z) PROVE Is(z, commit_open_line(z))
  <2>1. PICK sc, ln, cu, ri, tr, dr, fi :
          z = [scanner |-> sc, line |-> ln, cursor |-> cu, ring |-> ri, truncated |-> tr, dropped |-> dr, finished |-> fi]
    BY <1>1 DEF Shaped
  <2>2. sc = z.scanner /\ ln = x.line /\ cu = x.cursor /\ ri = x.ring /\ tr = x.truncated /\ dr = x.dropped /\ fi = x.finished
    BY <1>1, <2>1 DEF SameShown
  <2>3. CASE x.line = <<>>
    BY <2>1, <2>2, <2>3 DEF commit_open_line
  <2>4. CASE x.line # <<>> /\ MaxLines = 0
    BY <2>1, <2>2, <2>4 DEF commit_open_line
  <2>5. CASE x.line # <<>> /\ MaxLines # 0 /\ full
    BY <2>1, <2>2, <2>5 DEF commit_open_line
  <2>6. CASE x.line # <<>> /\ MaxLines # 0 /\ ~full
    BY <2>1, <2>2, <2>6 DEF commit_open_line
  <2> QED
    BY <2>3, <2>4, <2>5, <2>6
<1>2. Is(x, commit_open_line(x)) /\ Is(y, commit_open_line(y))
  BY <1>1 DEF SameShown
<1> DEFINE cx == commit_open_line(x)
           cy == commit_open_line(y)
<1> HIDE DEF plan, kept, cut, full, cx, cy
<1>3. Shaped(cx) /\ Shaped(cy) /\ SameShown(cx, cy) /\ cx.scanner = x.scanner /\ cy.scanner = y.scanner /\ cx.finished = x.finished
  BY <1>2 DEF Shaped, SameShown, cx, cy
<1> QED
  BY <1>3 DEF cx, cy
\* So does a byte applied: a commit, a write at the cursor, or a move of it.
LEMMA ApplySame ==
  ASSUME NEW x, NEW y, Shaped(x), Shaped(y), SameShown(x, y), x.scanner.kind = y.scanner.kind, NEW b
  PROVE  /\ Shaped(apply(x, b)) /\ Shaped(apply(y, b)) /\ SameShown(apply(x, b), apply(y, b))
         /\ apply(x, b).scanner = x.scanner /\ apply(y, b).scanner = y.scanner
         /\ apply(x, b).finished = x.finished
<1>0. x.scanner.kind \in {"none", "text", "tail", "control", "seq", "bad"}
  BY DEF Shaped, ScannerRecord
<1>1. CASE x.scanner.kind \in {"text", "tail"} /\ b = "LF"
  <2>1. apply(x, b) = commit_open_line(x) /\ apply(y, b) = commit_open_line(y)
    BY <1>1 DEF apply
  <2> QED
    BY <2>1, CommitSame
<1>2. CASE x.scanner.kind \in {"text", "tail"} /\ b # "LF"
  <2>1. apply(x, b) = write_at_cursor(x, b) /\ apply(y, b) = write_at_cursor(y, b)
    BY <1>2 DEF apply
  <2> DEFINE ln == IF x.cursor = Len(x.line) THEN Append(x.line, b) ELSE [x.line EXCEPT ![x.cursor + 1] = b]
             cu == x.cursor + 1
  <2>2. ASSUME NEW z, Shaped(z), SameShown(x, z)
        PROVE  write_at_cursor(z, b) = [scanner |-> z.scanner, line |-> ln, cursor |-> cu, ring |-> x.ring,
                 truncated |-> x.truncated, dropped |-> x.dropped, finished |-> x.finished]
    <3>1. PICK sc, l, cr, ri, tr, dr, fi :
            z = [scanner |-> sc, line |-> l, cursor |-> cr, ring |-> ri, truncated |-> tr, dropped |-> dr, finished |-> fi]
      BY <2>2 DEF Shaped
    <3>2. sc = z.scanner /\ l = x.line /\ cr = x.cursor /\ ri = x.ring /\ tr = x.truncated /\ dr = x.dropped /\ fi = x.finished
      BY <2>2, <3>1 DEF SameShown
    <3>3. z.line = x.line /\ z.cursor = x.cursor
      BY <2>2 DEF SameShown
    <3>4. write_at_cursor(z, b) = [z EXCEPT !.line = ln, !.cursor = cu]
      BY <3>3 DEF write_at_cursor
    <3> HIDE DEF ln, cu
    <3> QED
      BY <3>1, <3>2, <3>4
  <2> HIDE DEF ln, cu
  <2>3. SameShown(x, x)
    BY DEF SameShown
  <2>4. /\ write_at_cursor(x, b) = [scanner |-> x.scanner, line |-> ln, cursor |-> cu, ring |-> x.ring,
              truncated |-> x.truncated, dropped |-> x.dropped, finished |-> x.finished]
        /\ write_at_cursor(y, b) = [scanner |-> y.scanner, line |-> ln, cursor |-> cu, ring |-> x.ring,
              truncated |-> x.truncated, dropped |-> x.dropped, finished |-> x.finished]
    BY <2>2, <2>3
  <2> QED
    BY <2>1, <2>4 DEF Shaped, SameShown
<1>3. CASE x.scanner.kind = "control"
  <2> DEFINE cu == IF b = "CR" \/ x.cursor = 0 THEN 0 ELSE x.cursor - 1
  <2>2. ASSUME NEW z, Shaped(z), SameShown(x, z), z.scanner.kind = "control"
        PROVE  apply(z, b) = [scanner |-> z.scanner, line |-> x.line, cursor |-> cu, ring |-> x.ring,
                 truncated |-> x.truncated, dropped |-> x.dropped, finished |-> x.finished]
    <3>1. PICK sc, l, cr, ri, tr, dr, fi :
            z = [scanner |-> sc, line |-> l, cursor |-> cr, ring |-> ri, truncated |-> tr, dropped |-> dr, finished |-> fi]
      BY <2>2 DEF Shaped
    <3>2. sc = z.scanner /\ l = x.line /\ cr = x.cursor /\ ri = x.ring /\ tr = x.truncated /\ dr = x.dropped /\ fi = x.finished
      BY <2>2, <3>1 DEF SameShown
    <3>3. apply(z, b) = [z EXCEPT !.cursor = cu]
      BY <2>2, <3>1, <3>2 DEF apply
    <3> HIDE DEF cu
    <3> QED
      BY <3>1, <3>2, <3>3
  <2> HIDE DEF cu
  <2>3. SameShown(x, x)
    BY DEF SameShown
  <2>4. /\ apply(x, b) = [scanner |-> x.scanner, line |-> x.line, cursor |-> cu, ring |-> x.ring,
              truncated |-> x.truncated, dropped |-> x.dropped, finished |-> x.finished]
        /\ apply(y, b) = [scanner |-> y.scanner, line |-> x.line, cursor |-> cu, ring |-> x.ring,
              truncated |-> x.truncated, dropped |-> x.dropped, finished |-> x.finished]
    BY <1>3, <2>2, <2>3
  <2> QED
    BY <2>4 DEF Shaped, SameShown
<1>4. CASE x.scanner.kind \in {"none", "seq", "bad"}
  <2>1. apply(x, b) = x /\ apply(y, b) = y
    BY <1>4 DEF apply
  <2> QED
    BY <2>1
<1> QED
  BY <1>0, <1>1, <1>2, <1>3, <1>4

\* Two shapers that show the same, at the same point of their text, no later cut short.
Related(x, y) ==
  /\ Shaped(x) /\ Shaped(y) /\ SameShown(x, y) /\ SamePoint(x.scanner, y.scanner)
  /\ x.finished = FALSE

\* One byte of a stream whose scalars are whole keeps two shapers showing the same.
LEMMA TakeSame ==
  ASSUME NEW x, NEW y, Related(x, y), NEW b \in AllBytes,
         x.scanner.expect # 0 => x.scanner.state = "Ground" /\ b = "cont"
  PROVE  Related(take(x, b), take(y, b)) /\ OwedAfter(take(x, b).scanner, b)
<1> DEFINE p == Scan(x.scanner, b)
           q == Scan(y.scanner, b)
           u == [x EXCEPT !.scanner = p]
           v == [y EXCEPT !.scanner = q]
<1>1. /\ p \in ScannerRecord /\ q \in ScannerRecord /\ SamePoint(p, q) /\ OwedAfter(p, b)
  BY ScanSame DEF Related, Shaped
<1>2. take(x, b) = apply(u, b) /\ take(y, b) = apply(v, b)
  <2>1. x.scanner = x.scanner
    OBVIOUS
  <2> QED
    BY DEF take
<1> HIDE DEF p, q
<1>3. ASSUME NEW z, Shaped(z), NEW sc \in ScannerRecord
      PROVE  /\ Shaped([z EXCEPT !.scanner = sc]) /\ [z EXCEPT !.scanner = sc].scanner = sc
             /\ SameShown(z, [z EXCEPT !.scanner = sc])
  <2>1. PICK s0, l, cr, ri, tr, dr, fi :
          z = [scanner |-> s0, line |-> l, cursor |-> cr, ring |-> ri, truncated |-> tr, dropped |-> dr, finished |-> fi]
    BY <1>3 DEF Shaped
  <2>2. [z EXCEPT !.scanner = sc] =
          [scanner |-> sc, line |-> l, cursor |-> cr, ring |-> ri, truncated |-> tr, dropped |-> dr, finished |-> fi]
    BY <2>1
  <2> QED
    BY <1>3, <2>1, <2>2 DEF Shaped, SameShown
<1>4. /\ Shaped(u) /\ u.scanner = p /\ SameShown(x, u) /\ Shaped(v) /\ v.scanner = q /\ SameShown(y, v)
  BY <1>1, <1>3 DEF Related
<1> HIDE DEF u, v
<1>5. SameShown(u, v) /\ u.scanner.kind = v.scanner.kind /\ u.finished = FALSE
  BY <1>1, <1>4 DEF Related, SameShown, SamePoint
<1>6. /\ Shaped(apply(u, b)) /\ Shaped(apply(v, b)) /\ SameShown(apply(u, b), apply(v, b))
      /\ apply(u, b).scanner = p /\ apply(v, b).scanner = q /\ apply(u, b).finished = FALSE
  BY <1>4, <1>5, ApplySame
<1> QED
  BY <1>1, <1>2, <1>6 DEF Related

\* What was shown of a stream, read at once.
Shown(s) == Fed([NewShaper EXCEPT !.scanner.run = FALSE], s)[Len(s)]

\* What the reads so far showed is what one read of all of them shows.
AsOneRead(sh, s) ==
  /\ Related(sh, Shown(s))
  /\ sh.scanner.expect # 0 => sh.scanner.state = "Ground" /\ Len(s) > 0 /\ s[Len(s)] = "lead"
WholeScalars(s) == \A i \in 1..Len(s) - 1 : s[i] = "lead" => s[i + 1] = "cont"

\* One more read keeps it so, whatever it was cut to.
LEMMA ReadSame ==
  ASSUME NEW s \in Seq(AllBytes), NEW n \in Nat, NEW c \in [1..n -> AllBytes],
         WholeScalars(s \o c), NEW x, AsOneRead(x, s)
  PROVE  AsOneRead(Fed([x EXCEPT !.scanner.run = FALSE], c)[Len(c)], s \o c)
<1> DEFINE t == s \o c
           L == Len(s)
           x0 == [x EXCEPT !.scanner.run = FALSE]
           one == [NewShaper EXCEPT !.scanner.run = FALSE]
<1>0. /\ c \in Seq(AllBytes) /\ Len(c) = n /\ L \in Nat /\ t \in Seq(AllBytes) /\ Len(t) = L + n
      /\ \A i \in 1..L : t[i] = s[i]
      /\ \A k \in 1..n : L + k \in 1..Len(t) /\ t[L + k] = c[k] /\ c[k] \in AllBytes
  <2>1. c \in Seq(AllBytes) /\ Len(c) = n
    OBVIOUS
  <2>2. t \in Seq(AllBytes) /\ Len(t) = L + n /\ L \in Nat
    BY <2>1
  <2>3. \A i \in 1..L + n : t[i] = IF i <= L THEN s[i] ELSE c[i - L]
    BY <2>1
  <2> HIDE DEF t
  <2> QED
    BY <2>1, <2>2, <2>3
<1> DEFINE F(k) == Fed(x0, c)[k]
           G(k) == Fed(one, t)[L + k]
           Rel(k) == /\ Related(F(k), G(k))
                     /\ F(k).scanner.expect # 0 => F(k).scanner.state = "Ground" /\ L + k > 0 /\ t[L + k] = "lead"
           D == {k \in 0..n : ~Rel(k)}
<1>1. WholeScalars(t)
  OBVIOUS
<1> HIDE DEF t
<1>2. G(0) = Shown(s) /\ F(0) = x0
  <2>1. Fed(one, t)[L] = Fed(one, s)[L]
    BY <1>0, FedAgrees
  <2>2. F(0) = x0
    BY <1>0, FedIs
  <2>3. L + 0 = L
    BY <1>0
  <2> QED
    BY <2>1, <2>2, <2>3 DEF Shown
<1>3. /\ Related(x0, Shown(s)) /\ x0.scanner.expect = x.scanner.expect /\ x0.scanner.state = x.scanner.state
  <2>1. PICK sc, l, cr, ri, tr, dr, fi :
          x = [scanner |-> sc, line |-> l, cursor |-> cr, ring |-> ri, truncated |-> tr, dropped |-> dr, finished |-> fi]
    BY DEF AsOneRead, Related, Shaped
  <2>2. sc \in ScannerRecord /\ x.scanner = sc
    BY <2>1 DEF AsOneRead, Related, Shaped
  <2> DEFINE sd == [sc EXCEPT !.run = FALSE]
  <2>3. sd \in ScannerRecord /\ sd.run = FALSE /\ sd.state = sc.state /\ sd.expect = sc.expect /\ sd.kind = sc.kind
    BY <2>2 DEF ScannerRecord
  <2>4. x0 = [scanner |-> sd, line |-> l, cursor |-> cr, ring |-> ri, truncated |-> tr, dropped |-> dr, finished |-> fi]
    <3>1. x0 = [x EXCEPT !.scanner = [x.scanner EXCEPT !.run = FALSE]]
      BY <2>1
    <3>2. x0 = [x EXCEPT !.scanner = sd]
      BY <2>2, <3>1
    <3> HIDE DEF x0, sd
    <3> QED
      BY <2>1, <3>2
  <2> HIDE DEF sd, x0
  <2>5. Shaped(x0) /\ x0.scanner = sd /\ x0.line = x.line /\ x0.cursor = x.cursor /\ x0.ring = x.ring
        /\ x0.truncated = x.truncated /\ x0.dropped = x.dropped /\ x0.finished = x.finished
    BY <2>1, <2>3, <2>4 DEF Shaped
  <2>6. Shaped(Shown(s)) /\ SameShown(x, Shown(s)) /\ SamePoint(sc, Shown(s).scanner) /\ x.finished = FALSE
    BY <2>2 DEF AsOneRead, Related
  <2>7. SameShown(x0, Shown(s)) /\ SamePoint(sd, Shown(s).scanner)
    BY <2>3, <2>5, <2>6 DEF SameShown, SamePoint
  <2> QED
    BY <2>2, <2>3, <2>5, <2>6, <2>7 DEF Related
<1>4. 0 \notin D
  <2>1. Rel(0)
    <3>1. L + 0 = L /\ (L > 0 => L \in 1..L)
      BY <1>0
    <3>2. x.scanner.expect # 0 => x.scanner.state = "Ground" /\ L > 0 /\ t[L] = "lead"
      BY <1>0, <3>1 DEF AsOneRead
    <3> HIDE DEF x0, F, G
    <3> QED
      BY <1>2, <1>3, <3>1, <3>2
  <2> QED
    BY <2>1
<1>5. ASSUME NEW k \in D, k # 0 PROVE k - 1 \in D
  <2> SUFFICES ASSUME Rel(k - 1) PROVE Rel(k)
    <3>1. k \in 0..n /\ k - 1 \in 0..n /\ ~Rel(k)
      BY <1>5
    <3> HIDE DEF Rel
    <3> QED
      BY <3>1
  <2>0. k \in 1..n /\ L + k \in 1..Len(t) /\ L + k \in Nat /\ L + (k - 1) = (L + k) - 1 /\ L + k > 0
    BY <1>0, <1>5
  <2>1. F(k) = take(F(k - 1), c[k])
    <3>1. Len(c) \in Nat /\ k \in 1..Len(c)
      BY <1>0, <2>0
    <3> QED
      BY <3>1, FedIs
  <2>2. G(k) = take(G(k - 1), t[L + k])
    <3>1. Fed(one, t)[L + k] = take(Fed(one, t)[(L + k) - 1], t[L + k])
      <4>1. Len(t) \in Nat
        BY <1>0
      <4> QED
        BY <2>0, <4>1, FedIs
    <3> QED
      BY <2>0, <3>1
  <2>3. t[L + k] = c[k] /\ c[k] \in AllBytes
    BY <1>0, <2>0
  <2> HIDE DEF F, G
  <2>4. F(k - 1).scanner.expect # 0 => F(k - 1).scanner.state = "Ground" /\ c[k] = "cont"
    <3> SUFFICES ASSUME F(k - 1).scanner.expect # 0
                 PROVE  F(k - 1).scanner.state = "Ground" /\ c[k] = "cont"
      OBVIOUS
    <3>1. F(k - 1).scanner.state = "Ground" /\ L + (k - 1) > 0 /\ t[L + (k - 1)] = "lead"
      OBVIOUS
    <3>2. PICK i : i = L + (k - 1)
      OBVIOUS
    <3>3. i \in 1..Len(t) - 1 /\ i + 1 = L + k /\ t[i] = "lead"
      BY <1>0, <2>0, <3>1, <3>2
    <3>4. t[i + 1] = "cont"
      BY <1>1, <3>3 DEF WholeScalars
    <3> QED
      BY <2>3, <3>1, <3>3, <3>4
  <2>5. Related(F(k - 1), G(k - 1))
    OBVIOUS
  <2>6. Related(take(F(k - 1), c[k]), take(G(k - 1), c[k])) /\ OwedAfter(take(F(k - 1), c[k]).scanner, c[k])
    BY <2>3, <2>4, <2>5, TakeSame
  <2>7. Related(F(k), G(k)) /\ OwedAfter(F(k).scanner, c[k])
    BY <2>1, <2>2, <2>3, <2>6
  <2> QED
    BY <2>0, <2>3, <2>7 DEF OwedAfter
<1>6. D \in SUBSET (0..n)
  OBVIOUS
<1>7. D = {}
  <2> HIDE DEF D
  <2> QED
    BY <1>4, <1>5, <1>6, NoneUpTo
<1>8. Rel(n)
  <2>1. n \in 0..n
    OBVIOUS
  <2> HIDE DEF Rel
  <2> QED
    BY <1>7, <2>1
<1>9. AsOneRead(F(n), t)
  <2>1. G(n) = Shown(t)
    BY <1>0 DEF Shown
  <2> HIDE DEF F, G
  <2>2. Len(t) = L + n
    BY <1>0
  <2> QED
    BY <1>8, <2>1, <2>2 DEF AsOneRead
<1> QED
  BY <1>0, <1>9 DEF t

\* What is on the screen is what one read of the same stream would have put there; once the
\* output has ended, what ending it would.
ShaperInv ==
  /\ stream \in Seq(AllBytes)
  /\ WellFormed => IF shaper.finished THEN SameShown(shaper, finish(Shown(stream)))
                   ELSE AsOneRead(shaper, stream)

\* The bytes a child may write are bytes, and reads have lengths.
LEMMA ShaperBytes == Bytes \subseteq AllBytes /\ MaxRead \in Nat
BY ShaperAssumption DEF AllBytes

\* A shaper's end, set.
LEMMA FinishedIs ==
  ASSUME NEW sc, NEW l, NEW cr, NEW ri, NEW tr, NEW dr, NEW fi, NEW s2, NEW f2
  PROVE  [[scanner |-> sc, line |-> l, cursor |-> cr, ring |-> ri, truncated |-> tr, dropped |-> dr, finished |-> fi]
               EXCEPT !.finished = f2]
         = [scanner |-> sc, line |-> l, cursor |-> cr, ring |-> ri, truncated |-> tr, dropped |-> dr, finished |-> f2]
OBVIOUS

\* A shaper's scanner, set.
LEMMA ScannedIs ==
  ASSUME NEW sc, NEW l, NEW cr, NEW ri, NEW tr, NEW dr, NEW fi, NEW s2, NEW f2
  PROVE  [[scanner |-> sc, line |-> l, cursor |-> cr, ring |-> ri, truncated |-> tr, dropped |-> dr, finished |-> fi]
               EXCEPT !.scanner = s2]
         = [scanner |-> s2, line |-> l, cursor |-> cr, ring |-> ri, truncated |-> tr, dropped |-> dr, finished |-> fi]
OBVIOUS

\* A scanner's run, set.
LEMMA RunSet ==
  ASSUME NEW st, NEW ex, NEW ru, NEW ki, NEW r2
  PROVE  [[state |-> st, expect |-> ex, run |-> ru, kind |-> ki] EXCEPT !.run = r2]
           = [state |-> st, expect |-> ex, run |-> r2, kind |-> ki]
OBVIOUS

\* Nothing is shown of an empty stream.
LEMMA ShaperBegins == ShaperInit => ShaperInv
<1> SUFFICES ASSUME ShaperInit PROVE ShaperInv
  OBVIOUS
<1>1. stream = <<>> /\ shaper = NewShaper /\ shaper.finished = FALSE
  BY DEF ShaperInit, NewShaper
<1>2. [NewShaper EXCEPT !.scanner.run = FALSE] = NewShaper
  <2>1. [NewShaper EXCEPT !.scanner.run = FALSE] = [NewShaper EXCEPT !.scanner = [NewShaper.scanner EXCEPT !.run = FALSE]]
    BY DEF NewShaper
  <2>2. [NewScanner EXCEPT !.run = FALSE] = NewScanner
    <3>1. PICK f : f = FALSE
      OBVIOUS
    <3>2. NewScanner = [state |-> "Ground", expect |-> 0, run |-> f, kind |-> "none"]
      BY <3>1, Zenon DEF NewScanner
    <3>3. [NewScanner EXCEPT !.run = f] = NewScanner
      BY ONLY <3>2, RunSet
    <3> QED
      BY <3>1, <3>3, Zenon
  <2>3. NewShaper.scanner = NewScanner
    BY DEF NewShaper
  <2>4. [NewShaper EXCEPT !.scanner = NewScanner] = NewShaper
    <3>1. PICK f : f = FALSE
      OBVIOUS
    <3>2. NewShaper = [scanner |-> NewScanner, line |-> <<>>, cursor |-> 0, ring |-> <<>>, truncated |-> 0,
                       dropped |-> 0, finished |-> f]
      BY <3>1, Zenon DEF NewShaper
    <3> QED
      BY ONLY <3>2, ScannedIs
  <2> QED
    BY <2>1, <2>2, <2>3, <2>4
<1>3. Shown(<<>>) = NewShaper
  <2>1. Len(<<>>) = 0
    OBVIOUS
  <2>2. Fed(NewShaper, <<>>)[0] = NewShaper
    BY <2>1, FedIs
  <2> QED
    BY <1>2, <2>1, <2>2 DEF Shown
<1>4. /\ NewShaper.scanner = NewScanner /\ NewScanner \in ScannerRecord /\ NewScanner.expect = 0
      /\ NewShaper.finished = FALSE /\ Shaped(NewShaper)
  BY DEF NewShaper, NewScanner, ScannerRecord, Shaped
<1>5. AsOneRead(NewShaper, <<>>)
  BY <1>3, <1>4 DEF AsOneRead, Related, SameShown, SamePoint
<1> QED
  BY <1>1, <1>5 DEF ShaperInv

\* The shaper's invariant is inductive.
LEMMA ShaperInvKept == ShaperInv /\ [ShaperNext]_shaperVars => ShaperInv'
<1> SUFFICES ASSUME ShaperInv, [ShaperNext]_shaperVars PROVE ShaperInv'
  OBVIOUS
<1>1. CASE UNCHANGED shaperVars
  BY <1>1 DEF shaperVars, ShaperInv, WellFormed
<1>2. CASE Finish
  <2>1. shaper.finished # TRUE /\ shaper' = finish(shaper) /\ stream' = stream /\ stream \in Seq(AllBytes)
    BY <1>2 DEF Finish, ShaperInv
  <2>2. WellFormed' = WellFormed
    BY <2>1 DEF WellFormed
  <2>3. ASSUME WellFormed PROVE SameShown(shaper', finish(Shown(stream))) /\ shaper'.finished = TRUE
    <3>1. AsOneRead(shaper, stream)
      BY <1>2, <2>3 DEF ShaperInv, Finish
    <3> DEFINE x == shaper
               y == Shown(stream)
               u == [x EXCEPT !.scanner = NewScanner, !.finished = TRUE]
               v == [y EXCEPT !.scanner = NewScanner, !.finished = TRUE]
    <3>2. Shaped(x) /\ Shaped(y) /\ SameShown(x, y)
      BY <3>1 DEF AsOneRead, Related
    <3>3. finish(x) = commit_open_line(u) /\ finish(y) = commit_open_line(v)
      BY DEF finish
    <3>4. ASSUME NEW z, Shaped(z), SameShown(x, z)
          PROVE  /\ Shaped([z EXCEPT !.scanner = NewScanner, !.finished = TRUE])
                 /\ SameShown([x EXCEPT !.finished = TRUE], [z EXCEPT !.scanner = NewScanner, !.finished = TRUE])
                 /\ [z EXCEPT !.scanner = NewScanner, !.finished = TRUE].finished = TRUE
      <4>1. PICK sc, l, cr, ri, tr, dr, fi :
              z = [scanner |-> sc, line |-> l, cursor |-> cr, ring |-> ri, truncated |-> tr, dropped |-> dr, finished |-> fi]
        BY <3>4 DEF Shaped
      <4>2. l = x.line /\ cr = x.cursor /\ ri = x.ring /\ tr = x.truncated /\ dr = x.dropped
        BY <3>4, <4>1 DEF SameShown
      <4>3. PICK sx, lx, cx, rx, tx, dx, fx :
              x = [scanner |-> sx, line |-> lx, cursor |-> cx, ring |-> rx, truncated |-> tx, dropped |-> dx, finished |-> fx]
        BY <3>2 DEF Shaped
      <4>4. NewScanner \in ScannerRecord
        BY DEF NewScanner, ScannerRecord
      <4>0. PICK f : f = TRUE
        OBVIOUS
      <4>5. [z EXCEPT !.scanner = NewScanner, !.finished = TRUE] =
              [scanner |-> NewScanner, line |-> l, cursor |-> cr, ring |-> ri, truncated |-> tr, dropped |-> dr, finished |-> TRUE]
        <5>1. [z EXCEPT !.scanner = NewScanner, !.finished = f] =
              [scanner |-> NewScanner, line |-> l, cursor |-> cr, ring |-> ri, truncated |-> tr, dropped |-> dr, finished |-> f]
          <6> DEFINE u1 == [z EXCEPT !.scanner = NewScanner, !.finished = f]
          <6>1. DOMAIN z = {"scanner", "line", "cursor", "ring", "truncated", "dropped", "finished"}
            BY <4>1
          <6>2. u1 = [k \in DOMAIN z |-> IF k = "finished" THEN f ELSE IF k = "scanner" THEN NewScanner ELSE z[k]]
            BY <6>1
          <6> QED
            BY <4>1, <6>1, <6>2
        <5> QED
          BY <4>0, <5>1, Zenon
      <4>6. [x EXCEPT !.finished = TRUE] =
              [scanner |-> sx, line |-> lx, cursor |-> cx, ring |-> rx, truncated |-> tx, dropped |-> dx, finished |-> TRUE]
        <5>1. [x EXCEPT !.finished = f] =
              [scanner |-> sx, line |-> lx, cursor |-> cx, ring |-> rx, truncated |-> tx, dropped |-> dx, finished |-> f]
          BY ONLY <4>3, FinishedIs
        <5> QED
          BY <4>0, <5>1, Zenon
      <4>7. lx = x.line /\ cx = x.cursor /\ rx = x.ring /\ tx = x.truncated /\ dx = x.dropped
        BY <4>3
      <4> QED
        BY <4>2, <4>4, <4>5, <4>6, <4>7 DEF Shaped, SameShown
    <3>5. SameShown(x, x)
      BY DEF SameShown
    <3>6. Shaped(u) /\ Shaped(v) /\ SameShown(u, v) /\ u.finished = TRUE
      BY ZenonT(40), <3>2, <3>4, <3>5 DEF SameShown
    <3> HIDE DEF u, v
    <3>7. SameShown(commit_open_line(u), commit_open_line(v)) /\ commit_open_line(u).finished = TRUE
      BY <3>6, CommitSame
    <3> QED
      BY <2>1, <3>3, <3>7
  <2>4. WellFormed' => IF shaper'.finished THEN SameShown(shaper', finish(Shown(stream)))
                       ELSE AsOneRead(shaper', stream)
    BY <2>2, <2>3
  <2> QED
    BY <2>1, <2>4 DEF ShaperInv
<1>3. ASSUME NEW n \in 1..MaxRead, NEW chunk \in [1..n -> Bytes], Read(chunk) PROVE ShaperInv'
  <2>1. /\ shaper.finished # TRUE /\ shaper' = push(shaper, chunk) /\ stream' = stream \o chunk
        /\ stream \in Seq(AllBytes) /\ n \in Nat /\ chunk \in [1..n -> AllBytes]
    <3>1. shaper.finished # TRUE /\ shaper' = push(shaper, chunk) /\ stream' = stream \o chunk
      BY <1>3 DEF Read
    <3>2. stream \in Seq(AllBytes)
      BY DEF ShaperInv
    <3>3. chunk \in [1..n -> AllBytes]
      BY ONLY <1>3, ShaperBytes, chunk \in [1..n -> Bytes]
    <3>4. n \in Nat
      BY ShaperBytes
    <3> QED
      BY <3>1, <3>2, <3>3, <3>4
  <2>2. shaper' = Fed([shaper EXCEPT !.scanner.run = FALSE], chunk)[Len(chunk)]
    BY <1>3, <2>1 DEF push, Read
  <2>3. chunk \in Seq(AllBytes) /\ Len(chunk) = n
    BY <2>1
  <2>4. stream' \in Seq(AllBytes) /\ Len(stream') = Len(stream) + n /\ Len(stream) \in Nat
        /\ \A i \in 1..Len(stream) : stream'[i] = stream[i]
    BY <2>1, <2>3
  <2>5. ASSUME WellFormed' PROVE AsOneRead(shaper', stream') /\ shaper'.finished = FALSE
    <3>1. WholeScalars(stream \o chunk)
      BY <2>1, <2>5 DEF WholeScalars, WellFormed
    <3>2. WellFormed
      <4> SUFFICES ASSUME NEW i \in 1..Len(stream) - 1, stream[i] = "lead" PROVE stream[i + 1] = "cont"
        BY DEF WellFormed
      <4>1. i \in 1..Len(stream) /\ i + 1 \in 1..Len(stream) /\ i \in 1..Len(stream') - 1
        BY <2>1, <2>4
      <4>2. stream'[i] = "lead" => stream'[i + 1] = "cont"
        BY <2>5, <4>1 DEF WellFormed
      <4> QED
        BY <2>4, <4>1, <4>2
    <3>3. AsOneRead(shaper, stream)
      BY <1>3, <3>2 DEF ShaperInv, Read
    <3>4. AsOneRead(shaper', stream')
      BY <2>1, <2>2, <3>1, <3>3, ReadSame
    <3> QED
      BY <3>4 DEF AsOneRead, Related
  <2>6. WellFormed' => IF shaper'.finished THEN SameShown(shaper', finish(Shown(stream')))
                       ELSE AsOneRead(shaper', stream')
    BY <2>5
  <2> QED
    BY <2>4, <2>6 DEF ShaperInv
<1> QED
  BY <1>1, <1>2, <1>3 DEF ShaperNext

\* What the invariant says of the transcript.
LEMMA ShaperShows == ShaperInv => ChunksDoNotMatter
<1> SUFFICES ASSUME ShaperInv, WellFormed PROVE Transcript(shaper) = Transcript(InOneRead)
  BY DEF ChunksDoNotMatter
<1>1. push(NewShaper, stream) = Shown(stream)
  BY DEF push, Shown, NewShaper
<1>2. InOneRead = IF shaper.finished THEN finish(Shown(stream)) ELSE Shown(stream)
  BY <1>1 DEF InOneRead
<1>3. SameShown(shaper, InOneRead)
  BY <1>2 DEF ShaperInv, AsOneRead, Related
<1> QED
  BY <1>3 DEF SameShown, Transcript, suggests_prompt

\* A scanner stays one, whatever the byte.
LEMMA ScanTyped ==
  ASSUME NEW p \in ScannerRecord, NEW b \in AllBytes
  PROVE  Scan(p, b) \in ScannerRecord
<1>0. /\ p.state \in {"Ground", "Escape", "Csi", "Ignore"} /\ p.expect \in {0, 1} /\ p.run \in BOOLEAN
  BY DEF ScannerRecord
<1>1. CASE p.state = "Ground"
  <2> DEFINE owed == IF p.run /\ b # "cont" THEN 0 ELSE p.expect
  <2>1. owed \in {0, 1}
    BY <1>0
  <2>2. \E st \in {"Ground", "Escape", "Csi"}, e \in {0, 1}, r \in BOOLEAN, k \in {"text", "tail", "none", "control"} :
          Ground(p, b) = [state |-> st, expect |-> e, run |-> r, kind |-> k]
    <3> HIDE DEF owed
    <3>1. CASE b \in {"a", "[", "LF"}
      <4>1. Ground(p, b) = [state |-> "Ground", expect |-> 0, run |-> TRUE, kind |-> "text"]
        BY <3>1 DEF Ground
      <4> QED
        BY <4>1
    <3>2. CASE b = "lead"
      <4>1. Ground(p, b) = [state |-> "Ground", expect |-> 1, run |-> TRUE, kind |-> "text"]
        BY <3>2 DEF Ground
      <4> QED
        BY <4>1
    <3>3. CASE b = "ESC"
      <4>1. Ground(p, b) = [state |-> "Escape", expect |-> owed, run |-> FALSE, kind |-> "none"]
        BY <3>3 DEF Ground, owed
      <4> QED
        BY <2>1, <4>1
    <3>4. CASE b = "cont" /\ p.expect = 0
      <4>1. Ground(p, b) = [state |-> "Csi", expect |-> 0, run |-> FALSE, kind |-> "none"]
        BY <3>4 DEF Ground
      <4> QED
        BY <4>1
    <3>5. CASE b = "cont" /\ p.expect = 1
      <4>1. Ground(p, b) = [state |-> "Ground", expect |-> 0, run |-> TRUE, kind |-> "tail"]
        BY <3>5 DEF Ground
      <4> QED
        BY <4>1
    <3>6. CASE b \in {"CR", "BS"}
      <4>1. Ground(p, b) = [state |-> "Ground", expect |-> owed, run |-> FALSE, kind |-> "control"]
        BY <3>6 DEF Ground, owed
      <4> QED
        BY <2>1, <4>1
    <3> QED
      BY <1>0, <3>1, <3>2, <3>3, <3>4, <3>5, <3>6 DEF AllBytes
  <2>3. Scan(p, b) = Ground(p, b)
    BY <1>1 DEF Scan
  <2> QED
    BY <2>2, <2>3 DEF ScannerRecord
<1>2. CASE p.state # "Ground"
  <2>1. ASSUME NEW st \in {"Ground", "Csi", "Ignore"}, NEW k \in {"none", "seq", "bad"}
        PROVE  [p EXCEPT !.state = st, !.kind = k] \in ScannerRecord
    BY DEF ScannerRecord
  <2>2. CASE p.state = "Escape"
    BY <2>1, <2>2 DEF Scan
  <2>3. CASE p.state = "Csi"
    BY <2>1, <2>3 DEF Scan
  <2>4. CASE p.state = "Ignore"
    BY <2>1, <2>4 DEF Scan
  <2> QED
    BY <1>0, <1>2, <2>2, <2>3, <2>4
<1> QED
  BY <1>1, <1>2

\* The cursor is in its line and no more lines are kept than may be.
Standing(x) ==
  /\ Shaped(x) /\ x.line \in Seq(AllBytes) /\ x.cursor \in 0..Len(x.line)
  /\ \E S : x.ring \in Seq(S)
  /\ Len(x.ring) <= MaxLines

\* A ring gives up its oldest line for the next one.
LEMMA RingKeeps ==
  ASSUME NEW S, NEW r \in Seq(S), NEW v, Len(r) <= MaxLines, MaxLines # 0, MaxLines \in Nat
  PROVE  /\ Append(r, v) \in Seq(S \cup {v})
         /\ Len(r) = MaxLines => Append(Tail(r), v) \in Seq(S \cup {v}) /\ Len(Append(Tail(r), v)) <= MaxLines
         /\ Len(r) # MaxLines => Len(Append(r, v)) <= MaxLines
<1>1. r \in Seq(S \cup {v}) /\ Len(r) \in Nat
  OBVIOUS
<1>2. CASE r = <<>>
  <2>1. Len(r) = 0 /\ MaxLines >= 1
    BY <1>2
  <2>2. Append(r, v) \in Seq(S \cup {v}) /\ Len(Append(r, v)) = 1
    BY <1>1, <2>1
  <2> QED
    BY <1>2, <2>1, <2>2
<1>3. CASE r # <<>>
  <2>1. Tail(r) \in Seq(S \cup {v}) /\ Len(Tail(r)) = Len(r) - 1
    BY <1>1, <1>3
  <2>2. Append(Tail(r), v) \in Seq(S \cup {v}) /\ Len(Append(Tail(r), v)) = Len(r)
    BY <1>1, <2>1
  <2>3. Append(r, v) \in Seq(S \cup {v}) /\ Len(Append(r, v)) = Len(r) + 1
    BY <1>1
  <2>4. Len(r) # MaxLines => Len(r) + 1 <= MaxLines
    BY <1>1
  <2> DEFINE more == Append(r, v)
             next == Append(Tail(r), v)
  <2>5. more \in Seq(S \cup {v}) /\ next \in Seq(S \cup {v}) /\ Len(next) <= MaxLines
        /\ (Len(r) # MaxLines => Len(more) <= MaxLines)
    <3> HIDE DEF more, next
    <3>1. Len(more) = Len(r) + 1 /\ Len(next) = Len(r)
      BY <2>2, <2>3 DEF more, next
    <3> QED
      BY <2>2, <2>3, <2>4, <3>1 DEF more, next
  <2> QED
    BY <2>5
<1> QED
  BY <1>2, <1>3

\* A line committed.
LEMMA CommitStands == ASSUME NEW x, Standing(x) PROVE Standing(commit_open_line(x))
<1>1. PICK sc, l, cr, ri, tr, dr, fi :
        x = [scanner |-> sc, line |-> l, cursor |-> cr, ring |-> ri, truncated |-> tr, dropped |-> dr, finished |-> fi]
  BY DEF Standing, Shaped
<1>2. /\ sc \in ScannerRecord /\ Len(ri) <= MaxLines /\ MaxLines \in Nat
      /\ \E S : ri \in Seq(S)
  BY <1>1, ShaperAssumption DEF Standing, Shaped
<1> DEFINE kept == SubSeq(l, 1, plan_truncate(l).prefix)
           cx == commit_open_line(x)
<1>3. \E ring, t, d : /\ cx = [scanner |-> sc, line |-> <<>>, cursor |-> 0, ring |-> ring, truncated |-> t, dropped |-> d, finished |-> fi]
                      /\ \/ ring = ri
                         \/ MaxLines # 0 /\ Len(ri) = MaxLines /\ ring = Append(Tail(ri), kept)
                         \/ MaxLines # 0 /\ Len(ri) # MaxLines /\ ring = Append(ri, kept)
  <2> DEFINE cut(n) == IF plan_truncate(l).cut THEN n + 1 ELSE n
  <2>1. CASE l = <<>>
    <3>1. cx = [scanner |-> sc, line |-> <<>>, cursor |-> 0, ring |-> ri, truncated |-> tr, dropped |-> dr, finished |-> fi]
      BY <1>1, <2>1 DEF commit_open_line
    <3> QED
      BY <3>1
  <2>2. CASE l # <<>> /\ MaxLines = 0
    <3>1. cx = [scanner |-> sc, line |-> <<>>, cursor |-> 0, ring |-> ri, truncated |-> cut(tr), dropped |-> dr + 1, finished |-> fi]
      BY <1>1, <2>2 DEF commit_open_line
    <3> HIDE DEF cut
    <3> QED
      BY <3>1
  <2>3. CASE l # <<>> /\ MaxLines # 0 /\ Len(ri) = MaxLines
    <3>1. cx = [scanner |-> sc, line |-> <<>>, cursor |-> 0, ring |-> Append(Tail(ri), kept), truncated |-> cut(tr), dropped |-> dr + 1,
                finished |-> fi]
      BY <1>1, <2>3 DEF commit_open_line
    <3> HIDE DEF cut, kept, cx
    <3> QED
      BY <2>3, <3>1
  <2>4. CASE l # <<>> /\ MaxLines # 0 /\ Len(ri) # MaxLines
    <3>1. cx = [scanner |-> sc, line |-> <<>>, cursor |-> 0, ring |-> Append(ri, kept), truncated |-> cut(tr), dropped |-> dr, finished |-> fi]
      BY <1>1, <2>4 DEF commit_open_line
    <3> HIDE DEF cut, kept, cx
    <3> QED
      BY <2>4, <3>1
  <2> QED
    BY <2>1, <2>2, <2>3, <2>4
<1> HIDE DEF kept, cx
<1>4. PICK ring, t, d : /\ cx = [scanner |-> sc, line |-> <<>>, cursor |-> 0, ring |-> ring, truncated |-> t, dropped |-> d, finished |-> fi]
                        /\ \/ ring = ri
                           \/ MaxLines # 0 /\ Len(ri) = MaxLines /\ ring = Append(Tail(ri), kept)
                           \/ MaxLines # 0 /\ Len(ri) # MaxLines /\ ring = Append(ri, kept)
  BY <1>3
<1>5. (\E S : ring \in Seq(S)) /\ Len(ring) <= MaxLines
  <2>1. PICK S : ri \in Seq(S)
    BY <1>2
  <2>2. CASE ring = ri
    BY <1>2, <2>2
  <2>3. CASE MaxLines # 0 /\ ring # ri
    <3>1. /\ Append(ri, kept) \in Seq(S \cup {kept})
          /\ Len(ri) = MaxLines => Append(Tail(ri), kept) \in Seq(S \cup {kept}) /\ Len(Append(Tail(ri), kept)) <= MaxLines
          /\ Len(ri) # MaxLines => Len(Append(ri, kept)) <= MaxLines
      BY <1>2, <2>1, <2>3, RingKeeps
    <3> QED
      BY <1>4, <2>3, <3>1
  <2> QED
    BY <1>4, <2>2, <2>3
<1>6. <<>> \in Seq(AllBytes) /\ Len(<<>>) = 0 /\ 0 \in 0..0
  OBVIOUS
<1>7. Standing(cx)
  BY <1>2, <1>4, <1>5, <1>6 DEF Standing, Shaped
<1> QED
  BY <1>7 DEF cx

\* A byte taken.
LEMMA TakeStands == ASSUME NEW x, Standing(x), NEW b \in AllBytes PROVE Standing(take(x, b))
<1>1. PICK s0, l, cr, ri, tr, dr, fi :
        x = [scanner |-> s0, line |-> l, cursor |-> cr, ring |-> ri, truncated |-> tr, dropped |-> dr, finished |-> fi]
  BY DEF Standing, Shaped
<1>2. /\ s0 \in ScannerRecord /\ x.scanner = s0 /\ l \in Seq(AllBytes) /\ cr \in 0..Len(l) /\ Len(ri) <= MaxLines
      /\ \E S : ri \in Seq(S)
  BY <1>1 DEF Standing, Shaped
<1> DEFINE sc == Scan(s0, b)
           u == [x EXCEPT !.scanner = sc]
<1>3. sc \in ScannerRecord
  BY <1>2, ScanTyped
<1>4. take(x, b) = apply(u, b)
  BY <1>2 DEF take
<1> HIDE DEF sc
<1>5. u = [scanner |-> sc, line |-> l, cursor |-> cr, ring |-> ri, truncated |-> tr, dropped |-> dr, finished |-> fi]
  BY <1>1
<1> HIDE DEF u
<1>6. Standing(u) /\ u.scanner = sc /\ sc.kind \in {"none", "text", "tail", "control", "seq", "bad"} /\ u.line = l /\ u.cursor = cr
  BY <1>2, <1>3, <1>5 DEF Standing, Shaped, ScannerRecord
<1>7. CASE sc.kind \in {"text", "tail"} /\ b = "LF"
  <2>1. apply(u, b) = commit_open_line(u)
    BY <1>6, <1>7 DEF apply
  <2> QED
    BY <1>4, <1>6, <2>1, CommitStands
<1>8. CASE sc.kind \in {"text", "tail"} /\ b # "LF"
  <2> DEFINE ln == IF cr = Len(l) THEN Append(l, b) ELSE [l EXCEPT ![cr + 1] = b]
  <2>1. apply(u, b) = [u EXCEPT !.line = ln, !.cursor = cr + 1]
    BY <1>6, <1>8 DEF apply, write_at_cursor
  <2>2. ln \in Seq(AllBytes) /\ cr + 1 \in 0..Len(ln)
    <3>1. Len(l) \in Nat /\ cr \in Nat /\ cr <= Len(l)
      BY <1>2
    <3>2. CASE cr = Len(l)
      <4>1. ln \in Seq(AllBytes) /\ Len(ln) = Len(l) + 1
        BY <1>2, <3>2
      <4> HIDE DEF ln
      <4> QED
        BY <3>1, <3>2, <4>1
    <3>3. CASE cr # Len(l)
      <4>1. ln = [l EXCEPT ![cr + 1] = b]
        BY <3>3
      <4>2. ln \in Seq(AllBytes) /\ Len(ln) = Len(l)
        BY <1>2, <4>1
      <4> HIDE DEF ln
      <4> QED
        BY <3>1, <3>3, <4>2
    <3> QED
      BY <3>2, <3>3
  <2> DEFINE cu == cr + 1
  <2> HIDE DEF ln, cu
  <2>3. apply(u, b) = [scanner |-> sc, line |-> ln, cursor |-> cu, ring |-> ri, truncated |-> tr, dropped |-> dr, finished |-> fi]
    BY <1>5, <2>1 DEF cu
  <2> QED
    BY <1>2, <1>3, <1>4, <2>2, <2>3 DEF Standing, Shaped, cu
<1>9. CASE sc.kind = "control"
  <2> DEFINE cu == IF b = "CR" \/ cr = 0 THEN 0 ELSE cr - 1
  <2>1. apply(u, b) = [u EXCEPT !.cursor = cu]
    BY <1>6, <1>9 DEF apply
  <2>2. cu \in 0..Len(l)
    <3>1. Len(l) \in Nat /\ cr \in Nat /\ cr <= Len(l)
      BY <1>2
    <3> QED
      BY <3>1
  <2> HIDE DEF cu
  <2>3. apply(u, b) = [scanner |-> sc, line |-> l, cursor |-> cu, ring |-> ri, truncated |-> tr, dropped |-> dr, finished |-> fi]
    BY <1>5, <2>1
  <2> QED
    BY <1>2, <1>3, <1>4, <2>2, <2>3 DEF Standing, Shaped
<1>10. CASE sc.kind \in {"none", "seq", "bad"}
  <2>1. apply(u, b) = u
    BY <1>6, <1>10 DEF apply
  <2> QED
    BY <1>4, <1>6, <2>1
<1> QED
  BY <1>6, <1>7, <1>8, <1>9, <1>10

\* A read taken, byte by byte.
LEMMA ReadStands ==
  ASSUME NEW x, Standing(x), NEW n \in Nat, NEW c \in [1..n -> AllBytes]
  PROVE  Standing(Fed(x, c)[Len(c)])
<1> DEFINE F(k) == Fed(x, c)[k]
           D == {k \in 0..n : ~Standing(F(k))}
<1>0. Len(c) = n
  OBVIOUS
<1>1. 0 \notin D
  BY <1>0, FedIs
<1>2. ASSUME NEW k \in D, k # 0 PROVE k - 1 \in D
  <2>1. k \in 1..n /\ k - 1 \in 0..n /\ c[k] \in AllBytes
    BY <1>2
  <2>2. F(k) = take(F(k - 1), c[k])
    <3>1. Len(c) \in Nat /\ k \in 1..Len(c)
      BY <1>0, <2>1
    <3> QED
      BY <3>1, FedIs
  <2> HIDE DEF F
  <2> QED
    BY <1>2, <2>1, <2>2, TakeStands
<1>3. D \in SUBSET (0..n)
  OBVIOUS
<1>4. D = {}
  <2> HIDE DEF D
  <2> QED
    BY <1>1, <1>2, <1>3, NoneUpTo
<1>5. n \in 0..n
  OBVIOUS
<1> QED
  BY <1>0, <1>4, <1>5

\* The shaper stands, and no more was read than may be.
ShaperStands ==
  stream \in Seq(Bytes) /\ Len(stream) <= MaxStream + MaxRead /\ Standing(shaper)

\* Nothing read yet.
LEMMA ShaperStandsFirst == ShaperInit => ShaperStands
<1> SUFFICES ASSUME ShaperInit PROVE ShaperStands
  OBVIOUS
<1>1. stream = <<>> /\ shaper = NewShaper
  BY DEF ShaperInit
<1>2. /\ NewShaper.scanner \in ScannerRecord /\ Shaped(NewShaper) /\ NewShaper.line = <<>> /\ NewShaper.cursor = 0 /\ NewShaper.ring = <<>>
  BY DEF NewShaper, NewScanner, ScannerRecord, Shaped
<1>3. <<>> \in Seq(AllBytes) /\ Len(<<>>) = 0 /\ <<>> \in Seq(Bytes) /\ 0 \in 0..0
  OBVIOUS
<1> QED
  BY <1>1, <1>2, <1>3, ShaperAssumption DEF ShaperStands, Standing

\* It goes on standing.
LEMMA ShaperStandsKept == ShaperStands /\ [ShaperNext]_shaperVars => ShaperStands'
<1> SUFFICES ASSUME ShaperStands, [ShaperNext]_shaperVars PROVE ShaperStands'
  OBVIOUS
<1>0. Standing(shaper) /\ stream \in Seq(Bytes) /\ Len(stream) <= MaxStream + MaxRead
  BY DEF ShaperStands
<1>1. CASE UNCHANGED shaperVars
  BY <1>0, <1>1 DEF shaperVars, ShaperStands
<1>2. ASSUME NEW f, NEW sc \in ScannerRecord PROVE Standing([shaper EXCEPT !.scanner = sc, !.finished = f])
  <2>1. PICK s0, l, cr, ri, tr, dr, fi :
          shaper = [scanner |-> s0, line |-> l, cursor |-> cr, ring |-> ri, truncated |-> tr, dropped |-> dr, finished |-> fi]
    BY <1>0 DEF Standing, Shaped
  <2> DEFINE one == [shaper EXCEPT !.scanner = sc]
  <2>2. one = [scanner |-> sc, line |-> l, cursor |-> cr, ring |-> ri, truncated |-> tr, dropped |-> dr, finished |-> fi]
    BY <2>1
  <2>3. [shaper EXCEPT !.scanner = sc, !.finished = f] = [one EXCEPT !.finished = f]
    OBVIOUS
  <2> HIDE DEF one
  <2>4. [one EXCEPT !.finished = f] = [scanner |-> sc, line |-> l, cursor |-> cr, ring |-> ri, truncated |-> tr, dropped |-> dr, finished |-> f]
    BY <2>2
  <2> QED
    BY <1>0, <1>2, <2>1, <2>3, <2>4 DEF Standing, Shaped
<1>3. CASE Finish
  <2>1. NewScanner \in ScannerRecord
    BY DEF NewScanner, ScannerRecord
  <2>2. shaper' = commit_open_line([shaper EXCEPT !.scanner = NewScanner, !.finished = TRUE]) /\ stream' = stream
    BY <1>3 DEF Finish, finish
  <2>3. Standing(shaper')
    BY <1>2, <2>1, <2>2, CommitStands
  <2> QED
    BY <1>0, <2>2, <2>3 DEF ShaperStands
<1>4. ASSUME NEW n \in 1..MaxRead, NEW chunk \in [1..n -> Bytes], Read(chunk) PROVE ShaperStands'
  <2>1. chunk \in [1..n -> AllBytes] /\ n \in Nat /\ n <= MaxRead
    BY ONLY ShaperBytes, n \in 1..MaxRead, chunk \in [1..n -> Bytes]
  <2>2. /\ shaper' = Fed([shaper EXCEPT !.scanner.run = FALSE], chunk)[Len(chunk)]
        /\ stream' = stream \o chunk /\ Len(stream) < MaxStream
    BY <1>4 DEF Read, push
  <2>3. Standing([shaper EXCEPT !.scanner.run = FALSE])
    <3>1. PICK s0, l, cr, ri, tr, dr, fi :
            shaper = [scanner |-> s0, line |-> l, cursor |-> cr, ring |-> ri, truncated |-> tr, dropped |-> dr, finished |-> fi]
      BY <1>0 DEF Standing, Shaped
    <3> DEFINE sd == [s0 EXCEPT !.run = FALSE]
    <3>2. s0 \in ScannerRecord /\ shaper.scanner = s0
      BY <1>0, <3>1 DEF Standing, Shaped
    <3>3. sd \in ScannerRecord
      BY <3>2 DEF ScannerRecord
    <3>4. [shaper EXCEPT !.scanner.run = FALSE] = [shaper EXCEPT !.scanner = sd]
      BY <3>2
    <3> HIDE DEF sd
    <3>5. [shaper EXCEPT !.scanner = sd]
            = [scanner |-> sd, line |-> l, cursor |-> cr, ring |-> ri, truncated |-> tr, dropped |-> dr, finished |-> fi]
      BY <3>1
    <3> QED
      BY <1>0, <3>1, <3>3, <3>4, <3>5 DEF Standing, Shaped
  <2>4. Standing(shaper')
    BY <2>1, <2>2, <2>3, ReadStands
  <2>5. chunk \in Seq(Bytes) /\ Len(chunk) = n
    BY <2>1
  <2>6. stream' \in Seq(Bytes) /\ Len(stream') = Len(stream) + n /\ Len(stream) \in Nat
    BY <1>0, <2>2, <2>5
  <2>7. Len(stream') <= MaxStream + MaxRead
    BY <2>1, <2>2, <2>6, ShaperAssumption
  <2> QED
    BY <2>4, <2>6, <2>7 DEF ShaperStands
<1> QED
  BY <1>1, <1>3, <1>4 DEF ShaperNext

\* What standing says of the types.
LEMMA ShaperTyped == ShaperStands => ShaperTypeOK
BY DEF ShaperStands, Standing, ShaperTypeOK

-----------------------------------------------------------------------------
(***************************************************************************)
(* A plugin under the host (Plugin)                                        *)
(***************************************************************************)
PluginRecord ==
  [component : DOMAIN Components \cup {"none"}, class : Classes, fuel : 0..Fuel,
   at : {"nowhere", "start", "idle", "run"}, dead : BOOLEAN]
PluginSaid == {"none", "ready", "UnlistedImport", "WrongSignature", "FuelExhausted", "Engine",
         "HostDispatch", "Trap", "ResourceLimit", "answer"}

\* A record of calls of one class, within the limit.
CallsOf(sofar, class) ==
  /\ sofar \in Seq(HostCall) /\ Len(sofar) <= MaxHostCalls
  /\ \A i \in DOMAIN sofar : sofar[i].class = class /\ sofar[i].function \in imports_for(class)

\* What runs was linked under its class, and the host's record is what the dispatcher did;
\* where there is no instance there is none of it.
PluginInv ==
  /\ plugin \in PluginRecord /\ plugin_said \in PluginSaid
  /\ CallsOf(host_calls, plugin.class) /\ dispatched = host_calls
  /\ plugin.component = "none" <=> plugin.at = "nowhere"
  /\ plugin.component = "none" => host_calls = <<>>
  /\ plugin.component # "none" =>
       \A i \in Components[plugin.component].imports : i.functions \subseteq imports_for(plugin.class)
  /\ lost \subseteq HostCall /\ \A attempt \in lost : attempt.function \in imports_for(attempt.class)

\* The limits are numbers.
LEMMA PluginNumbers == Fuel \in Nat /\ MaxHostCalls \in Nat /\ "none" \notin DOMAIN Components
BY PluginAssumption

\* Nothing called is a record of any class.
LEMMA NothingCalled == \A class : CallsOf(<<>>, class)
<1>1. <<>> \in Seq(HostCall)
  OBVIOUS
<1>2. Len(<<>>) = 0 /\ DOMAIN <<>> = {}
  OBVIOUS
<1> QED
  BY <1>1, <1>2, PluginNumbers DEF CallsOf

\* One more call, below the limit and of the class, is still such a record.
LEMMA CallsGrow ==
  ASSUME NEW class \in Classes, NEW sofar, CallsOf(sofar, class), Len(sofar) < MaxHostCalls,
         NEW f \in HostFunctions, f \in imports_for(class)
  PROVE  CallsOf(Append(sofar, [class |-> class, function |-> f]), class)
<1> DEFINE attempt == [class |-> class, function |-> f]
<1>1. sofar \in Seq(HostCall) /\ Len(sofar) \in Nat /\ MaxHostCalls \in Nat
  BY PluginNumbers DEF CallsOf
<1>2. attempt \in HostCall /\ attempt.class = class /\ attempt.function = f
  BY DEF HostCall
<1> HIDE DEF attempt
<1>3. /\ Append(sofar, attempt) \in Seq(HostCall) /\ Len(Append(sofar, attempt)) = Len(sofar) + 1
      /\ \A i \in DOMAIN Append(sofar, attempt) :
           Append(sofar, attempt)[i] = attempt \/ (i \in DOMAIN sofar /\ Append(sofar, attempt)[i] = sofar[i])
  BY <1>1, <1>2
<1>4. \A i \in DOMAIN Append(sofar, attempt) :
        Append(sofar, attempt)[i].class = class /\ Append(sofar, attempt)[i].function \in imports_for(class)
  BY <1>2, <1>3 DEF CallsOf
<1>5. Len(Append(sofar, attempt)) <= MaxHostCalls
  BY <1>1, <1>3
<1> QED
  BY <1>3, <1>4, <1>5 DEF CallsOf, attempt

\* No plugin, and nothing called.
LEMMA PluginBegins == PluginInit => PluginInv
<1> SUFFICES ASSUME PluginInit PROVE PluginInv
  OBVIOUS
<1>1. plugin = NoPlugin /\ host_calls = <<>> /\ dispatched = <<>> /\ lost = {} /\ plugin_said = "none"
  BY DEF PluginInit
<1>2. NoPlugin \in PluginRecord /\ NoPlugin.component = "none" /\ NoPlugin.at = "nowhere"
  BY PluginNumbers DEF NoPlugin, PluginRecord, Classes
<1> QED
  BY <1>1, <1>2, NothingCalled DEF PluginInv, PluginSaid

\* A step of the instance that keeps its component and class, with the calls recorded made.
LEMMA PluginStays ==
  ASSUME PluginInv, plugin.component # "none", plugin' \in PluginRecord, plugin_said' \in PluginSaid,
         plugin'.component = plugin.component, plugin'.class = plugin.class, plugin'.at # "nowhere",
         CallsOf(host_calls', plugin.class), dispatched' = host_calls', lost' = lost
  PROVE  PluginInv'
<1>1. CallsOf(host_calls', plugin.class) => CallsOf(host_calls, plugin.class)'
  BY DEF CallsOf
<1> QED
  BY <1>1 DEF PluginInv

\* What is left when guest code stops, in its start or in a call.
LEMMA PluginStops ==
  ASSUME PluginInv, NEW why \in {"FuelExhausted", "HostDispatch", "Trap"}, NEW made,
         CallsOf(made, plugin.class), Stops(why, made, made)
  PROVE  PluginInv'
<1>0. plugin \in PluginRecord /\ plugin.class \in Classes
  BY DEF PluginInv, PluginRecord
<1>1. CASE StartFails(why, made)
  <2>1. plugin' = NoPlugin /\ host_calls' = <<>> /\ dispatched' = <<>> /\ plugin_said' \in PluginSaid
        /\ lost' = lost \cup {made[i] : i \in DOMAIN made}
    BY <1>1 DEF StartFails, PluginSaid
  <2>2. NoPlugin \in PluginRecord /\ NoPlugin.component = "none" /\ NoPlugin.at = "nowhere"
    BY PluginNumbers DEF NoPlugin, PluginRecord, Classes
  <2>3. \A i \in DOMAIN made : made[i] \in HostCall /\ made[i].function \in imports_for(made[i].class)
    BY DEF CallsOf
  <2>4. lost' \subseteq HostCall /\ \A attempt \in lost' : attempt.function \in imports_for(attempt.class)
    BY <2>1, <2>3 DEF PluginInv
  <2>5. CallsOf(host_calls, plugin.class)'
    BY <2>1, NothingCalled
  <2> QED
    BY <2>1, <2>2, <2>4, <2>5 DEF PluginInv
<1>2. CASE CallFails(why, made, made)
  <2>1. /\ plugin.at = "run" /\ plugin' = [plugin EXCEPT !.at = "idle", !.dead = TRUE]
        /\ host_calls' = made /\ dispatched' = made /\ lost' = lost /\ plugin_said' \in PluginSaid
    BY <1>2 DEF CallFails, PluginSaid
  <2>2. plugin' \in PluginRecord /\ plugin'.component = plugin.component /\ plugin'.class = plugin.class
        /\ plugin'.at = "idle"
    BY <1>0, <2>1 DEF PluginRecord
  <2>3. plugin.component # "none"
    BY <2>1 DEF PluginInv
  <2> QED
    BY <2>1, <2>2, <2>3, PluginStays
<1> QED
  BY <1>1, <1>2 DEF Stops

\* A component that is let in starts with what its class is offered, and nothing called.
LEMMA InstantiateKeeps ==
  ASSUME PluginInv, NEW c \in DOMAIN Components, NEW class \in Classes, instantiate(c, class) PROVE PluginInv'
<1>1. plugin.component = "none" /\ UNCHANGED <<host_calls, dispatched, lost>> /\ host_calls = <<>> /\ dispatched = <<>>
  BY DEF instantiate, PluginInv
<1> DEFINE rejected == CASE \E i \in Components[c].imports : ~import_in_set(i, class) -> "UnlistedImport"
                         [] ~Components[c].runs -> "WrongSignature"
                         [] \E i \in Components[c].imports : ~Linked(i, class) -> "Engine"
                         [] OTHER -> "none"
<1>2. plugin_said' = rejected /\ IF rejected = "none" THEN Starts(c, class) ELSE UNCHANGED plugin
  BY DEF instantiate
<1>3. rejected \in PluginSaid /\ (rejected = "none" => \A i \in Components[c].imports : Linked(i, class))
  <2>1. CASE \E i \in Components[c].imports : ~import_in_set(i, class)
    BY <2>1 DEF PluginSaid
  <2>2. CASE ~(\E i \in Components[c].imports : ~import_in_set(i, class)) /\ ~Components[c].runs
    BY <2>2 DEF PluginSaid
  <2>3. CASE ~(\E i \in Components[c].imports : ~import_in_set(i, class)) /\ Components[c].runs
    BY <2>3 DEF PluginSaid
  <2> QED
    BY <2>1, <2>2, <2>3
<1> HIDE DEF rejected
<1>4. CASE rejected = "none"
  <2>1. plugin' = [component |-> c, class |-> class, fuel |-> Fuel, at |-> "start", dead |-> FALSE]
    BY <1>2, <1>4 DEF Starts
  <2>2. plugin' \in PluginRecord /\ plugin'.component = c /\ plugin'.class = class /\ plugin'.at = "start"
    <3>1. Fuel \in 0..Fuel
      BY PluginNumbers
    <3> QED
      BY <2>1, <3>1 DEF PluginRecord
  <2>3. c # "none" /\ \A i \in Components[c].imports : i.functions \subseteq imports_for(class)
    BY <1>3, <1>4, PluginNumbers DEF Linked
  <2>4. CallsOf(host_calls, plugin.class)'
    BY <1>1, NothingCalled
  <2>5. lost' \subseteq HostCall /\ \A attempt \in lost' : attempt.function \in imports_for(attempt.class)
    BY <1>1 DEF PluginInv
  <2> QED
    BY <1>1, <1>2, <1>3, <2>2, <2>3, <2>4, <2>5 DEF PluginInv
<1>5. CASE rejected # "none"
  <2>1. plugin' = plugin /\ plugin_said' \in PluginSaid
    BY <1>2, <1>3, <1>5
  <2>2. CallsOf(host_calls, plugin.class)'
    BY <1>1, NothingCalled
  <2> QED
    BY <1>1, <2>1, <2>2 DEF PluginInv
<1> QED
  BY <1>4, <1>5

\* A call of the guest is recorded where the dispatcher gets it, and not where it is refused.
LEMMA DispatchKeeps ==
  ASSUME PluginInv, NEW f \in HostFunctions, NEW b \in 0..MaxBytes + 1, NEW a \in 0..MaxBytes + 1, dispatch(f, b, a)
  PROVE  PluginInv'
<1> DEFINE attempt == [class |-> plugin.class, function |-> f]
<1>0. /\ plugin \in PluginRecord /\ plugin.class \in Classes /\ dispatched = host_calls /\ CallsOf(host_calls, plugin.class)
      /\ plugin.component # "none" /\ plugin.at # "nowhere" /\ plugin_said \in PluginSaid
  BY DEF PluginInv, PluginRecord, dispatch, Executing
<1>1. f \in imports_for(plugin.class)
  BY <1>0 DEF dispatch, Imported, PluginInv
<1>2. CASE Declined(b) /\ Stops("HostDispatch", host_calls, dispatched)
  BY <1>0, <1>2, PluginStops
<1>3. ~Declined(b) => CallsOf(Append(host_calls, attempt), plugin.class)
  <2>1. ~Declined(b) => Len(host_calls) < MaxHostCalls
    <3>1. Len(host_calls) \in Nat /\ MaxHostCalls \in Nat
      BY <1>0, PluginNumbers DEF CallsOf
    <3> QED
      BY <3>1 DEF Declined
  <2> QED
    BY <1>0, <1>1, <2>1, CallsGrow
<1>4. CASE ~Declined(b) /\ Stops("HostDispatch", Append(host_calls, attempt), Append(dispatched, attempt))
  BY <1>0, <1>3, <1>4, PluginStops
<1>5. CASE /\ ~Declined(b) /\ host_calls' = Append(host_calls, attempt) /\ dispatched' = Append(dispatched, attempt)
           /\ UNCHANGED <<plugin, lost, plugin_said>>
  BY <1>0, <1>3, <1>5, PluginStays
<1> QED
  BY <1>2, <1>4, <1>5 DEF dispatch

\* The plugin's invariant is inductive.
LEMMA PluginInvKept == PluginInv /\ [PluginNext]_pluginVars => PluginInv'
<1> SUFFICES ASSUME PluginInv, [PluginNext]_pluginVars PROVE PluginInv'
  OBVIOUS
<1>0. /\ plugin \in PluginRecord /\ plugin_said \in PluginSaid /\ dispatched = host_calls /\ CallsOf(host_calls, plugin.class)
      /\ plugin.at # "nowhere" => plugin.component # "none"
      /\ plugin.component # "none" => plugin.at # "nowhere"
  BY DEF PluginInv
<1>1. CASE UNCHANGED pluginVars
  <2>1. CallsOf(host_calls, plugin.class)'
    BY <1>0, <1>1 DEF pluginVars
  <2> QED
    BY <1>1, <2>1 DEF pluginVars, PluginInv
<1>2. ASSUME NEW at \in {"idle", "run"}, plugin.at # "nowhere", plugin' = [plugin EXCEPT !.at = at],
             plugin_said' \in PluginSaid, UNCHANGED <<host_calls, dispatched, lost>>
      PROVE  PluginInv'
  <2>1. plugin' \in PluginRecord /\ plugin'.component = plugin.component /\ plugin'.class = plugin.class /\ plugin'.at = at
    BY <1>0, <1>2 DEF PluginRecord
  <2> QED
    BY <1>0, <1>2, <2>1, PluginStays
<1>3. ASSUME NEW c \in DOMAIN Components, NEW class \in Classes, instantiate(c, class) PROVE PluginInv'
  BY <1>3, InstantiateKeeps
<1>4. CASE Instantiated
  BY <1>2, <1>4 DEF Instantiated, PluginSaid
<1>5. CASE call_run
  <2>1. CASE plugin' = plugin /\ plugin_said' = "Trap"
    <3>1. plugin.at = "idle" /\ UNCHANGED <<host_calls, dispatched, lost>> /\ plugin_said' \in PluginSaid
      BY <1>5, <2>1 DEF call_run, PluginSaid
    <3> QED
      BY <1>0, <2>1, <3>1, PluginStays
  <2>2. CASE plugin' = [plugin EXCEPT !.at = "run"] /\ plugin_said' = "none"
    BY <1>2, <1>5, <2>2 DEF call_run, PluginSaid
  <2> QED
    BY <1>5, <2>1, <2>2 DEF call_run
<1>6. CASE Burn
  <2>1. CASE Stops("FuelExhausted", host_calls, dispatched)
    BY <1>0, <2>1, PluginStops
  <2>2. CASE /\ plugin.fuel # 0 /\ plugin' = [plugin EXCEPT !.fuel = @ - 1]
             /\ UNCHANGED <<host_calls, dispatched, lost, plugin_said>>
    <3>1. plugin.fuel \in 0..Fuel /\ Fuel \in Nat
      BY <1>0, PluginNumbers DEF PluginRecord
    <3>2. plugin.fuel - 1 \in 0..Fuel
      BY <2>2, <3>1
    <3>3. plugin' \in PluginRecord /\ plugin'.component = plugin.component /\ plugin'.class = plugin.class /\ plugin'.at = plugin.at
      BY <1>0, <2>2, <3>2 DEF PluginRecord
    <3>4. plugin.at # "nowhere"
      BY <1>6 DEF Burn, Executing
    <3> QED
      BY <1>0, <2>2, <3>3, <3>4, PluginStays
  <2> QED
    BY <1>6, <2>1, <2>2 DEF Burn
<1>7. CASE Traps
  BY <1>0, <1>7, PluginStops DEF Traps
<1>8. ASSUME NEW f \in HostFunctions, NEW b \in 0..MaxBytes + 1, NEW a \in 0..MaxBytes + 1, dispatch(f, b, a)
      PROVE  PluginInv'
  BY <1>8, DispatchKeeps
<1>9. ASSUME NEW b \in 0..MaxBytes + 1, Returns(b) PROVE PluginInv'
  BY <1>2, <1>9 DEF Returns, PluginSaid
<1> QED
  BY <1>1, <1>3, <1>4, <1>5, <1>6, <1>7, <1>8, <1>9 DEF PluginNext

\* What the invariant says of a plugin.
LEMMA PluginTyped == PluginInv => PluginTypeOK /\ PluginContained
BY DEF PluginInv, PluginTypeOK, PluginContained, PluginRecord, PluginSaid, CallsOf

\* Whatever a component declares and however its start and its calls end, the dispatcher
\* only ever ran functions of the class a component was instantiated under, an instance
\* never makes more calls than the limit, its start code's included, and every one of them
\* is in its host's record, for all limits and components; that the record of a start that
\* fails is lost with its Store is no part of it (Host::instantiate, HostState::dispatch).
THEOREM PluginSafe == PluginSpec => []PluginContained
BY PluginBegins, PluginInvKept, PluginTyped, PTL DEF PluginSpec

-----------------------------------------------------------------------------
(***************************************************************************)
(* The skills of a session and the directory (Skills)                      *)
(***************************************************************************)
Paths1 == Range1(SkillPaths)
Event == [path : Paths1, kind : {"remove", "modify"}]
PendingAt(p) == \E i \in DOMAIN events : events[i].path = p

\* What the session has of a file is what the file holds.
Current(p) ==
  /\ disk[p] # Absent => \E n \in DOMAIN sources : sources[n] = p
  /\ \A n \in DOMAIN sources : sources[n] = p => disk[p] = by_name[n] /\ by_name[n].name = n

\* The last event of a path says whether the file is there, each file gave at most one
\* skill, and, unless something was refused, what the session has of a file with no event
\* left is what it holds.
SkillsInv ==
  /\ disk \in [Paths1 -> Contents \cup {Bad, Absent}]
  /\ events \in Seq(Event) /\ Len(events) <= MaxEvents /\ refused \in BOOLEAN
  /\ DOMAIN by_name = DOMAIN sources
  /\ \A n \in DOMAIN sources : sources[n] \in Paths1
  /\ \A m \in DOMAIN sources : \A n \in DOMAIN sources : sources[m] = sources[n] => m = n
  /\ \A n \in DOMAIN by_name : Requires(n) \subseteq DOMAIN by_name
  /\ \A i \in DOMAIN events :
       (\A j \in DOMAIN events : j > i => events[j].path # events[i].path)
         => (events[i].kind = "remove" <=> disk[events[i].path] = Absent)
  /\ refused = FALSE => \A p \in Paths1 : PendingAt(p) \/ Current(p)

\* What a sequence of events is without its first.
LEMMA EventsLeft ==
  ASSUME NEW S, NEW s \in Seq(S), s # <<>>
  PROVE  /\ Head(s) = s[1] /\ Head(s) \in S /\ Tail(s) \in Seq(S) /\ Len(s) \in Nat /\ Len(s) >= 1
         /\ Len(Tail(s)) = Len(s) - 1 /\ DOMAIN Tail(s) = 1..Len(s) - 1 /\ DOMAIN s = 1..Len(s)
         /\ \A i \in 1..Len(s) - 1 : Tail(s)[i] = s[i + 1]
OBVIOUS

\* What one more event leaves of the others.
LEMMA OneMoreEvent ==
  ASSUME NEW S, NEW s \in Seq(S), NEW e \in S
  PROVE  /\ Append(s, e) \in Seq(S) /\ Len(s) \in Nat /\ Len(Append(s, e)) = Len(s) + 1
         /\ DOMAIN Append(s, e) = 1..Len(s) + 1 /\ DOMAIN s = 1..Len(s)
         /\ Append(s, e)[Len(s) + 1] = e
         /\ \A i \in 1..Len(s) : Append(s, e)[i] = s[i]
OBVIOUS

\* A set of skills, one more added.
LEMMA WithIs ==
  ASSUME NEW f, NEW k, NEW v
  PROVE  /\ DOMAIN With(f, k, v) = DOMAIN f \cup {k} /\ With(f, k, v)[k] = v
         /\ \A n \in DOMAIN f : n # k => With(f, k, v)[n] = f[n]
BY DEF With

\* A skill that resolves names only skills there are.
LEMMA RequiredExist ==
  ASSUME NEW skills, resolve_dependencies(skills)
  PROVE  \A n \in DOMAIN skills : Range1(skills[n].requires) \subseteq DOMAIN skills
<1>1. \A n \in DOMAIN skills : \A i \in DOMAIN skills[n].requires : skills[n].requires[i] \in DOMAIN skills
  BY DEF resolve_dependencies
<1> QED
  BY <1>1 DEF Range1

\* What an event makes of the session's skills: those of other files as they were, and
\* its file's if it is there.
LEMMA EventMakes ==
  ASSUME SkillsInv, NEW e \in Event, NEW next, next = apply_event_in_place(e), next.ok
  PROVE  /\ DOMAIN next.skills = DOMAIN next.from
         /\ \A n \in DOMAIN next.from :
              \/ n \in DOMAIN sources /\ sources[n] # e.path /\ next.from[n] = sources[n] /\ next.skills[n] = by_name[n]
              \/ /\ e.kind # "remove" /\ n = disk[e.path].name /\ next.from[n] = e.path
                 /\ next.skills[n] = disk[e.path]
         /\ \A n \in DOMAIN sources : sources[n] # e.path =>
              n \in DOMAIN next.from /\ next.from[n] = sources[n] /\ next.skills[n] = by_name[n]
         /\ e.kind # "remove" => disk[e.path].name \in DOMAIN next.from /\ next.from[disk[e.path].name] = e.path
         /\ \A n \in DOMAIN next.skills : Range1(next.skills[n].requires) \subseteq DOMAIN next.skills
<1> DEFINE less == Dropped(e.path)
           new == disk[e.path]
           raw == IF e.kind = "remove" THEN less
                  ELSE IF ~Parses(e.path) \/ new.name \in DOMAIN less.skills THEN Refused
                  ELSE Loaded(With(less.skills, new.name, new), With(less.from, new.name, e.path))
<1>1. Refused.ok = FALSE
  BY DEF Refused
<1>2. next = IF raw.ok /\ resolve_dependencies(raw.skills) THEN raw ELSE Refused
  BY DEF apply_event_in_place
<1>3. next = raw /\ resolve_dependencies(next.skills)
  <2> HIDE DEF raw
  <2> QED
    BY <1>1, <1>2
<1>4. /\ DOMAIN less.skills = DOMAIN by_name \ NameAt(e.path) /\ DOMAIN less.from = DOMAIN sources \ NameAt(e.path)
      /\ \A n \in DOMAIN less.skills : less.skills[n] = by_name[n]
      /\ \A n \in DOMAIN less.from : less.from[n] = sources[n]
      /\ DOMAIN by_name = DOMAIN sources
  BY DEF Dropped, Loaded, SkillsInv
<1>5. \A n \in DOMAIN sources : n \in DOMAIN less.from <=> sources[n] # e.path
  BY <1>4 DEF NameAt
<1> HIDE DEF less
<1>6. DOMAIN less.skills = DOMAIN less.from
  BY <1>4
<1>7. \A n \in DOMAIN less.from : n \in DOMAIN sources /\ sources[n] # e.path
  BY <1>4, <1>5
<1>8. \A n \in DOMAIN next.skills : Range1(next.skills[n].requires) \subseteq DOMAIN next.skills
  BY <1>3, RequiredExist
<1>9. CASE e.kind = "remove"
  <2>1. next = less
    BY <1>3, <1>9
  <2> QED
    BY <1>4, <1>5, <1>6, <1>7, <1>8, <1>9, <2>1
<1>10. CASE e.kind # "remove"
  <2> DEFINE k == new.name
             sk == With(less.skills, k, new)
             fr == With(less.from, k, e.path)
  <2>1. k \notin DOMAIN less.skills /\ next = Loaded(sk, fr)
    BY <1>1, <1>3, <1>10
  <2>2. next.skills = sk /\ next.from = fr
    BY <2>1 DEF Loaded
  <2>3. /\ DOMAIN sk = DOMAIN less.skills \cup {k} /\ sk[k] = new /\ \A n \in DOMAIN less.skills : n # k => sk[n] = less.skills[n]
        /\ DOMAIN fr = DOMAIN less.from \cup {k} /\ fr[k] = e.path /\ \A n \in DOMAIN less.from : n # k => fr[n] = less.from[n]
    <3> HIDE DEF k, raw
    <3>1. \A f, v : /\ DOMAIN With(f, k, v) = DOMAIN f \cup {k} /\ With(f, k, v)[k] = v
                   /\ \A n \in DOMAIN f : n # k => With(f, k, v)[n] = f[n]
      BY DEF With
    <3> QED
      BY ONLY <3>1
  <2> HIDE DEF sk, fr, raw
  <2>4. /\ DOMAIN sk = DOMAIN fr
        /\ \A n \in DOMAIN less.from : n \in DOMAIN fr /\ fr[n] = sources[n] /\ sk[n] = by_name[n]
    BY <1>4, <1>6, <2>1, <2>3
  <2>5. \A n \in DOMAIN fr : n \in DOMAIN less.from \/ (n = k /\ fr[n] = e.path /\ sk[n] = new)
    BY <2>3
  <2>6. \A n \in DOMAIN sources : sources[n] # e.path => n \in DOMAIN fr /\ fr[n] = sources[n] /\ sk[n] = by_name[n]
    BY <1>5, <2>4
  <2>7. \A n \in DOMAIN fr :
          \/ n \in DOMAIN sources /\ sources[n] # e.path /\ fr[n] = sources[n] /\ sk[n] = by_name[n]
          \/ e.kind # "remove" /\ n = disk[e.path].name /\ fr[n] = e.path /\ sk[n] = disk[e.path]
    BY <1>7, <1>10, <2>4, <2>5
  <2>8. k \in DOMAIN fr /\ fr[k] = e.path
    BY <2>3
  <2> QED
    BY <1>8, <2>2, <2>4, <2>6, <2>7, <2>8
<1> QED
  BY <1>9, <1>10

\* The files are a sequence.
LEMMA SkillNumbers ==
  /\ MaxEvents \in Nat /\ Len(SkillPaths) \in Nat
  /\ \A n \in 1..Len(SkillPaths) : SkillPaths[n] \in Paths1
  /\ \A p \in Paths1 : \E n \in 1..Len(SkillPaths) : SkillPaths[n] = p
<1>1. SkillPaths \in Seq({SkillPaths[i] : i \in DOMAIN SkillPaths}) /\ MaxEvents \in Nat
  BY SkillsAssumption
<1>2. DOMAIN SkillPaths = 1..Len(SkillPaths) /\ Len(SkillPaths) \in Nat
  BY <1>1
<1> QED
  BY <1>1, <1>2 DEF Paths1, Range1

\* What was loaded of the first files: each that is there gave the one skill of its name.
LoadedOf(acc, n) ==
  acc.ok => /\ DOMAIN acc.skills = DOMAIN acc.from
            /\ \A m \in DOMAIN acc.from : acc.from[m] \in Paths1 /\ acc.skills[m] = disk[acc.from[m]] /\ acc.skills[m].name = m
            /\ \A i \in 1..n : disk[SkillPaths[i]] # Absent => \E m \in DOMAIN acc.from : acc.from[m] = SkillPaths[i]

\* One more file keeps it so.
LEMMA OneMoreFile ==
  ASSUME NEW acc, NEW n \in Nat, n + 1 \in 1..Len(SkillPaths), LoadedOf(acc, n)
  PROVE  LoadedOf(Added(acc, SkillPaths[n + 1]), n + 1)
<1> DEFINE p == SkillPaths[n + 1]
           k == disk[p].name
<1>1. p \in Paths1 /\ \A i \in 1..n + 1 : i \in 1..n \/ i = n + 1
  BY SkillNumbers
<1>2. CASE ~acc.ok \/ disk[p] = Absent
  <2>1. Added(acc, p) = acc
    BY <1>2 DEF Added
  <2>2. \A i \in 1..n + 1 : acc.ok /\ disk[SkillPaths[i]] # Absent => i \in 1..n
    BY <1>1, <1>2
  <2> HIDE DEF p
  <2> QED
    BY <2>1, <2>2 DEF LoadedOf, p
<1>3. CASE ~(~acc.ok \/ disk[p] = Absent) /\ (~Parses(p) \/ k \in DOMAIN acc.skills)
  <2>1. Added(acc, p) = Refused
    BY <1>3 DEF Added
  <2> QED
    BY <2>1 DEF LoadedOf, Refused
<1>4. CASE ~(~acc.ok \/ disk[p] = Absent) /\ ~(~Parses(p) \/ k \in DOMAIN acc.skills)
  <2> DEFINE sk == With(acc.skills, k, disk[p])
             fr == With(acc.from, k, p)
  <2>1. Added(acc, p) = Loaded(sk, fr)
    BY <1>4 DEF Added
  <2>2. Added(acc, p).skills = sk /\ Added(acc, p).from = fr
    BY <2>1 DEF Loaded
  <2> HIDE DEF p, k
  <2>3. /\ DOMAIN sk = DOMAIN acc.skills \cup {k} /\ sk[k] = disk[p] /\ \A m \in DOMAIN acc.skills : m # k => sk[m] = acc.skills[m]
        /\ DOMAIN fr = DOMAIN acc.from \cup {k} /\ fr[k] = p /\ \A m \in DOMAIN acc.from : m # k => fr[m] = acc.from[m]
    <3>1. \A f, v : /\ DOMAIN With(f, k, v) = DOMAIN f \cup {k} /\ With(f, k, v)[k] = v
                   /\ \A m \in DOMAIN f : m # k => With(f, k, v)[m] = f[m]
      BY DEF With
    <3> QED
      BY ONLY <3>1
  <2> HIDE DEF sk, fr
  <2>4. /\ DOMAIN acc.skills = DOMAIN acc.from
        /\ \A m \in DOMAIN acc.from : acc.from[m] \in Paths1 /\ acc.skills[m] = disk[acc.from[m]] /\ acc.skills[m].name = m
        /\ \A i \in 1..n : disk[SkillPaths[i]] # Absent => \E m \in DOMAIN acc.from : acc.from[m] = SkillPaths[i]
    BY <1>4 DEF LoadedOf
  <2>5. DOMAIN sk = DOMAIN fr /\ k \notin DOMAIN acc.from /\ k = disk[p].name
    BY <1>4, <2>3, <2>4 DEF k
  <2>6. \A m \in DOMAIN fr : fr[m] \in Paths1 /\ sk[m] = disk[fr[m]] /\ sk[m].name = m
    BY <1>1, <2>3, <2>4, <2>5
  <2>7. \A i \in 1..n + 1 : disk[SkillPaths[i]] # Absent => \E m \in DOMAIN fr : fr[m] = SkillPaths[i]
    <3> SUFFICES ASSUME NEW i \in 1..n + 1, disk[SkillPaths[i]] # Absent PROVE \E m \in DOMAIN fr : fr[m] = SkillPaths[i]
      OBVIOUS
    <3>1. CASE i = n + 1
      BY <2>3, <3>1 DEF p
    <3>2. CASE i \in 1..n
      BY <2>3, <2>4, <2>5, <3>2
    <3> QED
      BY <1>1, <3>1, <3>2
  <2> QED
    BY <2>2, <2>5, <2>6, <2>7 DEF LoadedOf, p
<1> QED
  BY <1>2, <1>3, <1>4 DEF p

\* loaded is what its definition says: the recursion has a solution.
LEMMA LoadedIs ==
  /\ loaded[0] = Loaded(Empty, Empty)
  /\ \A n \in 1..Len(SkillPaths) : loaded[n] = Added(loaded[n - 1], SkillPaths[n])
<1> DEFINE N == Len(SkillPaths)
           none == Loaded(Empty, Empty)
           Is(f, n) == f = [k \in 0..n |-> IF k = 0 THEN none ELSE Added(f[k - 1], SkillPaths[k])]
           D == {n \in 0..N : ~ \E f : Is(f, n)}
<1>0. N \in Nat
  BY SkillNumbers
<1> HIDE DEF none
<1>1. D = {}
  <2>1. 0 \notin D
    <3>1. Is([k \in 0..0 |-> none], 0)
      OBVIOUS
    <3> QED
      BY <3>1
  <2>2. ASSUME NEW m \in D, m # 0 PROVE m - 1 \in D
    <3>0. m \in 0..N /\ m - 1 \in 0..N /\ m \in Nat
      BY <1>0, <2>2
    <3> SUFFICES ASSUME NEW f, Is(f, m - 1) PROVE FALSE
      BY <3>0
    <3> DEFINE g == [k \in 0..m |-> IF k = m THEN Added(f[m - 1], SkillPaths[m]) ELSE f[k]]
    <3>1. ASSUME NEW k \in 0..m PROVE g[k] = IF k = 0 THEN none ELSE Added(g[k - 1], SkillPaths[k])
      <4>1. CASE k = 0
        <5>1. 0 \in 0..m - 1 /\ 0 # m
          BY <3>0, <2>2
        <5>2. f[0] = none
          BY <5>1
        <5> QED
          BY <3>0, <4>1, <5>1, <5>2
      <4>2. CASE k # 0 /\ k # m
        <5>1. k \in 0..m - 1 /\ k - 1 \in 0..m /\ k - 1 # m /\ k \in 0..m
          BY <3>0, <4>2
        <5>2. f[k] = Added(f[k - 1], SkillPaths[k])
          BY <4>2, <5>1
        <5>3. g[k] = f[k] /\ g[k - 1] = f[k - 1]
          BY <4>2, <5>1
        <5> QED
          BY <4>2, <5>2, <5>3
      <4>3. CASE k = m
        <5>1. m - 1 \in 0..m /\ m - 1 # m /\ m \in 0..m
          BY <3>0, <2>2
        <5>2. g[m - 1] = f[m - 1] /\ g[m] = Added(f[m - 1], SkillPaths[m])
          BY <5>1
        <5> QED
          BY <2>2, <4>3, <5>2
      <4> QED
        BY <4>1, <4>2, <4>3
    <3>2. Is(g, m)
      <4>1. g = [k \in 0..m |-> g[k]]
        OBVIOUS
      <4> HIDE DEF g
      <4> QED
        BY <3>1, <4>1
    <3> HIDE DEF g, Is
    <3> QED
      BY <3>2
  <2> HIDE DEF D
  <2>3. D \in SUBSET (0..N)
    BY DEF D
  <2> QED
    BY <1>0, <2>1, <2>2, <2>3, NoneUpTo
<1>2. \E f : Is(f, N)
  <2>1. N \in 0..N
    BY <1>0
  <2> QED
    BY <1>1, <2>1
<1>3. Is(loaded, N)
  <2>1. loaded = CHOOSE f : Is(f, N)
    BY DEF loaded, none
  <2> HIDE DEF Is
  <2> QED
    BY <1>2, <2>1
<1> HIDE DEF N
<1>4. 0 \in 0..N /\ \A n \in 1..N : n \in 0..N /\ n # 0
  BY <1>0
<1>5. loaded[0] = none /\ \A n \in 1..N : loaded[n] = Added(loaded[n - 1], SkillPaths[n])
  <2> DEFINE F == loaded
  <2>1. F = [k \in 0..N |-> IF k = 0 THEN none ELSE Added(F[k - 1], SkillPaths[k])]
    BY <1>3
  <2> HIDE DEF F
  <2>2. F[0] = none /\ \A n \in 1..N : F[n] = Added(F[n - 1], SkillPaths[n])
    BY <1>4, <2>1
  <2> QED
    BY <2>2 DEF F
<1> QED
  BY <1>5 DEF N, none

\* What a load makes: from every file that is there, one skill, under the name it declares.
LEMMA LoadMakes ==
  ASSUME load.ok
  PROVE  /\ DOMAIN load.skills = DOMAIN load.from
         /\ \A n \in DOMAIN load.from :
              load.from[n] \in Paths1 /\ load.skills[n] = disk[load.from[n]] /\ load.skills[n].name = n
         /\ \A p \in Paths1 : disk[p] # Absent => \E n \in DOMAIN load.from : load.from[n] = p
         /\ \A n \in DOMAIN load.skills : Range1(load.skills[n].requires) \subseteq DOMAIN load.skills
<1> DEFINE N == Len(SkillPaths)
           D == {n \in 0..N : ~LoadedOf(loaded[n], n)}
<1>0. N \in Nat
  BY SkillNumbers
<1>1. D = {}
  <2>1. 0 \notin D
    <3>1. loaded[0] = Loaded(Empty, Empty)
      BY LoadedIs
    <3>2. loaded[0].skills = Empty /\ loaded[0].from = Empty /\ DOMAIN Empty = {} /\ 1..0 = {}
      BY <3>1 DEF Loaded, Empty
    <3> QED
      BY <3>2 DEF LoadedOf
  <2>2. ASSUME NEW m \in D, m # 0 PROVE m - 1 \in D
    <3>1. m - 1 \in Nat /\ m - 1 \in 0..N /\ (m - 1) + 1 = m /\ m \in 1..N
      BY <1>0, <2>2
    <3>2. loaded[m] = Added(loaded[m - 1], SkillPaths[m])
      BY <3>1, LoadedIs
    <3>3. LoadedOf(loaded[m - 1], m - 1) => LoadedOf(loaded[m], m)
      <4>1. PICK k : k = m - 1
        OBVIOUS
      <4>2. k \in Nat /\ k + 1 = m /\ k + 1 \in 1..Len(SkillPaths)
        BY <3>1, <4>1
      <4>3. LoadedOf(loaded[k], k) => LoadedOf(Added(loaded[k], SkillPaths[k + 1]), k + 1)
        BY <4>2, OneMoreFile
      <4> QED
        BY <3>2, <4>1, <4>2, <4>3
    <3> QED
      BY <2>2, <3>1, <3>3
  <2>3. D \in SUBSET (0..N)
    OBVIOUS
  <2> HIDE DEF D
  <2> QED
    BY <1>0, <2>1, <2>2, <2>3, NoneUpTo
<1>2. LoadedOf(loaded[N], N)
  <2>1. N \in 0..N
    BY <1>0
  <2> QED
    BY <1>1, <2>1
<1>3. load = IF loaded[N].ok /\ resolve_dependencies(loaded[N].skills) THEN loaded[N] ELSE Refused
  BY DEF load
<1>4. load = loaded[N] /\ resolve_dependencies(load.skills)
  <2>1. Refused.ok = FALSE
    BY DEF Refused
  <2> QED
    BY <1>3, <2>1
<1>5. LoadedOf(load, N)
  BY <1>2, <1>4
<1> HIDE DEF N
<1>6. /\ DOMAIN load.skills = DOMAIN load.from
      /\ \A m \in DOMAIN load.from : load.from[m] \in Paths1 /\ load.skills[m] = disk[load.from[m]] /\ load.skills[m].name = m
      /\ \A i \in 1..N : disk[SkillPaths[i]] # Absent => \E m \in DOMAIN load.from : load.from[m] = SkillPaths[i]
  BY <1>5 DEF LoadedOf
<1>7. \A p \in Paths1 : disk[p] # Absent => \E n \in DOMAIN load.from : load.from[n] = p
  <2> SUFFICES ASSUME NEW p \in Paths1, disk[p] # Absent PROVE \E n \in DOMAIN load.from : load.from[n] = p
    OBVIOUS
  <2>1. PICK i \in 1..N : SkillPaths[i] = p
    BY SkillNumbers DEF N
  <2> QED
    BY <1>6, <2>1
<1> QED
  BY <1>4, <1>6, <1>7, RequiredExist

\* No file and no skill.
LEMMA SkillsBegins == SkillsInit => SkillsInv
<1> SUFFICES ASSUME SkillsInit PROVE SkillsInv
  OBVIOUS
<1>1. /\ disk = [p \in Paths1 |-> Absent] /\ by_name = Empty /\ sources = Empty /\ events = <<>> /\ refused = FALSE
  BY DEF SkillsInit, Paths1
<1>2. DOMAIN Empty = {} /\ <<>> \in Seq(Event) /\ Len(<<>>) = 0 /\ DOMAIN <<>> = {}
  BY DEF Empty
<1>3. \A p \in Paths1 : Current(p)
  BY <1>1, <1>2 DEF Current
<1> QED
  <2>1. disk \in [Paths1 -> Contents \cup {Bad, Absent}]
    BY <1>1
  <2>2. refused \in BOOLEAN /\ refused = FALSE
    BY <1>1
  <2> QED
    BY <1>1, <1>2, <1>3, <2>1, <2>2, SkillNumbers DEF SkillsInv

\* An edit leaves an event, and what the session has of other files as it was.
LEMMA EditKeeps ==
  ASSUME SkillsInv, NEW p \in Paths1, NEW c \in Contents \cup {Bad, Absent}, Edit(p, c)
  PROVE  SkillsInv'
<1> DEFINE e == [path |-> p, kind |-> IF c = Absent THEN "remove" ELSE "modify"]
<1>1. /\ disk' = [disk EXCEPT ![p] = c] /\ events' = Append(events, e) /\ Len(events) < MaxEvents
      /\ UNCHANGED <<by_name, sources, refused>>
  BY DEF Edit
<1>2. e \in Event /\ e.path = p /\ (e.kind = "remove" <=> c = Absent)
  BY DEF Event
<1>3. disk \in [Paths1 -> Contents \cup {Bad, Absent}] /\ events \in Seq(Event)
  BY DEF SkillsInv
<1>4. disk' \in [Paths1 -> Contents \cup {Bad, Absent}] /\ disk'[p] = c /\ \A q \in Paths1 : q # p => disk'[q] = disk[q]
  BY <1>1, <1>3
<1> HIDE DEF e
<1>5. /\ events' \in Seq(Event) /\ Len(events) \in Nat /\ Len(events') = Len(events) + 1
      /\ DOMAIN events' = 1..Len(events) + 1 /\ DOMAIN events = 1..Len(events)
      /\ events'[Len(events) + 1] = e /\ \A i \in 1..Len(events) : events'[i] = events[i]
  BY <1>1, <1>2, <1>3, OneMoreEvent
<1>6. Len(events') <= MaxEvents
  BY <1>1, <1>5, SkillNumbers
<1>7. ASSUME NEW i \in DOMAIN events', \A j \in DOMAIN events' : j > i => events'[j].path # events'[i].path
      PROVE  events'[i].kind = "remove" <=> disk'[events'[i].path] = Absent
  <2>1. CASE i = Len(events) + 1
    BY <1>2, <1>4, <1>5, <2>1
  <2>2. CASE i # Len(events) + 1
    <3>1. i \in 1..Len(events) /\ events'[i] = events[i] /\ events[i] \in Event /\ i \in DOMAIN events
      BY <1>3, <1>5, <2>2
    <3>2. Len(events) + 1 \in DOMAIN events' /\ Len(events) + 1 > i
      BY <1>5, <3>1
    <3>3. events[i].path # p
      BY <1>2, <1>5, <1>7, <3>1, <3>2
    <3>4. \A j \in DOMAIN events : j > i => events[j].path # events[i].path
      <4> SUFFICES ASSUME NEW j \in DOMAIN events, j > i PROVE events[j].path # events[i].path
        OBVIOUS
      <4>1. j \in DOMAIN events' /\ events'[j] = events[j]
        BY <1>5
      <4> QED
        BY <1>7, <3>1, <4>1
    <3>5. events[i].kind = "remove" <=> disk[events[i].path] = Absent
      BY <3>1, <3>4 DEF SkillsInv
    <3>6. events[i].path \in Paths1
      BY <3>1 DEF Event
    <3> QED
      BY <1>4, <3>1, <3>3, <3>5, <3>6
  <2> QED
    BY <2>1, <2>2
<1>8. ASSUME refused' = FALSE, NEW q \in Paths1 PROVE PendingAt(q)' \/ Current(q)'
  <2>1. CASE q = p
    BY <1>2, <1>5, <2>1 DEF PendingAt
  <2>2. CASE q # p /\ PendingAt(q)
    BY <1>5, <2>2 DEF PendingAt
  <2>3. CASE q # p /\ Current(q)
    <3>1. disk'[q] = disk[q]
      BY <1>4, <2>3
    <3> QED
      BY <1>1, <2>3, <3>1 DEF Current
  <2> QED
    BY <1>1, <1>8, <2>1, <2>2, <2>3 DEF SkillsInv
<1>9. \A n \in DOMAIN by_name' : Requires(n)' \subseteq DOMAIN by_name'
  BY <1>1 DEF SkillsInv, Requires
<1>10. refused \in BOOLEAN /\ DOMAIN by_name = DOMAIN sources /\ (\A n \in DOMAIN sources : sources[n] \in Paths1)
       /\ \A m \in DOMAIN sources : \A n \in DOMAIN sources : sources[m] = sources[n] => m = n
  BY DEF SkillsInv
<1> QED
  BY <1>1, <1>4, <1>5, <1>6, <1>7, <1>8, <1>9, <1>10 DEF SkillsInv

\* An event applied: what it changed is what its file holds, or a later event of the file
\* is still to come.
LEMMA EventKeeps == SkillsInv /\ apply_event => SkillsInv'
<1> SUFFICES ASSUME SkillsInv, apply_event PROVE SkillsInv'
  OBVIOUS
<1>e. PICK e : e = Head(events)
  OBVIOUS
<1> DEFINE next == apply_event_in_place(e)
<1>0. events # <<>> /\ events' = Tail(events) /\ disk' = disk
  BY DEF apply_event
<1>1. /\ disk \in [Paths1 -> Contents \cup {Bad, Absent}] /\ events \in Seq(Event) /\ Len(events) <= MaxEvents
      /\ refused \in BOOLEAN /\ DOMAIN by_name = DOMAIN sources /\ \A n \in DOMAIN sources : sources[n] \in Paths1
  BY DEF SkillsInv
<1>2. /\ e = events[1] /\ e \in Event /\ events' \in Seq(Event) /\ Len(events) \in Nat /\ Len(events) >= 1
      /\ Len(events') = Len(events) - 1 /\ DOMAIN events' = 1..Len(events) - 1 /\ DOMAIN events = 1..Len(events)
      /\ \A i \in 1..Len(events) - 1 : events'[i] = events[i + 1]
  BY <1>0, <1>1, <1>e, EventsLeft
<1>3. Len(events') <= MaxEvents
  BY <1>1, <1>2, SkillNumbers
<1>4. ASSUME NEW i \in DOMAIN events', \A j \in DOMAIN events' : j > i => events'[j].path # events'[i].path
      PROVE  events'[i].kind = "remove" <=> disk'[events'[i].path] = Absent
  <2>1. i \in 1..Len(events) - 1 /\ i + 1 \in DOMAIN events /\ events'[i] = events[i + 1]
    BY <1>2
  <2>2. \A j \in DOMAIN events : j > i + 1 => events[j].path # events[i + 1].path
    <3> SUFFICES ASSUME NEW j \in DOMAIN events, j > i + 1 PROVE events[j].path # events[i + 1].path
      OBVIOUS
    <3>1. PICK k : k = j - 1
      OBVIOUS
    <3>2. k \in DOMAIN events' /\ k > i /\ k + 1 = j
      BY <1>2, <2>1, <3>1
    <3>3. events'[k] = events[j]
      BY <1>2, <3>2
    <3> QED
      BY <1>4, <2>1, <3>2, <3>3
  <2>3. events[i + 1].kind = "remove" <=> disk[events[i + 1].path] = Absent
    BY <2>1, <2>2 DEF SkillsInv
  <2> QED
    BY <1>0, <2>1, <2>3
<1>5. \A q \in Paths1 : PendingAt(q) => q = e.path \/ PendingAt(q)'
  <2> SUFFICES ASSUME NEW q \in Paths1, NEW i \in DOMAIN events, events[i].path = q, q # e.path PROVE PendingAt(q)'
    BY DEF PendingAt
  <2>1. PICK k : k = i - 1
    OBVIOUS
  <2>2. k \in DOMAIN events' /\ k + 1 = i
    BY <1>2, <2>1
  <2>3. events'[k] = events[i]
    BY <1>2, <2>2
  <2> QED
    BY <2>2, <2>3 DEF PendingAt
<1>6. ASSUME ~PendingAt(e.path)' PROVE e.kind = "remove" <=> disk[e.path] = Absent
  <2>1. \A j \in DOMAIN events : j > 1 => events[j].path # events[1].path
    <3> SUFFICES ASSUME NEW j \in DOMAIN events, j > 1, events[j].path = events[1].path PROVE FALSE
      OBVIOUS
    <3>1. PICK k : k = j - 1
      OBVIOUS
    <3>2. k \in DOMAIN events' /\ k + 1 = j
      BY <1>2, <3>1
    <3>3. events'[k] = events[j]
      BY <1>2, <3>2
    <3> QED
      BY <1>2, <1>6, <3>2, <3>3 DEF PendingAt
  <2>2. 1 \in DOMAIN events
    BY <1>2
  <2>3. events[1].kind = "remove" <=> disk[events[1].path] = Absent
    BY <2>1, <2>2 DEF SkillsInv
  <2> QED
    BY <1>2, <2>3
<1>7. IF next.ok THEN by_name' = next.skills /\ sources' = next.from /\ refused' = refused
      ELSE refused' = TRUE /\ UNCHANGED <<by_name, sources>>
  BY <1>e DEF apply_event
<1>8. CASE next.ok
  <2> DEFINE sk == next.skills
             fr == next.from
  <2>1. /\ DOMAIN sk = DOMAIN fr
        /\ \A n \in DOMAIN fr :
              \/ n \in DOMAIN sources /\ sources[n] # e.path /\ fr[n] = sources[n] /\ sk[n] = by_name[n]
              \/ e.kind # "remove" /\ n = disk[e.path].name /\ fr[n] = e.path /\ sk[n] = disk[e.path]
        /\ \A n \in DOMAIN sources : sources[n] # e.path => n \in DOMAIN fr /\ fr[n] = sources[n] /\ sk[n] = by_name[n]
        /\ e.kind # "remove" => disk[e.path].name \in DOMAIN fr /\ fr[disk[e.path].name] = e.path
        /\ \A n \in DOMAIN sk : Range1(sk[n].requires) \subseteq DOMAIN sk
    BY <1>2, <1>8, EventMakes
  <2>2. by_name' = sk /\ sources' = fr /\ refused' = refused
    BY <1>7, <1>8
  <2> HIDE DEF sk, fr, next
  <2>3. e.path \in Paths1
    BY <1>2 DEF Event
  <2>4. \A n \in DOMAIN fr : fr[n] \in Paths1
    BY <1>1, <2>1, <2>3
  <2>5. \A m \in DOMAIN fr : \A n \in DOMAIN fr : fr[m] = fr[n] => m = n
    <3>1. \A m \in DOMAIN sources : \A n \in DOMAIN sources : sources[m] = sources[n] => m = n
      BY DEF SkillsInv
    <3> QED
      BY <2>1, <3>1
  <2>6. \A n \in DOMAIN by_name' : Requires(n)' \subseteq DOMAIN by_name'
    BY <2>1, <2>2 DEF Requires
  <2>7. ASSUME refused' = FALSE, NEW q \in Paths1, ~PendingAt(q)' PROVE Current(q)'
    <3>1. CASE q = e.path
      <4>1. e.kind = "remove" <=> disk[e.path] = Absent
        BY <1>6, <2>7, <3>1
      <4>2. disk[q] # Absent => \E n \in DOMAIN fr : fr[n] = q
        BY <2>1, <3>1, <4>1
      <4>3. \A n \in DOMAIN fr : fr[n] = q => disk[q] = sk[n] /\ sk[n].name = n
        BY <2>1, <3>1
      <4> QED
        BY <1>0, <2>2, <4>2, <4>3 DEF Current
    <3>2. CASE q # e.path
      <4>1. Current(q)
        BY <1>5, <2>2, <2>7, <3>2 DEF SkillsInv
      <4>2. disk[q] # Absent => \E n \in DOMAIN fr : fr[n] = q
        BY <2>1, <3>2, <4>1 DEF Current
      <4>3. \A n \in DOMAIN fr : fr[n] = q => disk[q] = sk[n] /\ sk[n].name = n
        BY <2>1, <3>2, <4>1 DEF Current
      <4> QED
        BY <1>0, <2>2, <4>2, <4>3 DEF Current
    <3> QED
      BY <3>1, <3>2
  <2>8. refused' = FALSE => \A q \in Paths1 : PendingAt(q)' \/ Current(q)'
    BY <2>7
  <2> QED
    BY <1>0, <1>1, <1>2, <1>3, <1>4, <2>1, <2>2, <2>4, <2>5, <2>6, <2>8 DEF SkillsInv
<1>9. CASE ~next.ok
  <2>1. refused' = TRUE /\ UNCHANGED <<by_name, sources>>
    BY <1>7, <1>9
  <2> HIDE DEF next
  <2>2. \A n \in DOMAIN by_name' : Requires(n)' \subseteq DOMAIN by_name'
    BY <2>1 DEF SkillsInv, Requires
  <2>3. \A m \in DOMAIN sources : \A n \in DOMAIN sources : sources[m] = sources[n] => m = n
    BY DEF SkillsInv
  <2> QED
    BY <1>0, <1>1, <1>2, <1>3, <1>4, <2>1, <2>2, <2>3 DEF SkillsInv
<1> QED
  BY <1>8, <1>9

\* The directory loaded anew, or nothing.
LEMMA ReloadKeeps == SkillsInv /\ Reload => SkillsInv'
<1> SUFFICES ASSUME SkillsInv, Reload PROVE SkillsInv'
  OBVIOUS
<1>1. events' = <<>> /\ disk' = disk /\ disk \in [Paths1 -> Contents \cup {Bad, Absent}]
  BY DEF Reload, SkillsInv
<1>2. <<>> \in Seq(Event) /\ Len(<<>>) = 0 /\ DOMAIN <<>> = {}
  OBVIOUS
<1>3. CASE load.ok
  <2>1. by_name' = load.skills /\ sources' = load.from
    BY <1>3 DEF Reload
  <2>2. refused' \in BOOLEAN
    BY DEF Reload
  <2> DEFINE sk == load.skills
             fr == load.from
  <2>3. /\ DOMAIN sk = DOMAIN fr
        /\ \A n \in DOMAIN fr : fr[n] \in Paths1 /\ sk[n] = disk[fr[n]] /\ sk[n].name = n
        /\ \A p \in Paths1 : disk[p] # Absent => \E n \in DOMAIN fr : fr[n] = p
        /\ \A n \in DOMAIN sk : Range1(sk[n].requires) \subseteq DOMAIN sk
    BY <1>3, LoadMakes
  <2> HIDE DEF sk, fr
  <2>4. by_name' = sk /\ sources' = fr
    BY <2>1 DEF sk, fr
  <2>5. \A m \in DOMAIN fr : \A n \in DOMAIN fr : fr[m] = fr[n] => m = n
    BY <2>3
  <2>6. \A q \in Paths1 : Current(q)'
    BY <1>1, <2>3, <2>4 DEF Current
  <2>7. \A n \in DOMAIN by_name' : Requires(n)' \subseteq DOMAIN by_name'
    BY <2>3, <2>4 DEF Requires
  <2> QED
    BY <1>1, <1>2, <2>2, <2>3, <2>4, <2>5, <2>6, <2>7, SkillNumbers DEF SkillsInv
<1>4. CASE ~load.ok
  <2>1. by_name' = Empty /\ sources' = Empty /\ refused' = TRUE /\ DOMAIN Empty = {}
    BY <1>4 DEF Reload, Empty
  <2> QED
    BY <1>1, <1>2, <2>1, SkillNumbers DEF SkillsInv
<1> QED
  BY <1>3, <1>4

\* The skills' invariant is inductive.
LEMMA SkillsInvKept == SkillsInv /\ [SkillsNext]_skillVars => SkillsInv'
<1> SUFFICES ASSUME SkillsInv, [SkillsNext]_skillVars PROVE SkillsInv'
  OBVIOUS
<1>1. CASE UNCHANGED skillVars
  BY <1>1 DEF skillVars, SkillsInv, PendingAt, Current, Requires
<1>2. CASE \E p \in Paths1 : \E c \in Contents \cup {Bad, Absent} : Edit(p, c)
  BY <1>2, EditKeeps
<1> QED
  BY <1>1, <1>2, EventKeeps, ReloadKeeps DEF SkillsNext, Paths1

\* What the invariant says of a session's skills.
LEMMA SkillsTyped == SkillsInv => SkillsTypeOK /\ SkillsFollowDisk
<1> SUFFICES ASSUME SkillsInv PROVE SkillsTypeOK /\ SkillsFollowDisk
  OBVIOUS
<1>1. SkillsTypeOK
  BY DEF SkillsInv, SkillsTypeOK, Paths1
<1>2. ASSUME events = <<>>, ~refused
      PROVE  /\ \A n \in DOMAIN by_name : disk[sources[n]] = by_name[n] /\ by_name[n].name = n
             /\ \A p \in Paths1 : disk[p] # Absent => p \in Range1(sources)
  <2>1. \A p \in Paths1 : Current(p)
    BY <1>2 DEF SkillsInv, PendingAt
  <2>2. DOMAIN by_name = DOMAIN sources /\ \A n \in DOMAIN sources : sources[n] \in Paths1
    BY DEF SkillsInv
  <2> QED
    BY <2>1, <2>2 DEF Current, Range1
<1> QED
  BY <1>1, <1>2 DEF SkillsFollowDisk, Paths1

\* However files are edited and whenever the watcher's events are applied, once they all
\* were and none was refused the session has exactly the skills of the directory, each from
\* its file's last content, for every directory and any number of events (Skills::load,
\* apply_event).
THEOREM SkillsFollow == SkillsSpec => []SkillsFollowDisk
BY SkillsBegins, SkillsInvKept, SkillsTyped, PTL DEF SkillsSpec

-----------------------------------------------------------------------------
(***************************************************************************)
(* The scenes of MCPeers                                                   *)
(***************************************************************************)
\* The invariants of the three clients, together.
ClientsInv == McpInv /\ LspInv /\ DapInv

\* A step of one component leaves every other as it was.
LEMMA ClientsApart ==
  [Next]_allVars => [McpNext]_mcpVars /\ [LspNext]_lspVars /\ [DapNext]_dapVars
BY DEF Next, allVars, Others, Processes, Extensions, mcpVars, lspVars, dapVars

\* Whatever the scene, the three clients' invariants hold of every state.
LEMMA ClientsInductive == Spec => []ClientsInv
<1>1. Init => ClientsInv
  BY McpBegins, LspBegins, DapBegins DEF Init, ClientsInv
<1>2. ClientsInv /\ [Next]_allVars => ClientsInv'
  BY ClientsApart, McpInvKept, LspInvKept, DapInvKept DEF ClientsInv
<1> QED
  BY <1>1, <1>2, PTL DEF Spec

\* What a call to an MCP, language or debug server returns is that server's answer to
\* that call, however the server dies, is restarted, answers late or in pieces; a debug
\* adapter that answers in order is never waited on for what was read already; and what
\* an MCP server was seen to offer is neither changed nor taken back (Transport::call,
\* references, request, append).
THEOREM AnswersMine ==
  ASSUME AnswersInOrder
  PROVE  Spec => AnswersAreMine
<1> DEFINE Mine1 == CASE scene = "mcp" -> AnswerIsMine
                      [] scene = "lsp" -> LspAnswerIsMine
                      [] scene = "dap" -> DapAnswerIsMine /\ NeverStarves
                      [] OTHER -> TRUE
<1>1. ClientsInv => Mine1
  <2> SUFFICES ASSUME ClientsInv PROVE Mine1
    OBVIOUS
  <2>1. AnswerIsMine /\ LspAnswerIsMine /\ DapAnswerIsMine /\ NeverStarves
    BY LspTyped, DapTyped DEF ClientsInv, McpInv
  <2> QED
    BY <2>1
<1>2. ClientsInv /\ [Next]_allVars => [TableGrows]_mcpVars
  BY ClientsApart, McpInvKept DEF ClientsInv
<1>3. AnswersAreMine <=> []Mine1 /\ [][TableGrows]_mcpVars
  BY DEF AnswersAreMine, ManifestKept
<1> HIDE DEF Mine1
<1> QED
  BY <1>1, <1>2, <1>3, ClientsInductive, PTL DEF Spec

\* The same of what is started, what it prints, and the project's gate.
ProcessesInv == SpawnInv /\ ShaperInv /\ GateInv

\* A step of one of the three leaves the other two as they were.
LEMMA ProcessesApart ==
  [Next]_allVars => [SpawnNext]_spawnVars /\ [ShaperNext]_shaperVars /\ [GateNext]_runGateVars
BY DEF Next, allVars, Others, Processes, Extensions, spawnVars, shaperVars, runGateVars

\* Where no process leaves cargo's group, the three invariants hold of every state.
LEMMA ProcessesInductive ==
  ASSUME ~MayLeaveGroup
  PROVE  Spec => []ProcessesInv
<1>1. Init => ProcessesInv
  BY SpawnBegins, ShaperBegins, GateBegins DEF Init, ProcessesInv
<1>2. ProcessesInv /\ [Next]_allVars => ProcessesInv'
  BY ProcessesApart, SpawnInvKept, ShaperInvKept, GateInvKept DEF ProcessesInv
<1> QED
  BY <1>1, <1>2, PTL DEF Spec

\* A session that no other forked beside has its output end with its child and waits for
\* nobody else's, a signal reaches only its own child, every child was vetted and leaks
\* nothing that was open when its descriptors were audited, whichever sessions spawn at
\* once and whatever other threads open; the text shown does not depend on how the reads
\* cut the stream, and a gate that is done waited for nothing outside its group and lost
\* no output, however many sessions, processes, bytes and reads there are (Spawner,
\* ShellSession, AnsiShaper, run_gate).
THEOREM ProcessesSafe ==
  ASSUME ~MayLeaveGroup
  PROVE  Spec => []ProcessesContained
<1>1. ProcessesInv => ProcessesContained
  <2> SUFFICES ASSUME ProcessesInv PROVE ProcessesContained
    OBVIOUS
  <2>1. OutputEnds /\ SignalsOwnChild /\ ChildrenVetted /\ ChunksDoNotMatter /\ GateBounded
    BY SpawnTyped, ShaperShows, GateTyped DEF ProcessesInv
  <2> QED
    BY <2>1 DEF ProcessesContained
<1> QED
  BY <1>1, ProcessesInductive, PTL

\* The rest: the gate before a tool, the provider, what is shown, plugins and skills.
RestInv == ToolGateInv /\ ProviderInv /\ ShaperStands /\ PluginInv /\ SkillsInv /\ scene \in AllScenes

\* A step of one of them leaves the others as they were.
LEMMA RestApart ==
  [Next]_allVars => /\ scene' = scene /\ [ToolGateNext]_toolGateVars /\ [ProviderNext]_providerVars /\ [ShaperNext]_shaperVars
                    /\ [PluginNext]_pluginVars /\ [SkillsNext]_skillVars
BY DEF Next, allVars, Others, Processes, Extensions, toolGateVars, providerVars, shaperVars, pluginVars, skillVars

\* Whatever the scene, their invariants hold of every state.
LEMMA RestInductive == Spec => []RestInv
<1>1. Init => RestInv
  BY ToolGateBegins, ProviderBegins, ShaperStandsFirst, PluginBegins, SkillsBegins, ScenesAssumption DEF Init, RestInv
<1>2. RestInv /\ [Next]_allVars => RestInv'
  BY RestApart, ToolGateKept, ProviderInvKept, ShaperStandsKept, PluginInvKept, SkillsInvKept DEF RestInv
<1> QED
  BY <1>1, <1>2, PTL DEF Spec

\* The state of every component stays of its type.
THEOREM PeersTyped ==
  ASSUME ~MayLeaveGroup
  PROVE  Spec => []TypesOK
<1>1. ClientsInv /\ ProcessesInv /\ RestInv => TypesOK
  <2> SUFFICES ASSUME ClientsInv, ProcessesInv, RestInv PROVE TypesOK
    OBVIOUS
  <2>1. McpTypeOK /\ LspTypeOK /\ DapTypeOK
    BY McpTyped, LspTyped, DapTyped DEF ClientsInv
  <2>2. SpawnTypeOK /\ GateTypeOK
    BY SpawnTyped, GateTyped DEF ProcessesInv
  <2>3. ToolGateTypeOK /\ ProviderTypeOK /\ ShaperTypeOK /\ PluginTypeOK /\ SkillsTypeOK
    BY ShaperTyped, PluginTyped, SkillsTyped DEF RestInv, ToolGateInv, ProviderInv
  <2> QED
    BY <2>1, <2>2, <2>3 DEF TypesOK, AllScenes, RestInv
<1> QED
  BY <1>1, ClientsInductive, ProcessesInductive, RestInductive, PTL
=============================================================================
