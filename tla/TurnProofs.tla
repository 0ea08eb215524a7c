----------------------------- MODULE TurnProofs -----------------------------
(***************************************************************************)
(* Proofs about one run of the turn loop, for any cohort of agents, any    *)
(* peer limit and any number of provider attempts: an answer is sealed     *)
(* only with a quorum behind it, the board takes every verdict and the     *)
(* events tell what it holds, and no call outlives the run.                *)
(*                                                                         *)
(* Every step of the run is a step of the blackboard or leaves it alone,   *)
(* so the blackboard's invariant is the run's, and what is new here is how *)
(* the runtime's own state follows the claim's row.                        *)
(***************************************************************************)
EXTENDS Turn, BlackboardProofs, SequenceTheorems

-----------------------------------------------------------------------------
(***************************************************************************)
(* The inductive invariant.  Up to `start` nothing has happened; from then *)
(* on the claim's row is this run's, and the phase says how far it got.    *)
(***************************************************************************)
Event == {"TurnStarted", "ClaimPublished", "VoteCast", "QuorumReached",
          "QuorumUnreachable", "CohortAborted", "SegmentSealed", "TurnCompleted"}

Before  == {"session_start", "turn_start", "open", "start"}
Decided == {"finish", "turn_end", "save", "session_end", "done"}

Quiet ==
  /\ ~Stored(claim) /\ joined = {} /\ events = <<>>
  /\ ~answered /\ ~finished /\ ~saved
  /\ \A a \in Agent : call[a] = "unsent"

\* The row of the claim is the one this run published, and the board's memory
\* of it says what the row says.
Published ==
  /\ Stored(claim) /\ up[board] /\ proposer \in session
  /\ bb_claim[claim].k = k /\ bb_claim[claim].proposer = proposer
  /\ bb_validator[claim] = Validators
  /\ claims[board][claim].status \in QuorumStatus
  /\ bb_claim[claim].status = status_text(claims[board][claim].status)

\* The votes stored are the verdicts joined.
VotesAreVerdicts ==
  /\ joined \subseteq Validators
  /\ ~answered => joined = {}
  /\ \A a \in joined : call[a] = "ended"
  /\ \A a \in Agent :
       /\ bb_vote[claim][a] # "none" => a \in joined /\ bb_vote[claim][a] = verdict[a]
       /\ a \in joined /\ verdict[a] \in Vote => bb_vote[claim][a] = verdict[a]

\* How far the run got, and what may still be running there.
Now == claims[board][claim].status

PhaseOK ==
  /\ phase = "proposing" => Now = "Open" /\ ~answered
  /\ phase = "collecting" => Now = "Open" /\ answered
  /\ phase = "aborting" => Now # "Open" /\ answered
  /\ phase \in Decided => Now = "Reached" /\ answered
  /\ phase \in {"proposing", "collecting", "aborting", "finish"} => ~finished
  /\ finished \/ saved => Now = "Reached"
  /\ \A a \in Agent : call[a] = "sending" =>
       \/ phase = "proposing" /\ a = proposer
       \/ phase \in {"collecting", "aborting"} /\ a \in Validators

\* The events so far, told by what they follow from.
EventsOK ==
  /\ Count("VoteCast") = Cardinality({a \in Agent : bb_vote[claim][a] # "none"})
  /\ \A i \in At("VoteCast"), j \in At("CohortAborted") : i < j
  /\ At("CohortAborted") # {} => bb_claim[claim].status # "open"
  /\ At("QuorumReached") # {} <=> bb_claim[claim].status = "reached"
  /\ At("QuorumUnreachable") # {} <=> bb_claim[claim].status = "unreachable"
  /\ Count("TurnCompleted") = IF finished THEN 1 ELSE 0

Running == Published /\ VotesAreVerdicts /\ PhaseOK /\ EventsOK

TurnInv ==
  /\ IInv
  /\ TurnTypeOK /\ events \in Seq(Event)
  /\ phase \in {"open", "start"} => proposer \in session
  /\ phase = "start" => up[board]
  /\ phase \in Before => Quiet
  /\ phase \notin Before \cup {"failed"} => Running
  /\ phase = "failed" => Quiet \/ Running
-----------------------------------------------------------------------------
(***************************************************************************)
(* The names a run chooses, and the cohort it admits.                      *)
(***************************************************************************)
\* The board, the claim and the turn are ones there are, and the proposer is
\* the agent with the least id.
LEMMA Chosen ==
  /\ board \in Board /\ claim \in Claim /\ turnId \in TurnId
  /\ proposer \in Agent /\ \A other \in Agent : proposer <= other
<1>1. \E a \in Agent : \A other \in Agent : a <= other
  BY TurnAssumption, AgentAssumption, NatMin
<1> QED
  BY <1>1, TurnAssumption DEF board, claim, turnId, proposer

\* An admitted cohort is never empty.
LEMMA AdmitsSome ==
  ASSUME NEW tier \in Tier, NEW limit \in 1..MaxLimit
  PROVE  admit(tier, limit).k \in Nat \ {0}
<1> DEFINE top == largest_within(limit)
           got == IF tier <= top THEN tier ELSE top
<1>1. limit \in Nat \ {0}
  BY TurnAssumption DEF PEER_CEILING
<1>2. top \in Fitting(limit)
  <2> DEFINE best == IF limit >= 33 THEN 5 ELSE IF limit >= 16 THEN 4 ELSE IF limit >= 7
                     THEN 3 ELSE IF limit >= 3 THEN 2 ELSE IF limit >= 2 THEN 1 ELSE 0
  <2>1. best \in Fitting(limit) /\ \A other \in Fitting(limit) : other <= best
    BY <1>1 DEF Fitting, Tier, k_low
  <2> QED BY <2>1 DEF largest_within
<1>3. top \in Tier /\ k_low(top) <= limit
  BY <1>2 DEF Fitting
<1>4. admit(tier, limit).k = k_for_limit(got, limit)
  BY DEF admit
<1> HIDE DEF top
<1>5. got \in Tier /\ got <= top
  BY <1>3 DEF Tier
<1> HIDE DEF got
<1>6. k_low(got) <= k_low(top) /\ k_low(got) \in Nat \ {0} /\ k_low(top) \in Nat /\ k_high(got) \in Nat \ {0}
  BY <1>3, <1>5 DEF Tier, k_low, k_high, PEER_CEILING
<1> QED
  BY <1>1, <1>3, <1>4, <1>6 DEF k_for_limit

-----------------------------------------------------------------------------
(***************************************************************************)
(* Events are appended one after the other.                                *)
(***************************************************************************)
\* The places at which a kind of event stands in a sequence of them.
Places(evs, kind) == {i \in DOMAIN evs : evs[i] = kind}

\* One more event adds its own place, after all the others, to its kind only.
LEMMA PlacesAppend ==
  ASSUME NEW evs \in Seq(Event), NEW e \in Event, NEW kind
  PROVE  /\ Append(evs, e) \in Seq(Event)
         /\ Places(Append(evs, e), kind) =
              Places(evs, kind) \cup (IF e = kind THEN {Len(evs) + 1} ELSE {})
         /\ Len(evs) \in Nat /\ Len(Append(evs, e)) = Len(evs) + 1
         /\ Len(evs) + 1 \notin Places(evs, kind)
         /\ \A i \in Places(evs, kind) : i \in 1..Len(evs)
<1>1. /\ Append(evs, e) \in Seq(Event) /\ Len(evs) \in Nat
      /\ DOMAIN Append(evs, e) = 1..(Len(evs) + 1) /\ DOMAIN evs = 1..Len(evs)
      /\ Len(Append(evs, e)) = Len(evs) + 1
  OBVIOUS
<1>2. \A i \in 1..(Len(evs) + 1) :
        Append(evs, e)[i] = IF i = Len(evs) + 1 THEN e ELSE evs[i]
  OBVIOUS
<1>3. \A i : i \in 1..(Len(evs) + 1) <=> i \in 1..Len(evs) \/ i = Len(evs) + 1
  BY <1>1
<1>4. Len(evs) + 1 \notin 1..Len(evs)
  BY <1>1
<1> QED
  BY <1>1, <1>2, <1>3, <1>4 DEF Places

\* An event of another kind leaves a kind's places as they are.
LEMMA PlacesOther ==
  ASSUME NEW evs \in Seq(Event), NEW e \in Event, NEW kind, e # kind
  PROVE  Places(Append(evs, e), kind) = Places(evs, kind)
<1>1. Places(Append(evs, e), kind) =
        Places(evs, kind) \cup (IF e = kind THEN {Len(evs) + 1} ELSE {})
  BY PlacesAppend
<1> QED BY <1>1

\* A kind's places are finite in number, and one more event counts one more
\* of its kind.
LEMMA PlacesCounted ==
  ASSUME NEW evs \in Seq(Event), NEW kind
  PROVE  /\ IsFiniteSet(Places(evs, kind))
         /\ Cardinality(Places(evs, kind)) \in Nat
         /\ \A e \in Event : Cardinality(Places(Append(evs, e), kind)) =
              Cardinality(Places(evs, kind)) + (IF e = kind THEN 1 ELSE 0)
<1>1. Len(evs) \in Nat /\ DOMAIN evs = 1..Len(evs)
  OBVIOUS
<1>2. IsFiniteSet(1..Len(evs))
  BY <1>1, FS_Interval
<1>3. Places(evs, kind) \subseteq 1..Len(evs)
  BY <1>1 DEF Places
<1>4. IsFiniteSet(Places(evs, kind)) /\ Cardinality(Places(evs, kind)) \in Nat
  BY <1>2, <1>3, FS_Subset, FS_CardinalityType
<1>5. ASSUME NEW e \in Event
      PROVE  Cardinality(Places(Append(evs, e), kind)) =
               Cardinality(Places(evs, kind)) + (IF e = kind THEN 1 ELSE 0)
  <2>1. /\ Places(Append(evs, e), kind) =
             Places(evs, kind) \cup (IF e = kind THEN {Len(evs) + 1} ELSE {})
        /\ Len(evs) + 1 \notin Places(evs, kind)
    BY PlacesAppend
  <2>2. CASE e = kind
    <3>1. Places(Append(evs, e), kind) = Places(evs, kind) \cup {Len(evs) + 1}
      BY <2>1, <2>2
    <3> QED BY <2>1, <2>2, <3>1, <1>4, FS_AddElement
  <2>3. CASE e # kind
    <3>1. Places(Append(evs, e), kind) = Places(evs, kind)
      BY <2>1, <2>3
    <3> QED BY <2>3, <3>1, <1>4
  <2> QED BY <2>2, <2>3
<1> QED BY <1>4, <1>5

\* Emitting two or three events is appending them one by one.
LEMMA Emitted ==
  ASSUME NEW evs \in Seq(Event), NEW x \in Event, NEW y \in Event, NEW z \in Event
  PROVE  /\ evs \o <<x>> = Append(evs, x)
         /\ evs \o <<x, y>> = Append(Append(evs, x), y)
         /\ evs \o <<x, y, z>> = Append(Append(Append(evs, x), y), z)
OBVIOUS
-----------------------------------------------------------------------------
(***************************************************************************)
(* Steps that leave the board alone.                                       *)
(***************************************************************************)
\* The run begins with nothing done.
LEMMA BeginOK == TurnInit => TurnInv
<1> SUFFICES ASSUME TurnInit PROVE TurnInv
  OBVIOUS
<1>1. IInv
  BY InitOK DEF TurnInit
<1>2. Quiet
  BY Chosen DEF TurnInit, Init, Quiet, Stored, NoRow
<1>3. TurnTypeOK
  <2>1. TypeOK
    BY <1>1 DEF IInv
  <2>2. 0 \in 0..MaxAttempts
    BY TurnAssumption
  <2>3. /\ call \in [Agent -> CallState] /\ verdict \in [Agent -> Result]
        /\ attempt \in [Agent -> 0..MaxAttempts]
    BY <2>2 DEF TurnInit, CallState, Result
  <2> QED BY <2>1, <2>3 DEF TurnInit, TurnTypeOK, Phase, Why
<1> QED
  BY <1>1, <1>2, <1>3 DEF TurnInit, TurnInv, Before

\* When the board and the calls are left alone and the run goes from one phase
\* to another, the invariant only has to hold of the phase.
LEMMA PhaseMoves ==
  ASSUME TurnInv, UNCHANGED <<vars, answered, peerVars, joined, events, finished>>,
         phase' \in Phase, why' \in Why, saved' \in BOOLEAN, session' \in SUBSET Agent,
         phase' \in {"open", "start"} => proposer \in session',
         phase' = "start" => up[board],
         phase' \in Before => Quiet,
         phase' \notin Before \cup {"failed"} => Running,
         Running => /\ session' = session /\ PhaseOK'
                    /\ phase' \notin Before,
         Quiet => ~saved'
  PROVE  TurnInv'
<1>1. IInv'
  BY StepOK DEF TurnInv
<1>2. /\ bb_claim' = bb_claim /\ bb_validator' = bb_validator /\ bb_vote' = bb_vote
      /\ up' = up /\ claims' = claims
      /\ call' = call /\ verdict' = verdict /\ attempt' = attempt
      /\ answered' = answered /\ joined' = joined /\ events' = events
      /\ finished' = finished
  BY DEF vars, peerVars
<1>3. TurnTypeOK' /\ events' \in Seq(Event)
  BY <1>1, <1>2 DEF TurnInv, IInv, TurnTypeOK
<1>4. Quiet => Quiet'
  BY <1>2 DEF Quiet, Stored
<1>5. Running => Running'
  <2> SUFFICES ASSUME Running PROVE Running'
    OBVIOUS
  <2>1. session' = session /\ PhaseOK'
    OBVIOUS
  <2>2. Published'
    BY <1>2, <2>1 DEF Running, Published, Stored, Validators, blind, k
  <2>3. VotesAreVerdicts'
    BY <1>2, <2>1 DEF Running, VotesAreVerdicts, Validators, blind, k
  <2>4. EventsOK'
    BY <1>2 DEF Running, EventsOK, Count, At
  <2> QED BY <2>1, <2>2, <2>3, <2>4 DEF Running
<1>6. Quiet \/ Running
  BY DEF TurnInv
<1>7. phase' \in {"open", "start"} => proposer \in session'
  OBVIOUS
<1>8. phase' = "start" => up'[board]
  BY <1>2
<1> QED
  BY <1>1, <1>3, <1>4, <1>5, <1>6, <1>7, <1>8 DEF TurnInv

\* A hook point in front of `next`: the phase it leads to.
LEMMA HookMoves ==
  ASSUME NEW outcome, NEW next, NEW heeded, fire_hooks(outcome, next, heeded)
  PROVE  /\ phase' \in {next, "failed"} /\ why' \in {why, "hook", "stop"}
BY DEF fire_hooks, Fail, Goto

\* The four hook points keep the invariant, whatever the hooks answer.
LEMMA HooksOK ==
  ASSUME TurnInv, SessionStartHook \/ TurnStartHook \/ TurnEndHook \/ SessionEndHook
  PROVE  TurnInv'
<1>0. /\ phase \in Phase /\ why \in Why /\ session \in SUBSET Agent /\ saved \in BOOLEAN
  BY DEF TurnInv, TurnTypeOK
<1>1. CASE SessionStartHook
  <2>1. /\ phase = "session_start" /\ phase' \in {"turn_start", "failed"} /\ why' \in Why
        /\ UNCHANGED <<vars, session, answered, peerVars, joined, events, finished, saved>>
    BY <1>0, <1>1, HookMoves DEF SessionStartHook, Why
  <2>2. Quiet /\ ~Running
    BY <2>1 DEF TurnInv, Before, Quiet, Running, Published
  <2> QED BY <1>0, <2>1, <2>2, PhaseMoves DEF Phase, Before, Quiet
<1>2. CASE TurnStartHook
  <2>1. /\ phase = "turn_start" /\ phase' \in {"open", "failed"} /\ why' \in Why
        /\ UNCHANGED <<vars, answered, peerVars, joined, events, finished, saved>>
    BY <1>0, <1>2, HookMoves DEF TurnStartHook, Why
  <2>2. PICK limit \in 1..MaxLimit, tier \in Tier :
          session' = {a \in Agent : a < proposer + admit(tier, limit).k}
    BY <1>2 DEF TurnStartHook
  <2>3. proposer \in session' /\ session' \in SUBSET Agent
    <3> DEFINE n == admit(tier, limit).k
    <3>1. n \in Nat \ {0} /\ proposer \in Nat
      BY AdmitsSome, Chosen, AgentAssumption
    <3> HIDE DEF n
    <3>2. proposer < proposer + n
      BY <3>1
    <3> QED BY <2>2, <3>2, Chosen DEF n
  <2>4. Quiet /\ ~Running
    BY <2>1 DEF TurnInv, Before, Quiet, Running, Published
  <2> QED BY <1>0, <2>1, <2>3, <2>4, PhaseMoves DEF Phase, Before, Quiet
<1>3. CASE TurnEndHook
  <2>1. /\ phase = "turn_end" /\ phase' \in {"save", "failed"} /\ why' \in Why
        /\ UNCHANGED <<vars, session, answered, peerVars, joined, events, finished, saved>>
    BY <1>0, <1>3, HookMoves DEF TurnEndHook, Why
  <2>2. Running /\ ~Quiet
    BY <2>1 DEF TurnInv, Before, Quiet, Running, Published
  <2>3. PhaseOK'
    BY <2>1, <2>2 DEF Running, PhaseOK, Now, Decided, vars, peerVars, Validators, blind, k
  <2> QED BY <1>0, <2>1, <2>2, <2>3, PhaseMoves DEF Phase, Before
<1>4. CASE SessionEndHook
  <2>1. /\ phase = "session_end" /\ phase' \in {"done", "failed"} /\ why' \in Why
        /\ UNCHANGED <<vars, session, answered, peerVars, joined, events, finished, saved>>
    BY <1>0, <1>4, HookMoves DEF SessionEndHook, Why
  <2>2. Running /\ ~Quiet
    BY <2>1 DEF TurnInv, Before, Quiet, Running, Published
  <2>3. PhaseOK'
    BY <2>1, <2>2 DEF Running, PhaseOK, Now, Decided, vars, peerVars, Validators, blind, k
  <2> QED BY <1>0, <2>1, <2>2, <2>3, PhaseMoves DEF Phase, Before
<1> QED BY <1>1, <1>2, <1>3, <1>4

\* The phases that end the turn: no quorum, all drained, saved or not.
LEMMA EndingsOK ==
  ASSUME TurnInv, NoQuorum \/ Drained \/ Save
  PROVE  TurnInv'
<1>0. /\ phase \in Phase /\ why \in Why /\ session \in SUBSET Agent /\ saved \in BOOLEAN
      /\ call \in [Agent -> CallState]
  BY DEF TurnInv, TurnTypeOK
<1>1. CASE NoQuorum
  <2>1. /\ phase = "collecting" /\ joined = Validators /\ phase' = "failed" /\ why' \in Why
        /\ UNCHANGED <<vars, session, answered, peerVars, joined, events, finished, saved>>
    BY <1>1 DEF NoQuorum, Fail, Why
  <2>2. Running /\ ~Quiet
    BY <2>1 DEF TurnInv, Before, Quiet, Running, Published
  <2>3. \A a \in Agent : call[a] # "sending"
    BY <2>1, <2>2 DEF Running, PhaseOK, VotesAreVerdicts
  <2>4. PhaseOK'
    BY <2>1, <2>2, <2>3 DEF Running, PhaseOK, Now, Decided, vars, peerVars
  <2> QED BY <1>0, <2>1, <2>2, <2>4, PhaseMoves DEF Phase, Before
<1>2. CASE Drained
  <2>1. /\ phase = "aborting" /\ why' \in Why
        /\ \/ Now = "Reached" /\ phase' = "finish"
           \/ phase' = "failed"
        /\ \A a \in Agent : call[a] # "sending"
        /\ UNCHANGED <<vars, session, answered, peerVars, joined, events, finished, saved>>
    BY <1>0, <1>2 DEF Drained, Fail, Goto, Why, Now
  <2>2. Running /\ ~Quiet
    BY <2>1 DEF TurnInv, Before, Quiet, Running, Published
  <2>3. PhaseOK'
    BY <2>1, <2>2 DEF Running, PhaseOK, Now, Decided, vars, peerVars
  <2> QED BY <1>0, <2>1, <2>2, <2>3, PhaseMoves DEF Phase, Before
<1>3. CASE Save
  <2>1. /\ phase = "save" /\ phase' \in {"session_end", "failed"} /\ why' \in Why
        /\ saved' \in BOOLEAN
        /\ UNCHANGED <<vars, session, answered, peerVars, joined, events, finished>>
    BY <1>0, <1>3 DEF Save, Fail, Goto, Why
  <2>2. Running /\ ~Quiet
    BY <2>1 DEF TurnInv, Before, Quiet, Running, Published
  <2>3. PhaseOK'
    BY <2>1, <2>2 DEF Running, PhaseOK, Now, Decided, vars, peerVars, Validators, blind, k
  <2> QED BY <1>0, <2>1, <2>2, <2>3, PhaseMoves DEF Phase, Before
<1> QED BY <1>1, <1>2, <1>3

\* When only calls and joins move, the invariant only has to hold of those.
LEMMA CallsMove ==
  ASSUME TurnInv, Running,
         UNCHANGED <<vars, session, events, finished, saved>>,
         phase' \in Phase \ Before, why' \in Why, answered' \in BOOLEAN,
         joined' \in SUBSET Agent,
         call' \in [Agent -> CallState], verdict' \in [Agent -> Result],
         attempt' \in [Agent -> 0..MaxAttempts],
         VotesAreVerdicts', PhaseOK'
  PROVE  TurnInv'
<1>1. IInv'
  BY StepOK DEF TurnInv
<1>2. /\ bb_claim' = bb_claim /\ bb_validator' = bb_validator /\ bb_vote' = bb_vote
      /\ up' = up /\ claims' = claims /\ session' = session
      /\ events' = events /\ finished' = finished /\ saved' = saved
  BY DEF vars
<1>3. TurnTypeOK' /\ events' \in Seq(Event)
  BY <1>1, <1>2 DEF TurnInv, IInv, TurnTypeOK
<1>4. Running'
  <2>1. Published'
    BY <1>2 DEF Running, Published, Stored, Validators, blind, k
  <2>2. EventsOK'
    BY <1>2 DEF Running, EventsOK, Count, At
  <2> QED BY <2>1, <2>2 DEF Running
<1> QED
  BY <1>1, <1>3, <1>4 DEF TurnInv, Before

\* Where a call is under way the run has published, and the call's task has
\* not been joined.
LEMMA SendingRuns ==
  ASSUME TurnInv, NEW a \in Agent, call[a] = "sending"
  PROVE  /\ Running /\ a \notin joined
         /\ phase \in {"proposing", "collecting", "aborting"}
<1>1. ~Quiet
  BY DEF Quiet
<1>2. Running
  BY <1>1 DEF TurnInv
<1> QED BY <1>2 DEF Running, VotesAreVerdicts, PhaseOK

\* An attempt of a provider call fails or completes, or its task is aborted.
LEMMA PeersOK ==
  ASSUME TurnInv, NEW a \in Agent, PeerStep(a)
  PROVE  TurnInv'
<1>0. /\ phase \in Phase /\ why \in Why /\ answered \in BOOLEAN /\ joined \in SUBSET Agent
      /\ call \in [Agent -> CallState] /\ verdict \in [Agent -> Result]
      /\ attempt \in [Agent -> 0..MaxAttempts] /\ attempt[a] \in 0..MaxAttempts
  BY DEF TurnInv, TurnTypeOK
<1>1. /\ call[a] = "sending" /\ call' \in {call, [call EXCEPT ![a] = "ended"], [call EXCEPT ![a] = "aborted"]}
      /\ \/ verdict' = verdict
         \/ \E result \in Result : verdict' = [verdict EXCEPT ![a] = result]
      /\ UNCHANGED <<vars, phase, why, session, answered, joined, events, finished, saved>>
  BY DEF PeerStep, AttemptFails, AttemptCompletes, Abort, Result
<1>2. attempt' \in [Agent -> 0..MaxAttempts]
  <2>1. \/ attempt' = attempt
        \/ attempt[a] < MaxAttempts /\ attempt' = [attempt EXCEPT ![a] = @ + 1]
    BY DEF PeerStep, AttemptFails, AttemptCompletes, Abort
  <2>2. attempt[a] < MaxAttempts => attempt[a] + 1 \in 0..MaxAttempts
    BY <1>0, TurnAssumption
  <2> QED BY <1>0, <2>1, <2>2
<1>3. Running /\ a \notin joined /\ phase \in {"proposing", "collecting", "aborting"}
  BY <1>1, SendingRuns
<1>4. call' \in [Agent -> CallState] /\ verdict' \in [Agent -> Result]
  BY <1>0, <1>1 DEF CallState
<1>5. /\ \A other \in Agent \ {a} : call'[other] = call[other] /\ verdict'[other] = verdict[other]
      /\ \A other \in Agent : call'[other] = "sending" => call[other] = "sending"
  BY <1>0, <1>1
<1>6. VotesAreVerdicts'
  <2>1. /\ bb_vote' = bb_vote /\ session' = session /\ joined' = joined
        /\ answered' = answered
    BY <1>1 DEF vars
  <2>2. VotesAreVerdicts
    BY <1>3 DEF Running
  <2>3. joined' \subseteq Validators' /\ (~answered' => joined' = {})
    BY <2>1, <2>2 DEF VotesAreVerdicts, Validators, blind, k
  <2>4. \A b \in joined : call'[b] = "ended"
    BY <2>2, <1>0, <1>3, <1>5 DEF VotesAreVerdicts
  <2>5. \A b \in Agent :
       /\ bb_vote[claim][b] # "none" => b \in joined /\ bb_vote[claim][b] = verdict'[b]
       /\ b \in joined /\ verdict'[b] \in Vote => bb_vote[claim][b] = verdict'[b]
    BY <2>2, <1>0, <1>3, <1>5 DEF VotesAreVerdicts
  <2> QED BY <2>1, <2>3, <2>4, <2>5 DEF VotesAreVerdicts
<1>7. PhaseOK'
  <2>1. PhaseOK
    BY <1>3 DEF Running
  <2> QED BY <2>1, <1>1, <1>5 DEF PhaseOK, Now, vars, Validators, blind, k
<1>8. phase' \in Phase \ Before /\ why' \in Why /\ answered' \in BOOLEAN /\ joined' \in SUBSET Agent
  BY <1>0, <1>1, <1>3 DEF Before
<1> QED
  BY <1>1, <1>2, <1>3, <1>4, <1>6, <1>7, <1>8, CallsMove

\* A failed validator is joined without a vote.
LEMMA JoinOK ==
  ASSUME TurnInv, NEW a \in Agent, JoinFailure(a)
  PROVE  TurnInv'
<1>0. /\ phase \in Phase /\ why \in Why /\ answered \in BOOLEAN /\ joined \in SUBSET Agent
      /\ call \in [Agent -> CallState] /\ verdict \in [Agent -> Result]
      /\ attempt \in [Agent -> 0..MaxAttempts]
  BY DEF TurnInv, TurnTypeOK
<1>1. /\ phase = "collecting" /\ a \in Validators \ joined /\ call[a] = "ended"
      /\ verdict[a] = "error" /\ joined' = joined \cup {a}
      /\ UNCHANGED <<vars, phase, why, session, answered, peerVars, events, finished, saved>>
  BY DEF JoinFailure, Joinable
<1>2. call' = call /\ verdict' = verdict /\ attempt' = attempt
  BY <1>1 DEF peerVars
<1>3. Running
  BY <1>1 DEF TurnInv, Before
<1>4. VotesAreVerdicts'
  <2>1. /\ bb_vote' = bb_vote /\ session' = session /\ answered' = answered
    BY <1>1 DEF vars
  <2>2. VotesAreVerdicts /\ answered
    BY <1>1, <1>3 DEF Running, PhaseOK
  <2>3. Validators' = Validators
    BY <2>1 DEF Validators, blind, k
  <2> QED BY <1>1, <1>2, <2>1, <2>2, <2>3 DEF VotesAreVerdicts, Vote
<1>5. PhaseOK'
  BY <1>1, <1>2, <1>3 DEF Running, PhaseOK, Now, vars, Validators, blind, k
<1>6. phase' \in Phase \ Before /\ why' \in Why /\ answered' \in BOOLEAN /\ joined' \in SUBSET Agent
  BY <1>0, <1>1 DEF Before
<1> QED
  BY <1>0, <1>1, <1>2, <1>3, <1>4, <1>5, <1>6, CallsMove

\* The candidate is recorded and the validators are spawned, or the run fails.
LEMMA ProposedOK ==
  ASSUME TurnInv, Proposed
  PROVE  TurnInv'
<1>0. /\ phase \in Phase /\ why \in Why /\ answered \in BOOLEAN /\ joined \in SUBSET Agent
      /\ call \in [Agent -> CallState] /\ verdict \in [Agent -> Result]
      /\ attempt \in [Agent -> 0..MaxAttempts] /\ 1 \in 0..MaxAttempts
  BY TurnAssumption DEF TurnInv, TurnTypeOK
<1>1. /\ phase = "proposing" /\ call[proposer] = "ended"
      /\ UNCHANGED <<vars, session, joined, events, finished, saved>>
  BY DEF Proposed
<1>2. Running
  BY <1>1 DEF TurnInv, Before
<1>3. /\ ~answered /\ joined = {} /\ Now = "Open" /\ ~finished /\ ~saved
      /\ \A a \in Agent : call[a] # "sending" /\ bb_vote[claim][a] = "none"
  BY <1>1, <1>2 DEF Running, PhaseOK, VotesAreVerdicts
<1>4. /\ Now' = Now /\ Validators' = Validators /\ joined' = joined
      /\ finished' = finished /\ saved' = saved /\ bb_vote' = bb_vote
  BY <1>1 DEF vars, Now, Validators, blind, k
<1>5. CASE verdict[proposer] = "error"
  <2>1. /\ phase' = "failed" /\ why' = "provider" /\ answered' = answered /\ call' = call
        /\ verdict' = verdict /\ attempt' = attempt
    BY <1>5 DEF Proposed, Fail, peerVars
  <2>2. VotesAreVerdicts'
    BY <1>3, <1>4, <2>1 DEF VotesAreVerdicts
  <2>3. PhaseOK'
    BY <1>3, <1>4, <2>1 DEF PhaseOK, Decided
  <2> QED
    BY <1>0, <1>1, <1>2, <1>4, <2>1, <2>2, <2>3, CallsMove DEF Phase, Before, Why
<1>6. CASE verdict[proposer] = "text"
  <2>1. /\ phase' = "collecting" /\ why' = why /\ answered' = TRUE
        /\ call' = [a \in Agent |-> IF a \in Validators THEN "sending" ELSE call[a]]
        /\ attempt' = [a \in Agent |-> IF a \in Validators THEN 1 ELSE attempt[a]]
        /\ verdict' = [a \in Agent |-> "none"]
    BY <1>6 DEF Proposed, Goto
  <2>2. VotesAreVerdicts'
    BY <1>3, <1>4, <2>1 DEF VotesAreVerdicts
  <2>3. PhaseOK'
    BY <1>3, <1>4, <2>1 DEF PhaseOK, Decided
  <2>4. /\ call' \in [Agent -> CallState] /\ verdict' \in [Agent -> Result]
        /\ attempt' \in [Agent -> 0..MaxAttempts]
    BY <1>0, <2>1 DEF CallState, Result
  <2> QED
    BY <1>0, <1>1, <1>2, <1>4, <2>1, <2>2, <2>3, <2>4, CallsMove DEF Phase, Before, Why
<1> QED
  BY <1>5, <1>6 DEF Proposed

-----------------------------------------------------------------------------
(***************************************************************************)
(* Steps that publish events.                                              *)
(***************************************************************************)
\* What the events say of the kinds the invariant speaks of.
LEMMA Kinds ==
  /\ {"VoteCast", "CohortAborted", "QuorumReached", "QuorumUnreachable",
      "TurnCompleted", "TurnStarted", "ClaimPublished", "SegmentSealed"} \subseteq Event
  /\ \A kind : At(kind) = Places(events, kind) /\ Count(kind) = Cardinality(Places(events, kind))
  /\ \A kind : At(kind)' = Places(events', kind) /\ Count(kind)' = Cardinality(Places(events', kind))
BY DEF Event, At, Count, Places

\* Turn::finish seals and completes, once.
LEMMA FinishOK ==
  ASSUME TurnInv, Finish
  PROVE  TurnInv'
<1>0. /\ why \in Why /\ events \in Seq(Event)
  BY DEF TurnInv, TurnTypeOK
<1>1. /\ phase = "finish" /\ ~finished /\ Now = "Reached" /\ answered /\ finished' = TRUE
      /\ events' = events \o <<"SegmentSealed", "TurnCompleted">>
      /\ phase' = "turn_end" /\ why' = why
      /\ UNCHANGED <<vars, session, answered, peerVars, joined, saved>>
  BY DEF Finish, Emit, Goto, Now
<1>2. /\ bb_claim' = bb_claim /\ bb_validator' = bb_validator /\ bb_vote' = bb_vote
      /\ up' = up /\ claims' = claims /\ session' = session /\ answered' = answered
      /\ call' = call /\ verdict' = verdict /\ attempt' = attempt
      /\ joined' = joined /\ saved' = saved
  BY <1>1 DEF vars, peerVars
<1>3. IInv'
  BY <1>1, StepOK DEF TurnInv
<1>4. Running
  BY <1>1 DEF TurnInv, Before
<1> DEFINE one == Append(events, "SegmentSealed")
<1>5. one \in Seq(Event) /\ events' = Append(one, "TurnCompleted")
  BY <1>0, <1>1, Kinds, Emitted
<1>6. \A kind : /\ kind # "TurnCompleted" /\ kind # "SegmentSealed" =>
                     Places(events', kind) = Places(events, kind)
                /\ kind = "TurnCompleted" => Cardinality(Places(events', kind)) =
                                               Cardinality(Places(events, kind)) + 1
  <2> SUFFICES ASSUME NEW kind
               PROVE /\ kind # "TurnCompleted" /\ kind # "SegmentSealed" =>
                         Places(events', kind) = Places(events, kind)
                     /\ kind = "TurnCompleted" => Cardinality(Places(events', kind)) =
                                               Cardinality(Places(events, kind)) + 1
    OBVIOUS
  <2>1. kind # "SegmentSealed" => Places(one, kind) = Places(events, kind)
    BY <1>0, Kinds, PlacesOther
  <2> HIDE DEF one
  <2>2. kind # "TurnCompleted" => Places(events', kind) = Places(one, kind)
    BY <1>5, Kinds, PlacesOther
  <2>3. kind = "TurnCompleted" => Cardinality(Places(events', kind)) = Cardinality(Places(one, kind)) + 1
    BY <1>5, Kinds, PlacesCounted
  <2> QED BY <2>1, <2>2, <2>3
<1>7. EventsOK'
  <2>1. EventsOK
    BY <1>4 DEF Running
  <2>2. Count("TurnCompleted") = 0
    BY <2>1, <1>1 DEF EventsOK
  <2>3. Count("TurnCompleted")' = 1
    BY <1>6, <2>2, Kinds
  <2>4. \A kind \in {"VoteCast", "CohortAborted", "QuorumReached", "QuorumUnreachable"} :
          At(kind)' = At(kind) /\ Count(kind)' = Count(kind)
    BY <1>6, Kinds
  <2> QED BY <1>1, <1>2, <2>1, <2>3, <2>4 DEF EventsOK
<1>8. PhaseOK'
  BY <1>1, <1>2, <1>4 DEF Running, PhaseOK, Now, Decided, Validators, blind, k
<1>9. Published' /\ VotesAreVerdicts'
  BY <1>2, <1>4 DEF Running, Published, VotesAreVerdicts, Stored, Validators, blind, k
<1>10. TurnTypeOK' /\ events' \in Seq(Event)
  <2>1. events' \in Seq(Event)
    <3> HIDE DEF one
    <3> QED BY <1>5, Kinds, PlacesAppend
  <2> QED BY <1>1, <1>2, <1>3, <2>1 DEF TurnInv, TurnTypeOK, IInv, Phase
<1> QED
  BY <1>1, <1>3, <1>7, <1>8, <1>9, <1>10 DEF TurnInv, Running, Before

\* The board is opened.
LEMMA OpenBoardOK ==
  ASSUME TurnInv, OpenBoard
  PROVE  TurnInv'
<1>1. /\ phase = "open" /\ Open(board) /\ phase' = "start" /\ why' = why
      /\ UNCHANGED <<session, answered, peerVars, joined, events, finished, saved>>
  BY DEF OpenBoard, Goto
<1>2. IInv'
  BY <1>1, Chosen, StepOK DEF TurnInv, Next
<1>3. up'[board] /\ bb_claim' = bb_claim
  BY <1>1, Chosen DEF Open, tables, TurnInv, IInv, TypeOK
<1>4. Quiet'
  BY <1>1, <1>3 DEF TurnInv, Before, Quiet, Stored, peerVars
<1>5. TurnTypeOK' /\ events' \in Seq(Event)
  BY <1>1, <1>2 DEF TurnInv, IInv, TurnTypeOK, peerVars, Phase
<1> QED
  BY <1>1, <1>2, <1>3, <1>4, <1>5 DEF TurnInv, Before

\* Publishing puts this run's claim in the store and, open, in memory.
LEMMA StartOK ==
  ASSUME TurnInv, Start
  PROVE  TurnInv'
<1>0. /\ why \in Why /\ session \in SUBSET Agent /\ call \in [Agent -> CallState]
      /\ attempt \in [Agent -> 0..MaxAttempts] /\ 1 \in 0..MaxAttempts
  BY TurnAssumption DEF TurnInv, TurnTypeOK
<1>1. /\ phase = "start" /\ phase' = "proposing" /\ why' = why /\ up' = up
      /\ events' = events \o <<"TurnStarted", "ClaimPublished">>
      /\ call' = [call EXCEPT ![proposer] = "sending"]
      /\ attempt' = [attempt EXCEPT ![proposer] = 1]
      /\ UNCHANGED <<session, answered, verdict, joined, finished, saved>>
  BY DEF Start, Emit, Goto
<1>2. Quiet /\ proposer \in session /\ up[board]
  BY <1>1 DEF TurnInv, Before
<1>3. k \in Nat /\ Cardinality(session \ {proposer}) + 1 = k
  <2>1. IsFiniteSet(session)
    BY <1>0, AgentAssumption, FS_Subset
  <2>2. IsFiniteSet(session \ {proposer})
    BY <2>1, FS_Subset
  <2>3. Cardinality((session \ {proposer}) \cup {proposer}) = Cardinality(session \ {proposer}) + 1
    BY <2>2, FS_AddElement
  <2>4. (session \ {proposer}) \cup {proposer} = session
    BY <1>2
  <2> QED BY <2>1, <2>3, <2>4, FS_CardinalityType DEF k
<1>4. \E t \in Tally :
        /\ insert_claim(claim, turnId, proposer, k, Validators)
        /\ Remember(board, claim, Fresh(t))
  <2>1. CASE blind /\ publish_blind(board, claim, turnId, proposer)
    BY <2>1, BaseType DEF publish_blind, blind, Validators
  <2>2. CASE ~blind /\ publish(board, claim, turnId, proposer, session \ {proposer})
    <3>1. /\ insert_claim(claim, turnId, proposer, k, session \ {proposer})
          /\ Remember(board, claim, Fresh(ordinary_tally(k)))
      BY <2>2, <1>3 DEF publish
    <3> QED BY <2>2, <3>1, <1>3, BaseType DEF Validators
  <2> QED BY <2>1, <2>2 DEF Start
<1>5. IInv'
  <2>1. PublishAny(board)
    <3>1. (session \ {proposer}) \in SUBSET Agent
      BY <1>0
    <3> QED BY <3>1, Chosen DEF Start, PublishAny
  <2> QED BY <2>1, Chosen, StepOK DEF TurnInv, Next
<1>6. /\ bb_claim'[claim] = [turn |-> turnId, proposer |-> proposer, k |-> k, status |-> "open"]
      /\ bb_validator'[claim] = Validators /\ bb_vote' = bb_vote
  BY <1>4, Chosen DEF insert_claim, TurnInv, IInv, TypeOK
<1>7. claims'[board][claim].status = "Open"
  <2>1. PICK t \in Tally : Remember(board, claim, Fresh(t))
    BY <1>4
  <2>2. up \in [Board -> BOOLEAN] /\ claims \in [Board -> [Claim -> ClaimState \cup {NotHeld}]]
    BY DEF TurnInv, IInv, TypeOK
  <2>3. up' # [up EXCEPT ![board] = FALSE]
    BY <1>1, <1>2, <2>2, Chosen
  <2>4. claims' = [claims EXCEPT ![board][claim] = Fresh(t)]
    BY <2>1, <2>3 DEF Remember
  <2>5. claims'[board][claim] = Fresh(t)
    BY <2>2, <2>4, Chosen
  <2> QED BY <2>5 DEF Fresh
<1>8. k' = k /\ blind' = blind /\ Validators' = Validators
  BY <1>1 DEF k, blind, Validators
<1>9. \A a \in Agent : bb_vote[claim][a] = "none"
  BY <1>2, Chosen DEF Quiet, TurnInv, IInv, VotesRostered
<1>10. Published'
  <2>1. Stored(claim)'
    BY <1>6 DEF Stored
  <2> QED BY <1>1, <1>2, <1>6, <1>7, <1>8, <2>1 DEF Published, status_text, QuorumStatus
<1>11. VotesAreVerdicts'
  BY <1>1, <1>2, <1>6, <1>9 DEF Quiet, VotesAreVerdicts
<1>12. PhaseOK'
  BY <1>0, <1>1, <1>2, <1>7 DEF Quiet, PhaseOK, Now, Decided
<1> DEFINE one == Append(<<>>, "TurnStarted")
<1>13. /\ one \in Seq(Event) /\ events' = Append(one, "ClaimPublished")
       /\ events' \in Seq(Event)
       /\ \A kind : kind # "TurnStarted" => Places(one, kind) = {}
  <2>1. <<>> \in Seq(Event) /\ \A kind : Places(<<>>, kind) = {}
    BY DEF Places
  <2>2. one \in Seq(Event) /\ events' = Append(one, "ClaimPublished")
    BY <1>1, <1>2, <2>1, Kinds, Emitted DEF Quiet
  <2> DEFINE none == <<>>
  <2>3. \A kind : kind # "TurnStarted" => Places(Append(none, "TurnStarted"), kind) = Places(none, kind)
    <3> HIDE DEF none
    <3>1. none \in Seq(Event)
      BY <2>1 DEF none
    <3> QED BY <3>1, Kinds, PlacesOther
  <2>4. events' \in Seq(Event)
    <3> HIDE DEF one
    <3> QED BY <2>2, Kinds, PlacesAppend
  <2> QED BY <2>1, <2>2, <2>3, <2>4
<1>14. \A kind : kind # "TurnStarted" /\ kind # "ClaimPublished" => Places(events', kind) = {}
  <2> HIDE DEF one
  <2>1. \A kind : kind # "ClaimPublished" => Places(Append(one, "ClaimPublished"), kind) = Places(one, kind)
    BY <1>13, Kinds, PlacesOther
  <2> QED BY <1>13, <2>1
<1>15. EventsOK'
  <2>1. \A kind \in {"VoteCast", "CohortAborted", "QuorumReached", "QuorumUnreachable", "TurnCompleted"} :
          At(kind)' = {} /\ Count(kind)' = 0
    BY <1>14, Kinds, FS_EmptySet
  <2>2. {a \in Agent : bb_vote'[claim][a] # "none"} = {}
    BY <1>6, <1>9
  <2>3. Cardinality({a \in Agent : bb_vote'[claim][a] # "none"}) = 0
    BY <2>2, FS_EmptySet
  <2>4. bb_claim'[claim].status = "open" /\ ~finished'
    BY <1>1, <1>2, <1>6 DEF Quiet
  <2> QED BY <2>1, <2>3, <2>4 DEF EventsOK
<1>16. TurnTypeOK'
  <2>1. call' \in [Agent -> CallState] /\ attempt' \in [Agent -> 0..MaxAttempts]
    BY <1>0, <1>1 DEF CallState
  <2> QED BY <1>1, <1>5, <2>1 DEF TurnInv, TurnTypeOK, IInv, Phase
<1> QED
  BY <1>1, <1>5, <1>10, <1>11, <1>12, <1>13, <1>15, <1>16 DEF TurnInv, Running, Before

\* What recording a verdict does to the board: the vote is stored, and memory
\* and row move to the same status.
LEMMA RecordVotes ==
  ASSUME TurnInv, NEW a \in Agent, Record(a)
  PROVE  /\ IInv' /\ up' = up /\ bb_validator' = bb_validator
         /\ verdict[a] \in Vote /\ bb_vote[claim][a] = "none" /\ Now = "Open"
         /\ bb_vote' = [bb_vote EXCEPT ![claim][a] = verdict[a]]
         /\ Now' \in QuorumStatus
         /\ bb_claim'[claim].status = status_text(Now')
         /\ Stored(claim)' /\ bb_claim'[claim].k = bb_claim[claim].k
         /\ bb_claim'[claim].proposer = bb_claim[claim].proposer
<1>0. /\ up \in [Board -> BOOLEAN] /\ claims \in [Board -> [Claim -> ClaimState \cup {NotHeld}]]
      /\ bb_claim \in [Claim -> Row \cup {NoRow}]
  BY DEF TurnInv, IInv, TypeOK
<1>1. /\ Joinable(a) /\ verdict[a] \in Vote /\ up' = up
      /\ record_vote(board, claim, a, verdict[a]) /\ Now = "Open"
  BY DEF Record, vote_blind, vote_ordinary, Now
<1>2. IInv'
  <2>1. VoteAny(board)
    BY <1>1, Chosen DEF Record, VoteAny
  <2> QED BY <2>1, Chosen, StepOK DEF TurnInv, Next
<1>3. Running
  BY <1>1 DEF Joinable, TurnInv, Before
<1>4. up[board] /\ Stored(claim) /\ bb_claim[claim].status = "open"
  BY <1>1, <1>3 DEF Running, Published, status_text, Now
<1> DEFINE state == claims[board][claim]
           outcome == status(record(state.tally, verdict[a]))
           state2 == [tally |-> record(state.tally, verdict[a]), status |-> outcome,
                      slot |-> [state.slot EXCEPT ![a] = verdict[a]]]
<1>5. /\ bb_validator' = bb_validator /\ bb_vote[claim][a] = "none"
      /\ bb_vote' = [bb_vote EXCEPT ![claim][a] = verdict[a]]
      /\ \/ outcome = "Open" /\ bb_claim' = bb_claim
         \/ /\ outcome # "Open"
            /\ bb_claim' = [bb_claim EXCEPT ![claim].status = status_text(outcome)]
      /\ Remember(board, claim, state2)
  BY <1>1 DEF record_vote, insert_vote, update_status
<1>6. outcome \in QuorumStatus
  BY DEF status, QuorumStatus
<1> HIDE DEF outcome
<1>7. claims'[board][claim] = state2
  <2>1. up' # [up EXCEPT ![board] = FALSE]
    BY <1>0, <1>1, <1>4, Chosen
  <2>2. claims' = [claims EXCEPT ![board][claim] = state2]
    BY <1>5, <2>1 DEF Remember
  <2> HIDE DEF state2
  <2> QED BY <1>0, <2>2, Chosen
<1>8. Now' = outcome
  BY <1>7 DEF Now
<1>9. bb_claim[claim] \in Row
  BY <1>0, <1>4, Chosen DEF NoRow
<1>10. /\ bb_claim'[claim].status = status_text(outcome)
       /\ bb_claim'[claim].k = bb_claim[claim].k
       /\ bb_claim'[claim].proposer = bb_claim[claim].proposer
  <2>1. CASE outcome = "Open" /\ bb_claim' = bb_claim
    BY <2>1, <1>4 DEF status_text
  <2>2. CASE bb_claim' = [bb_claim EXCEPT ![claim].status = status_text(outcome)]
    <3>1. bb_claim'[claim] = [bb_claim[claim] EXCEPT !.status = status_text(outcome)]
      BY <2>2, <1>0, Chosen
    <3> QED BY <3>1, <1>9 DEF Row
  <2> QED BY <1>5, <2>1, <2>2
<1>11. Stored(claim)'
  BY <1>6, <1>10 DEF Stored, status_text, QuorumStatus
<1> QED
  BY <1>1, <1>2, <1>5, <1>6, <1>8, <1>10, <1>11

\* One more vote is stored.
LEMMA VotesCounted ==
  ASSUME TurnInv, NEW a \in Agent, Record(a)
  PROVE  /\ Cardinality({b \in Agent : bb_vote[claim][b] # "none"}) \in Nat
         /\ Cardinality({b \in Agent : bb_vote'[claim][b] # "none"}) =
              Cardinality({b \in Agent : bb_vote[claim][b] # "none"}) + 1
<1> DEFINE old == {b \in Agent : bb_vote[claim][b] # "none"}
           new == {b \in Agent : bb_vote'[claim][b] # "none"}
<1>1. IsFiniteSet(old) /\ Cardinality(old) \in Nat
  BY AgentAssumption, FS_Subset, FS_CardinalityType
<1>2. new = old \cup {a} /\ a \notin old
  <2>1. bb_vote[claim] \in [Agent -> Slot] /\ bb_vote \in [Claim -> [Agent -> Slot]]
    BY Chosen DEF TurnInv, IInv, TypeOK
  <2>2. /\ bb_vote' = [bb_vote EXCEPT ![claim][a] = verdict[a]] /\ verdict[a] \in Vote
        /\ bb_vote[claim][a] = "none"
    BY RecordVotes
  <2>3. bb_vote'[claim] = [bb_vote[claim] EXCEPT ![a] = verdict[a]]
    BY <2>1, <2>2, Chosen
  <2> QED BY <2>1, <2>2, <2>3 DEF Vote
<1>3. Cardinality(old \cup {a}) = Cardinality(old) + 1
  BY <1>1, <1>2, FS_AddElement
<1> QED BY <1>1, <1>2, <1>3

\* The vote's event comes first, what it decides after it.
LEMMA RecordEvents ==
  ASSUME TurnInv, NEW a \in Agent, Record(a), EventsOK, NEW now \in QuorumStatus, Now' = now
  PROVE  EventsOK' /\ events' \in Seq(Event)
<1>0. events \in Seq(Event)
  BY DEF TurnInv
<1>1. /\ Now = "Open" /\ bb_claim'[claim].status = status_text(now) /\ finished' = finished
  BY RecordVotes DEF Record
<1>2. bb_claim[claim].status = "open"
  <2>1. Running
    BY DEF Record, Joinable, TurnInv, Before
  <2> QED BY <1>1, <2>1 DEF Running, Published, Now, status_text
<1>3. /\ At("CohortAborted") = {} /\ At("QuorumReached") = {} /\ At("QuorumUnreachable") = {}
  BY <1>2 DEF EventsOK
<1> DEFINE one == Append(events, "VoteCast")
           last == IF now = "Reached" THEN "QuorumReached" ELSE "QuorumUnreachable"
           two == Append(one, last)
           three == Append(two, "CohortAborted")
<1>4. events' = IF now = "Open" THEN one ELSE three
  <2>1. events' = events \o (CASE now = "Open" -> <<"VoteCast">>
                   [] now = "Reached" ->
                        <<"VoteCast", "QuorumReached", "CohortAborted">>
                   [] now = "Unreachable" ->
                        <<"VoteCast", "QuorumUnreachable", "CohortAborted">>)
    BY DEF Record, Emit, Now
  <2>2. CASE now = "Open"
    BY <2>1, <2>2, <1>0, Kinds, Emitted
  <2>3. CASE now = "Reached"
    <3>1. events' = events \o <<"VoteCast", "QuorumReached", "CohortAborted">>
      BY <2>1, <2>3
    <3> QED BY <3>1, <2>3, <1>0, Kinds, Emitted
  <2>4. CASE now = "Unreachable"
    <3>1. events' = events \o <<"VoteCast", "QuorumUnreachable", "CohortAborted">>
      BY <2>1, <2>4
    <3> QED BY <3>1, <2>4, <1>0, Kinds, Emitted
  <2> QED BY <2>2, <2>3, <2>4 DEF QuorumStatus
<1>5. last \in Event /\ last \in {"QuorumReached", "QuorumUnreachable"}
  BY DEF Event
<1>6. /\ one \in Seq(Event) /\ Len(events) \in Nat /\ Len(one) = Len(events) + 1
      /\ Cardinality(Places(one, "VoteCast")) = Cardinality(Places(events, "VoteCast")) + 1
      /\ \A i \in Places(one, "VoteCast") : i \in 1..(Len(events) + 1)
      /\ \A kind : kind # "VoteCast" => Places(one, kind) = Places(events, kind)
  <2>1. one \in Seq(Event) /\ Len(events) \in Nat /\ Len(one) = Len(events) + 1
    BY <1>0, Kinds, PlacesAppend
  <2>2. Cardinality(Places(one, "VoteCast")) = Cardinality(Places(events, "VoteCast")) + 1
    BY <1>0, Kinds, PlacesCounted
  <2>3. \A i \in Places(one, "VoteCast") : i \in 1..(Len(events) + 1)
    BY <2>1 DEF Places
  <2>4. \A kind : kind # "VoteCast" => Places(one, kind) = Places(events, kind)
    BY <1>0, Kinds, PlacesOther
  <2> QED BY <2>1, <2>2, <2>3, <2>4
<1> HIDE DEF one, last
<1>7. /\ two \in Seq(Event) /\ Len(two) = Len(events) + 2
      /\ \A kind : kind # last => Places(two, kind) = Places(one, kind)
      /\ Places(two, last) # {}
  <2>1. two \in Seq(Event) /\ Len(two) = Len(one) + 1
    BY <1>5, <1>6, PlacesAppend
  <2>2. \A kind : kind # last => Places(two, kind) = Places(one, kind)
    BY <1>5, <1>6, PlacesOther
  <2>3. Places(two, last) = Places(one, last) \cup {Len(one) + 1}
    <3>1. Places(two, last) = Places(one, last) \cup (IF last = last THEN {Len(one) + 1} ELSE {})
      BY <1>5, <1>6, PlacesAppend
    <3> QED BY <3>1
  <2>4. Len(two) = Len(events) + 2
    BY <1>6, <2>1
  <2> QED BY <2>1, <2>2, <2>3, <2>4
<1> HIDE DEF two
<1>8. /\ three \in Seq(Event)
      /\ \A kind : kind # "CohortAborted" => Places(three, kind) = Places(two, kind)
      /\ Places(three, "CohortAborted") = Places(two, "CohortAborted") \cup {Len(events) + 3}
  <2>1. three \in Seq(Event)
    BY <1>7, Kinds, PlacesAppend
  <2>2. \A kind : kind # "CohortAborted" => Places(three, kind) = Places(two, kind)
    BY <1>7, Kinds, PlacesOther
  <2>3. Places(three, "CohortAborted") = Places(two, "CohortAborted") \cup {Len(two) + 1}
    <3>1. Places(three, "CohortAborted") = Places(two, "CohortAborted") \cup
            (IF "CohortAborted" = "CohortAborted" THEN {Len(two) + 1} ELSE {})
      BY <1>7, Kinds, PlacesAppend
    <3> QED BY <3>1
  <2>4. Len(two) + 1 = Len(events) + 3
    BY <1>6, <1>7
  <2> QED BY <2>1, <2>2, <2>3, <2>4
<1> HIDE DEF three
<1>9. /\ Places(events, "CohortAborted") = {} /\ Places(events, "QuorumReached") = {}
      /\ Places(events, "QuorumUnreachable") = {}
  BY <1>3, Kinds
<1>10. Count("VoteCast") = Cardinality({b \in Agent : bb_vote[claim][b] # "none"})
  BY DEF EventsOK
<1>11. /\ Cardinality(Places(events', "VoteCast")) = Cardinality(Places(events, "VoteCast")) + 1
       /\ Places(events', "TurnCompleted") = Places(events, "TurnCompleted")
       /\ Places(events', "VoteCast") = Places(one, "VoteCast")
  <2>1. CASE now = "Open"
    BY <2>1, <1>4, <1>6
  <2>2. CASE now # "Open"
    <3>1. events' = three
      BY <2>2, <1>4
    <3>2. Places(three, "VoteCast") = Places(one, "VoteCast")
      BY <1>5, <1>7, <1>8
    <3>3. Places(three, "TurnCompleted") = Places(events, "TurnCompleted")
      BY <1>5, <1>6, <1>7, <1>8
    <3> QED BY <3>1, <3>2, <3>3, <1>6
  <2> QED BY <2>1, <2>2
<1>12. Count("VoteCast")' = Cardinality({b \in Agent : bb_vote'[claim][b] # "none"})
  <2>1. Count("VoteCast")' = Count("VoteCast") + 1
    BY <1>11, Kinds
  <2> QED BY <2>1, <1>10, VotesCounted
<1>13. /\ Places(events', "CohortAborted") = IF now = "Open" THEN {} ELSE {Len(events) + 3}
       /\ Places(events', "QuorumReached") # {} <=> now = "Reached"
       /\ Places(events', "QuorumUnreachable") # {} <=> now = "Unreachable"
  <2>1. CASE now = "Open"
    BY <2>1, <1>4, <1>6, <1>9
  <2>2. CASE now = "Reached"
    <3>1. events' = three /\ last = "QuorumReached"
      BY <2>2, <1>4 DEF last
    <3> QED BY <2>2, <3>1, <1>6, <1>7, <1>8, <1>9
  <2>3. CASE now = "Unreachable"
    <3>1. events' = three /\ last = "QuorumUnreachable"
      BY <2>3, <1>4 DEF last
    <3> QED BY <2>3, <3>1, <1>6, <1>7, <1>8, <1>9
  <2> QED BY <2>1, <2>2, <2>3 DEF QuorumStatus
<1>14. \A i \in At("VoteCast")', j \in At("CohortAborted")' : i < j
  <2> SUFFICES ASSUME NEW i \in Places(events', "VoteCast"), NEW j \in Places(events', "CohortAborted")
               PROVE  i < j
    BY Kinds
  <2>1. j = Len(events) + 3
    BY <1>13
  <2>2. i \in 1..(Len(events) + 1)
    BY <1>6, <1>11
  <2> QED BY <2>1, <2>2, <1>6
<1>15. /\ now = "Open" <=> status_text(now) = "open"
       /\ now = "Reached" <=> status_text(now) = "reached"
       /\ now = "Unreachable" <=> status_text(now) = "unreachable"
  BY DEF QuorumStatus, status_text
<1>16. /\ At("CohortAborted")' # {} => bb_claim'[claim].status # "open"
       /\ At("QuorumReached")' # {} <=> bb_claim'[claim].status = "reached"
       /\ At("QuorumUnreachable")' # {} <=> bb_claim'[claim].status = "unreachable"
  BY <1>1, <1>13, <1>15, Kinds
<1>17. Count("TurnCompleted")' = IF finished' THEN 1 ELSE 0
  BY <1>1, <1>11, Kinds DEF EventsOK
<1>18. events' \in Seq(Event)
  BY <1>4, <1>6, <1>8
<1> QED
  BY <1>12, <1>14, <1>16, <1>17, <1>18 DEF EventsOK

\* A verdict is recorded, and the run goes on or begins to abort the rest.
LEMMA RecordOK ==
  ASSUME TurnInv, NEW a \in Agent, Record(a)
  PROVE  TurnInv'
<1>0. /\ why \in Why /\ joined \in SUBSET Agent /\ session \in SUBSET Agent
      /\ bb_vote[claim] \in [Agent -> Slot] /\ bb_vote \in [Claim -> [Agent -> Slot]]
  BY Chosen DEF TurnInv, TurnTypeOK, IInv, TypeOK
<1>1. /\ phase = "collecting" /\ a \in Validators \ joined /\ call[a] = "ended"
      /\ joined' = joined \cup {a} /\ why' = why
      /\ phase' = IF Now' = "Open" THEN "collecting" ELSE "aborting"
      /\ UNCHANGED <<session, answered, peerVars, finished, saved>>
  BY DEF Record, Joinable, Goto, Now
<1>2. call' = call /\ verdict' = verdict /\ attempt' = attempt
  BY <1>1 DEF peerVars
<1>3. Running
  BY <1>1 DEF TurnInv, Before
<1>4. /\ IInv' /\ up' = up /\ bb_validator' = bb_validator
      /\ verdict[a] \in Vote /\ bb_vote[claim][a] = "none" /\ Now = "Open"
      /\ bb_vote' = [bb_vote EXCEPT ![claim][a] = verdict[a]]
      /\ Now' \in QuorumStatus
      /\ bb_claim'[claim].status = status_text(Now')
      /\ Stored(claim)' /\ bb_claim'[claim].k = bb_claim[claim].k
      /\ bb_claim'[claim].proposer = bb_claim[claim].proposer
  BY RecordVotes
<1>5. k' = k /\ blind' = blind /\ Validators' = Validators
  BY <1>1 DEF k, blind, Validators
<1>6. Published'
  BY <1>1, <1>3, <1>4, <1>5 DEF Running, Published, Now
<1>7. VotesAreVerdicts'
  <2>1. VotesAreVerdicts /\ answered
    BY <1>1, <1>3 DEF Running, PhaseOK
  <2>2. bb_vote'[claim] = [bb_vote[claim] EXCEPT ![a] = verdict[a]]
    BY <1>0, <1>4, Chosen
  <2> QED BY <1>0, <1>1, <1>2, <1>4, <1>5, <2>1, <2>2 DEF VotesAreVerdicts, Vote
<1>8. PhaseOK'
  <2>1. PhaseOK
    BY <1>3 DEF Running
  <2> QED BY <1>1, <1>2, <1>4, <1>5, <2>1 DEF PhaseOK, Decided
<1>9. EventsOK' /\ events' \in Seq(Event)
  BY <1>3, <1>4, RecordEvents DEF Running
<1>10. TurnTypeOK'
  BY <1>0, <1>1, <1>2, <1>4 DEF TurnInv, TurnTypeOK, IInv, Phase
<1> QED
  BY <1>1, <1>4, <1>6, <1>7, <1>8, <1>9, <1>10 DEF TurnInv, Running, Before

-----------------------------------------------------------------------------
(***************************************************************************)
(* The theorems.                                                           *)
(***************************************************************************)
\* Every step of the runtime and of its peers keeps the invariant.
LEMMA TurnStepOK == TurnInv /\ [TurnNext]_allVars => TurnInv'
<1> SUFFICES ASSUME TurnInv, [TurnNext]_allVars PROVE TurnInv'
  OBVIOUS
<1>1. CASE UNCHANGED allVars
  <2>1. /\ UNCHANGED vars
        /\ phase' = phase /\ why' = why /\ session' = session /\ answered' = answered
        /\ call' = call /\ verdict' = verdict /\ attempt' = attempt /\ joined' = joined
        /\ events' = events /\ finished' = finished /\ saved' = saved
    BY <1>1 DEF allVars, turnVars
  <2>2. /\ phase \in Phase /\ why \in Why /\ saved \in BOOLEAN /\ session \in SUBSET Agent
        /\ phase \in {"open", "start"} => proposer \in session
        /\ phase = "start" => up[board]
        /\ phase \in Before => Quiet
        /\ phase \notin Before \cup {"failed"} => Running
    BY DEF TurnInv, TurnTypeOK
  <2>3. Running => PhaseOK' /\ phase' \notin Before
    <3>1. Running => ~Quiet
      BY DEF Running, Published, Quiet
    <3>2. PhaseOK => PhaseOK'
      BY <2>1 DEF PhaseOK, Now, vars, Validators, blind, k
    <3> QED BY <2>1, <2>2, <3>1, <3>2 DEF Running
  <2>4. Quiet => ~saved
    BY DEF Quiet
  <2>5. UNCHANGED <<vars, answered, peerVars, joined, events, finished>>
    BY <2>1 DEF peerVars
  <2> QED BY <2>1, <2>2, <2>3, <2>4, <2>5, PhaseMoves
<1>2. CASE SessionStartHook \/ TurnStartHook \/ TurnEndHook \/ SessionEndHook
  BY <1>2, HooksOK
<1>3. CASE NoQuorum \/ Drained \/ Save
  BY <1>3, EndingsOK
<1>4. CASE OpenBoard
  BY <1>4, OpenBoardOK
<1>5. CASE Start
  BY <1>5, StartOK
<1>6. CASE Proposed
  BY <1>6, ProposedOK
<1>7. CASE Finish
  BY <1>7, FinishOK
<1>8. ASSUME NEW a \in Agent, Record(a) PROVE TurnInv'
  BY <1>8, RecordOK
<1>9. ASSUME NEW a \in Agent, JoinFailure(a) PROVE TurnInv'
  BY <1>9, JoinOK
<1>10. ASSUME NEW a \in Agent, PeerStep(a) PROVE TurnInv'
  BY <1>10, PeersOK
<1> QED
  BY <1>1, <1>2, <1>3, <1>4, <1>5, <1>6, <1>7, <1>8, <1>9, <1>10
     DEF TurnNext, HookStep, RuntimeStep

\* The runtime's state follows its claim's row in every reachable state, for
\* any cohort, any limit and any number of attempts.
THEOREM TurnInvariant == TurnSpec => []TurnInv
<1>1. TurnInit => TurnInv
  BY BeginOK
<1>2. TurnInv /\ [TurnNext]_allVars => TurnInv'
  BY TurnStepOK
<1> QED
  BY <1>1, <1>2, PTL DEF TurnSpec

\* An answer is sealed or saved only with quorum(k) of the k peers behind it
\* (run_turn returns before `finish` unless the claim is Reached).
THEOREM SealsHaveQuorum == TurnSpec => []SealedByQuorum
<1>1. TurnInv => SealedByQuorum
  <2> SUFFICES ASSUME TurnInv, finished \/ saved
               PROVE  Cardinality(Approving) + (IF blind THEN 0 ELSE 1) >= quorum(k)
    BY DEF SealedByQuorum
  <2>1. Running
    BY DEF TurnInv, Quiet
  <2>2. /\ Now = "Reached" /\ IInv /\ Stored(claim)
        /\ bb_claim[claim].k = k /\ bb_claim[claim].proposer = proposer
        /\ bb_validator[claim] = Validators
    BY <2>1 DEF TurnInv, Running, PhaseOK, Published
  <2>3. ReachedHasQuorum(claim)
    BY <2>2, Chosen DEF IInv, VerdictsRestOnVotes, Now
  <2>4. Cardinality(Yeas(bb_vote[claim], proposer, Blind(claim))) >= quorum(k)
    BY <2>2, <2>3 DEF ReachedHasQuorum, Approvals, Yeas
  <2>5. Blind(claim) <=> blind
    BY <2>2 DEF Blind, Validators, blind
  <2>6. Voters(bb_vote[claim], "yes") = Approving
    <3>1. VotesAreVerdicts /\ joined \subseteq Agent
      BY <2>1 DEF Running, TurnInv, TurnTypeOK
    <3>2. \A a \in Agent : bb_vote[claim][a] = "yes" <=> a \in joined /\ verdict[a] = "yes"
      BY <3>1 DEF VotesAreVerdicts, Vote
    <3> QED BY <3>1, <3>2 DEF Voters, Approving
  <2>7. Cardinality(Yeas(bb_vote[claim], proposer, Blind(claim))) =
          Cardinality(Voters(bb_vote[claim], "yes")) + (IF Blind(claim) THEN 0 ELSE 1)
    BY <2>2, Chosen, RowValues, YeasAndNays
  <2> QED BY <2>4, <2>5, <2>6, <2>7
<1> QED BY <1>1, TurnInvariant, PTL

\* The board takes every verdict that is joined, and the events tell its rows,
\* in their order (Turn::record).
THEOREM TurnAndBoard == TurnSpec => []TurnFollowsBoard
<1>1. TurnInv => NoVerdictRefused
  <2> SUFFICES ASSUME TurnInv, NEW a \in Agent, Joinable(a), verdict[a] \in Vote
               PROVE  /\ Now = "Open" /\ a \in bb_validator[claim]
                      /\ bb_vote[claim][a] = "none"
    BY DEF NoVerdictRefused, Now
  <2>1. Running /\ phase = "collecting" /\ a \in Validators \ joined
    BY DEF Joinable, TurnInv, Before
  <2> QED BY <2>1 DEF Running, PhaseOK, Published, VotesAreVerdicts
<1>2. TurnInv => StoryMatchesBoard
  <2> SUFFICES ASSUME TurnInv PROVE StoryMatchesBoard
    OBVIOUS
  <2>1. CASE Quiet
    <3>1. \A kind : At(kind) = {} /\ Count(kind) = 0
      <4>1. DOMAIN events = {}
        BY <2>1 DEF Quiet
      <4> QED BY <4>1, FS_EmptySet DEF At, Count
    <3>2. {a \in Agent : bb_vote[claim][a] # "none"} = {}
      BY <2>1, Chosen DEF Quiet, TurnInv, IInv, VotesRostered
    <3>3. bb_claim[claim].status = "absent"
      BY <2>1 DEF Quiet, Stored
    <3> QED BY <3>1, <3>2, <3>3, FS_EmptySet DEF StoryMatchesBoard
  <2>2. CASE Running
    <3>1. EventsOK /\ (finished => Now = "Reached") /\ events \in Seq(Event)
          /\ bb_claim[claim].status = status_text(Now)
      BY <2>2 DEF Running, PhaseOK, Published, TurnInv, Now
    <3>2. At("TurnCompleted") # {} => finished
      <4> SUFFICES ASSUME ~finished PROVE Places(events, "TurnCompleted") = {}
        BY Kinds
      <4>1. Cardinality(Places(events, "TurnCompleted")) = 0
        BY <3>1, Kinds DEF EventsOK
      <4> QED BY <3>1, <4>1, PlacesCounted, FS_EmptySet
    <3>3. Count("TurnCompleted") <= 1
      <4>1. Count("TurnCompleted") = 0 \/ Count("TurnCompleted") = 1
        BY <3>1 DEF EventsOK
      <4> QED BY <4>1
    <3>4. At("TurnCompleted") # {} => At("QuorumReached") # {}
      BY <3>1, <3>2 DEF EventsOK, status_text
    <3> QED BY <3>1, <3>3, <3>4 DEF StoryMatchesBoard, EventsOK
  <2> QED BY <2>1, <2>2 DEF TurnInv
<1>3. TurnInv => TurnFollowsBoard
  BY <1>1, <1>2 DEF TurnFollowsBoard, TurnInv
<1> QED BY <1>3, TurnInvariant, PTL

\* Once the runtime is past its validators, or has given up, no provider call
\* is under way (abort_and_drain).
THEOREM NothingOutlives == TurnSpec => []NothingLeftRunning
<1>1. TurnInv => NothingLeftRunning
  BY DEF TurnInv, NothingLeftRunning, Before, Quiet, Running, PhaseOK
<1> QED BY <1>1, TurnInvariant, PTL
=============================================================================
