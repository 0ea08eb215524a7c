-------------------------------- MODULE Turn --------------------------------
(***************************************************************************)
(* One run of `supra run`: the turn loop of supra_core::turn driven by the *)
(* runtime of supra_cli::runtime over a blackboard of its own.             *)
(*                                                                         *)
(* The runtime task admits a cohort, fires its hooks, publishes the claim, *)
(* asks the proposer for a candidate, spawns one task per validator, joins *)
(* them in whatever order they end, records each verdict, aborts the rest  *)
(* once the claim is decided, seals the answer and saves the session.      *)
(* Every provider call is retried; every hook may fail or ask to stop.     *)
(*                                                                         *)
(* The board lives in memory and in this process, so it is opened once and *)
(* does not crash on its own here.  Of the events only the turn's own are  *)
(* kept, not the provider's usage and deltas.                              *)
(***************************************************************************)
EXTENDS Blackboard, Sequences

CONSTANTS
  MaxLimit,      \* bound: the largest peer limit configured
  MaxAttempts    \* MAX_PROVIDER_ATTEMPTS

ASSUME TurnAssumption ==
  /\ MaxLimit \in 1..PEER_CEILING /\ MaxAttempts \in Nat \ {0}
  /\ Board # {} /\ Claim # {} /\ TurnId # {}

VARIABLES
  phase,     \* where the runtime task is
  why,       \* what it failed of, "none" otherwise
  session,   \* the cohort's agents; the least is the proposer
  answered,  \* the proposer's text is the working answer
  call,      \* Agent -> the state of its provider call
  verdict,   \* Agent -> what the call gave
  attempt,   \* Agent -> the attempt the call is at
  joined,    \* validators whose task the runtime has joined
  events,    \* the turn's events, in publish order
  finished,  \* the answer is sealed in the ledger
  saved      \* the session file holds the turn

peerVars == <<call, verdict, attempt>>
turnVars == <<phase, why, session, answered, call, verdict, attempt, joined,
              events, finished, saved>>
allVars  == <<vars, turnVars>>

board    == CHOOSE b \in Board : TRUE
claim    == CHOOSE c \in Claim : TRUE
turnId   == CHOOSE t \in TurnId : TRUE
proposer == CHOOSE a \in Agent : \A other \in Agent : a <= other

k          == Cardinality(session)
blind      == k = 1
Validators == IF blind THEN {proposer} ELSE session \ {proposer}

Phase == {"session_start", "turn_start", "open", "start", "proposing", "collecting",
          "aborting", "finish", "turn_end", "save", "session_end", "done", "failed"}
Why == {"none", "hook", "stop", "provider", "rejected", "no_quorum", "save"}

\* A call is "unsent", under way ("sending"), "ended", or "aborted".
CallState == {"unsent", "sending", "ended", "aborted"}
Result    == Vote \cup {"none", "text", "error"}

TurnInit ==
  /\ Init
  /\ phase = "session_start" /\ why = "none"
  /\ session = {} /\ answered = FALSE
  /\ call = [a \in Agent |-> "unsent"]
  /\ verdict = [a \in Agent |-> "none"]
  /\ attempt = [a \in Agent |-> 0]
  /\ joined = {} /\ events = <<>>
  /\ finished = FALSE /\ saved = FALSE

Goto(p)   == phase' = p /\ UNCHANGED why
Fail(w)   == phase' = "failed" /\ why' = w
Emit(evs) == events' = events \o evs

-----------------------------------------------------------------------------
(***************************************************************************)
(* Lifecycle hooks: `fire` answers Continue, Stop (exit 42) or an error,   *)
(* and fire_hooks hands the error to its caller, which returns it.         *)
(***************************************************************************)
HookOutcome == {"continue", "stop", "error"}

\* The hook point in front of phase `next`; `heeded`: does Stop end the run.
fire_hooks(outcome, next, heeded) ==
  CASE outcome = "error"             -> Fail("hook")
    [] outcome = "stop" /\ heeded    -> Fail("stop")
    [] OTHER                         -> Goto(next)

SessionStartHook ==
  /\ phase = "session_start"
  /\ \E outcome \in HookOutcome : fire_hooks(outcome, "turn_start", FALSE)
  /\ UNCHANGED <<vars, session, answered, peerVars, joined, events, finished, saved>>

\* The cohort is admitted first: the first k of the agents.
TurnStartHook ==
  /\ phase = "turn_start"
  /\ \E limit \in 1..MaxLimit, tier \in Tier :
       session' = {a \in Agent : a < proposer + admit(tier, limit).k}
  /\ \E outcome \in HookOutcome : fire_hooks(outcome, "open", TRUE)
  /\ UNCHANGED <<vars, answered, peerVars, joined, events, finished, saved>>

TurnEndHook ==
  /\ phase = "turn_end"
  /\ \E outcome \in HookOutcome : fire_hooks(outcome, "save", TRUE)
  /\ UNCHANGED <<vars, session, answered, peerVars, joined, events, finished, saved>>

SessionEndHook ==
  /\ phase = "session_end"
  /\ \E outcome \in HookOutcome : fire_hooks(outcome, "done", FALSE)
  /\ UNCHANGED <<vars, session, answered, peerVars, joined, events, finished, saved>>

-----------------------------------------------------------------------------
(***************************************************************************)
(* A board on an empty store, Turn::start_shared, and the provider calls.  *)
(***************************************************************************)
OpenBoard ==
  /\ phase = "open"
  /\ Open(board)
  /\ Goto("start")
  /\ UNCHANGED <<session, answered, peerVars, joined, events, finished, saved>>

Start ==
  /\ phase = "start"
  /\ \/ blind /\ publish_blind(board, claim, turnId, proposer)
     \/ ~blind /\ publish(board, claim, turnId, proposer, session \ {proposer})
  /\ up' = up
  /\ Emit(<<"TurnStarted", "ClaimPublished">>)
  /\ call' = [call EXCEPT ![proposer] = "sending"]
  /\ attempt' = [attempt EXCEPT ![proposer] = 1]
  /\ Goto("proposing")
  /\ UNCHANGED <<session, answered, verdict, joined, finished, saved>>

\* Fault: one attempt too many.
AttemptFails_OneMore(a, retryable) ==
  /\ call[a] = "sending"
  /\ \/ /\ retryable /\ attempt[a] <= MaxAttempts
        /\ attempt' = [attempt EXCEPT ![a] = @ + 1]
        /\ UNCHANGED <<call, verdict>>
     \/ /\ ~retryable \/ attempt[a] > MaxAttempts
        /\ call' = [call EXCEPT ![a] = "ended"]
        /\ verdict' = [verdict EXCEPT ![a] = "error"]
        /\ UNCHANGED attempt
  /\ UNCHANGED <<vars, phase, why, session, answered, joined, events, finished, saved>>

\* send_with_retry: an attempt fails or exceeds its deadline.  A rate limit
\* with a short delay and a transport error are retried, others are not.
AttemptFails(a, retryable) ==
  /\ call[a] = "sending"
  /\ \/ /\ retryable /\ attempt[a] < MaxAttempts
        /\ attempt' = [attempt EXCEPT ![a] = @ + 1]
        /\ UNCHANGED <<call, verdict>>
     \/ /\ ~retryable \/ attempt[a] = MaxAttempts
        /\ call' = [call EXCEPT ![a] = "ended"]
        /\ verdict' = [verdict EXCEPT ![a] = "error"]
        /\ UNCHANGED attempt
  /\ UNCHANGED <<vars, phase, why, session, answered, joined, events, finished, saved>>

\* The provider completes; terminal_text and parse_verdict make of it a text
\* for the proposer, a vote for a validator, or an error.
AttemptCompletes(a, result) ==
  /\ call[a] = "sending"
  /\ result \in (IF answered THEN Vote ELSE {"text"}) \cup {"error"}
  /\ call' = [call EXCEPT ![a] = "ended"]
  /\ verdict' = [verdict EXCEPT ![a] = result]
  /\ UNCHANGED <<vars, attempt, phase, why, session, answered, joined, events,
                 finished, saved>>

\* run_proposal records the candidate; the validators are then spawned.
Proposed ==
  /\ phase = "proposing" /\ call[proposer] = "ended"
  /\ \/ /\ verdict[proposer] = "error" /\ Fail("provider")
        /\ UNCHANGED <<answered, peerVars>>
     \/ /\ verdict[proposer] = "text" /\ Goto("collecting")
        /\ answered' = TRUE
        /\ call' = [a \in Agent |-> IF a \in Validators THEN "sending" ELSE call[a]]
        /\ attempt' = [a \in Agent |-> IF a \in Validators THEN 1 ELSE attempt[a]]
        /\ verdict' = [a \in Agent |-> "none"]
  /\ UNCHANGED <<vars, session, joined, events, finished, saved>>

-----------------------------------------------------------------------------
(***************************************************************************)
(* collect_validations: join a task that has ended.                        *)
(***************************************************************************)
Joinable(a) == phase = "collecting" /\ a \in Validators \ joined /\ call[a] = "ended"

\* Fault: the loop goes on after the vote that decides.
Record_GoesOn(a) ==
  /\ Joinable(a) /\ verdict[a] \in Vote
  /\ IF blind THEN vote_blind(board, claim, a, verdict[a])
              ELSE vote_ordinary(board, claim, a, verdict[a])
  /\ up' = up
  /\ joined' = joined \cup {a}
  /\ Emit(<<"VoteCast">>)
  /\ Goto("collecting")
  /\ UNCHANGED <<session, answered, peerVars, finished, saved>>

\* Fault: the decision is announced before the vote it follows from.
Record_Early(a) ==
  /\ Joinable(a) /\ verdict[a] \in Vote
  /\ IF blind THEN vote_blind(board, claim, a, verdict[a])
              ELSE vote_ordinary(board, claim, a, verdict[a])
  /\ up' = up
  /\ joined' = joined \cup {a}
  /\ LET step == claims'[board][claim].status
     IN  /\ Emit(CASE step = "Open" -> <<"VoteCast">>
                   [] step = "Reached" ->
                        <<"QuorumReached", "CohortAborted", "VoteCast">>
                   [] step = "Unreachable" ->
                        <<"QuorumUnreachable", "CohortAborted", "VoteCast">>)
         /\ Goto(IF step = "Open" THEN "collecting" ELSE "aborting")
  /\ UNCHANGED <<session, answered, peerVars, finished, saved>>

\* Turn::record of a verdict: the vote, its event, and what follows from it.
Record(a) ==
  /\ Joinable(a) /\ verdict[a] \in Vote
  /\ IF blind THEN vote_blind(board, claim, a, verdict[a])
              ELSE vote_ordinary(board, claim, a, verdict[a])
  /\ up' = up
  /\ joined' = joined \cup {a}
  /\ LET step == claims'[board][claim].status
     IN  /\ Emit(CASE step = "Open" -> <<"VoteCast">>
                   [] step = "Reached" ->
                        <<"VoteCast", "QuorumReached", "CohortAborted">>
                   [] step = "Unreachable" ->
                        <<"VoteCast", "QuorumUnreachable", "CohortAborted">>)
         /\ Goto(IF step = "Open" THEN "collecting" ELSE "aborting")
  /\ UNCHANGED <<session, answered, peerVars, finished, saved>>

\* A validator that failed is joined and casts no vote.
JoinFailure(a) ==
  /\ Joinable(a) /\ verdict[a] = "error"
  /\ joined' = joined \cup {a}
  /\ UNCHANGED <<vars, phase, why, session, answered, peerVars, events, finished, saved>>

\* Fault: the loop waits for votes, not for tasks.
NoQuorum_AllVoted ==
  /\ phase = "collecting"
  /\ \A a \in Validators : bb_vote[claim][a] # "none"
  /\ Fail("no_quorum")
  /\ UNCHANGED <<vars, session, answered, peerVars, joined, events, finished, saved>>

\* Every task is joined and the claim is still open.
NoQuorum ==
  /\ phase = "collecting" /\ joined = Validators
  /\ Fail("no_quorum")
  /\ UNCHANGED <<vars, session, answered, peerVars, joined, events, finished, saved>>

\* abort_and_drain: a task still running is cancelled where it waits...
Abort(a) ==
  /\ phase = "aborting" /\ call[a] = "sending"
  /\ call' = [call EXCEPT ![a] = "aborted"]
  /\ UNCHANGED <<vars, phase, why, session, answered, verdict, attempt, joined,
                 events, finished, saved>>

\* Fault: the tasks are aborted but not waited for.
Drained_NoWait ==
  /\ phase = "aborting"
  /\ \/ claims[board][claim].status = "Reached" /\ Goto("finish")
     \/ claims[board][claim].status = "Unreachable" /\ Fail("rejected")
  /\ UNCHANGED <<vars, session, answered, peerVars, joined, events, finished, saved>>

\* ... and when all have ended the turn goes on, or fails.
Drained ==
  /\ phase = "aborting" /\ \A a \in Agent : call[a] # "sending"
  /\ \/ claims[board][claim].status = "Reached" /\ Goto("finish")
     \/ claims[board][claim].status = "Unreachable" /\ Fail("rejected")
  /\ UNCHANGED <<vars, session, answered, peerVars, joined, events, finished, saved>>

-----------------------------------------------------------------------------
\* Turn::finish seals the answer in the ledger.
Finish ==
  /\ phase = "finish" /\ ~finished
  /\ claims[board][claim].status = "Reached" /\ answered
  /\ finished' = TRUE
  /\ Emit(<<"SegmentSealed", "TurnCompleted">>)
  /\ Goto("turn_end")
  /\ UNCHANGED <<vars, session, answered, peerVars, joined, saved>>

\* The session records the turn and is saved, or the store refuses.
Save ==
  /\ phase = "save"
  /\ \/ saved' = TRUE /\ Goto("session_end")
     \/ saved' = FALSE /\ Fail("save")
  /\ UNCHANGED <<vars, session, answered, peerVars, joined, events, finished>>

\* The steps that end with a hook's command: `fire` waits for its exit.
HookStep == SessionStartHook \/ TurnStartHook \/ TurnEndHook \/ SessionEndHook

RuntimeStep ==
  \/ OpenBoard \/ Start \/ Proposed \/ NoQuorum \/ Drained \/ Finish \/ Save
  \/ \E a \in Agent : Record(a) \/ JoinFailure(a)

PeerStep(a) ==
  \/ \E retryable \in BOOLEAN : AttemptFails(a, retryable)
  \/ \E result \in Result : AttemptCompletes(a, result)
  \/ Abort(a)

TurnNext == HookStep \/ RuntimeStep \/ \E a \in Agent : PeerStep(a)

\* The runtime task is polled until it returns, and a call in flight always
\* moves on: each attempt has a deadline.  A hook's command has none: `fire`
\* writes to it and waits for its exit, so no HookStep is bound to happen.
TurnSpec ==
  /\ TurnInit /\ [][TurnNext]_allVars
  /\ WF_allVars(RuntimeStep) /\ \A a \in Agent : WF_allVars(PeerStep(a))

-----------------------------------------------------------------------------
(***************************************************************************)
(* Properties.                                                             *)
(***************************************************************************)
\* The runtime's variables have their types.
TurnTypeOK ==
  /\ TypeOK
  /\ phase \in Phase /\ why \in Why
  /\ session \subseteq Agent /\ joined \subseteq Agent
  /\ answered \in BOOLEAN /\ finished \in BOOLEAN /\ saved \in BOOLEAN
  /\ call \in [Agent -> CallState] /\ verdict \in [Agent -> Result]
  /\ attempt \in [Agent -> 0..MaxAttempts]

Approving == {a \in joined : verdict[a] = "yes"}

\* An answer is sealed or saved only with quorum(k) of the k peers behind it:
\* validators whose own provider call ended in a yes that was joined, and the
\* proposer, except at k = 1, where its blind second call must say yes.
SealedByQuorum ==
  finished \/ saved =>
    Cardinality(Approving) + (IF blind THEN 0 ELSE 1) >= quorum(k)

\* No verdict is refused: whenever a validator's verdict is there to be
\* joined, the board still takes it (its claim is open, the voter is in the
\* roster and has not voted), so `turn.record(..)?` never ends the run.
NoVerdictRefused ==
  \A a \in Agent : Joinable(a) /\ verdict[a] \in Vote =>
    /\ claims[board][claim].status = "Open"
    /\ a \in bb_validator[claim] /\ bb_vote[claim][a] = "none"

Count(kind) == Cardinality({i \in DOMAIN events : events[i] = kind})
At(kind) == {i \in DOMAIN events : events[i] = kind}

\* The events tell the story as it is stored, in its order: one VoteCast per
\* vote row, none after the decision; the decision announced is the claim's;
\* completion only after a reached quorum, and once.
StoryMatchesBoard ==
  /\ Count("VoteCast") = Cardinality({a \in Agent : bb_vote[claim][a] # "none"})
  /\ \A i \in At("VoteCast"), j \in At("CohortAborted") : i < j
  /\ At("QuorumReached") # {} <=> bb_claim[claim].status = "reached"
  /\ At("QuorumUnreachable") # {} <=> bb_claim[claim].status = "unreachable"
  /\ Count("TurnCompleted") <= 1
  /\ At("TurnCompleted") # {} => At("QuorumReached") # {}

\* The turn and its board never part: the state is of its type, the board takes
\* every verdict that is joined, and the events tell what the board holds
\* (Turn::record, run_turn).
TurnFollowsBoard == TurnTypeOK /\ NoVerdictRefused /\ StoryMatchesBoard

\* Nothing is left running: once the runtime is past its validators, or has
\* given up, no provider call is under way (abort_and_drain).
NothingLeftRunning ==
  phase \in {"finish", "turn_end", "save", "session_end", "done", "failed"} =>
    \A a \in Agent : call[a] # "sending"

\* Where the runtime waits for a hook's command.
HookPoint == {"session_start", "turn_start", "turn_end", "session_end"}

\* The run ends whatever the provider does, unless a hook's command never
\* exits: then it waits at that hook for good, and nowhere else
\* (collect_validations, abort_and_drain, HookRegistry::fire).
TurnEnds == <>(phase \in {"done", "failed"}) \/ <>[](phase \in HookPoint)

\* runtime.rs, fire_hooks: "a command failure is reported but does not fail
\* the turn".  An answer the quorum accepted and the ledger sealed is at stake.
HookFailureHarmless == why = "hook" => ~finished
=============================================================================
