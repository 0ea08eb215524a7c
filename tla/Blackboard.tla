----------------------------- MODULE Blackboard -----------------------------
(***************************************************************************)
(* The shared peer blackboard (supra_blackboard): claims, rosters and      *)
(* votes, kept in memory by every open board and made durable in the three *)
(* tables of one SQLite store.                                             *)
(*                                                                         *)
(* Several boards may be open on one store.  A board decides from its own  *)
(* memory, filled when it opened; the store decides only through its       *)
(* primary keys and the guard of update_status.  A transaction is atomic;  *)
(* a process may die at any point, also between the commit and the update  *)
(* of its memory.                                                          *)
(*                                                                         *)
(* A refused call (unknown or closed claim, stranger, second vote, failed  *)
(* transaction) changes neither memory nor store and is no step here.      *)
(* No statement updates turn_id, proposer, k or the roster of a claim, so  *)
(* a board's copy of them is read from the row.  Bodies are left out.      *)
(***************************************************************************)
EXTENDS QuorumTally, FiniteSets

CONSTANTS
  Board,    \* the boards that may be open on the store
  Claim,    \* the claim ids that can be minted
  TurnId,   \* the turns claims belong to
  Agent     \* agent ids: naturals in the order of their text form

ASSUME AgentAssumption == Agent \subseteq Nat /\ IsFiniteSet(Agent) /\ Agent # {}

VARIABLES
  bb_claim,      \* the claim table: Claim -> row, NoRow where none
  bb_validator,  \* the roster table: Claim -> set of agents
  bb_vote,       \* the vote table: Claim -> Agent -> vote, "none" where no row
  up,            \* is this board open (its process alive)
  claims         \* Board -> Claim -> state in memory, NotHeld where none

tables == <<bb_claim, bb_validator, bb_vote>>
vars   == <<bb_claim, bb_validator, bb_vote, up, claims>>

Slot == Vote \cup {"none"}

Row == [turn : TurnId, proposer : Agent, k : Nat,
        status : {"open", "reached", "unreachable"}]

NoRow == [status |-> "absent"]

\* ClaimState without the columns that never change; `validators` is slot.
ClaimState ==
  [tally : Tally, status : QuorumStatus, slot : [Agent -> Slot]]

NotHeld == [status |-> "absent"]

Stored(c)  == bb_claim[c].status # "absent"
Held(b, c) == claims[b][c].status # "absent"

status_text(s) ==
  CASE s = "Open"        -> "open"
    [] s = "Reached"     -> "reached"
    [] s = "Unreachable" -> "unreachable"

Empty == [c \in Claim |-> NotHeld]
Blank == [a \in Agent |-> "none"]

Init ==
  /\ bb_claim     = [c \in Claim |-> NoRow]
  /\ bb_validator = [c \in Claim |-> {}]
  /\ bb_vote      = [c \in Claim |-> Blank]
  /\ up           = [b \in Board |-> FALSE]
  /\ claims       = [b \in Board |-> Empty]

-----------------------------------------------------------------------------
(***************************************************************************)
(* Tallies.  Publishing an ordinary candidate is the proposer's approval;  *)
(* a blind re-derivation (k = 1, the proposer its own validator) starts    *)
(* from nothing.                                                           *)
(***************************************************************************)
\* Fault: the proposer's own approval is forgotten.
ordinary_tally_Forgets(k) == NewTally(k)

ordinary_tally(k) == record(NewTally(k), "yes")

Blind(c) == bb_claim[c].k = 1 /\ bb_validator[c] = {bb_claim[c].proposer}

\* Fault: a blind re-derivation is taken for an ordinary claim.
BaseTally_Ordinary(c) == ordinary_tally(bb_claim[c].k)

BaseTally(c) ==
  IF Blind(c) THEN NewTally(bb_claim[c].k) ELSE ordinary_tally(bb_claim[c].k)

Voters(slot, vote) == {a \in Agent : slot[a] = vote}

\* A base tally after the votes of `slot`, recorded one by one in any order.
Counted(t, slot) ==
  [k |-> t.k, needed |-> t.needed,
   yes     |-> t.yes + Cardinality(Voters(slot, "yes")),
   no      |-> t.no + Cardinality(Voters(slot, "no")),
   abstain |-> t.abstain + Cardinality(Voters(slot, "abstain"))]

-----------------------------------------------------------------------------
(***************************************************************************)
(* open: hydrate every stored claim, or refuse the whole store.            *)
(***************************************************************************)
\* A vote outside the roster, or one more than the tally has room for.
Inconsistent(c) ==
  \/ \E a \in Agent : bb_vote[c][a] # "none" /\ a \notin bb_validator[c]
  \/ pending(Counted(BaseTally(c), bb_vote[c])) < 0

\* Fault: a restart forgets the votes of a claim.
Hydrated_Forgets(c) == [tally |-> BaseTally(c), status |-> "Open", slot |-> Blank]

Hydrated(c) ==
  LET tally == Counted(BaseTally(c), bb_vote[c])
  IN  [tally  |-> tally,
       status |-> CASE bb_claim[c].status = "open"        -> status(tally)
                    [] bb_claim[c].status = "reached"     -> "Reached"
                    [] bb_claim[c].status = "unreachable" -> "Unreachable",
       slot   |-> bb_vote[c]]

Malformed == \E c \in Claim : Stored(c) /\ Inconsistent(c)

Open(b) ==
  /\ ~up[b]
  /\ ~Malformed
  /\ up' = [up EXCEPT ![b] = TRUE]
  /\ claims' = [claims EXCEPT ![b] =
       [c \in Claim |-> IF Stored(c) THEN Hydrated(c) ELSE NotHeld]]
  /\ UNCHANGED tables

\* The process dies, or drops its board.
Crash(b) ==
  /\ up[b]
  /\ up' = [up EXCEPT ![b] = FALSE]
  /\ claims' = [claims EXCEPT ![b] = Empty]
  /\ UNCHANGED tables

\* After its commit a call puts `state` in memory, or its process is gone.
Remember(b, c, state) ==
  \/ claims' = [claims EXCEPT ![b][c] = state] /\ up' = up
  \/ claims' = [claims EXCEPT ![b] = Empty] /\ up' = [up EXCEPT ![b] = FALSE]

-----------------------------------------------------------------------------
(***************************************************************************)
(* publish and publish_blind: one transaction inserts the claim, "open",   *)
(* with its roster; the board then remembers it as Open.                   *)
(***************************************************************************)
insert_claim(c, turn, proposer, k, roster) ==
  /\ ~Stored(c)
  /\ k \in 1..PEER_CEILING
  /\ bb_claim' = [bb_claim EXCEPT ![c] =
       [turn |-> turn, proposer |-> proposer, k |-> k, status |-> "open"]]
  /\ bb_validator' = [bb_validator EXCEPT ![c] = roster]
  /\ UNCHANGED bb_vote

\* Fault: memory keeps the text of the status column.
Fresh_Text(tally) == [tally |-> tally, status |-> "open", slot |-> Blank]

Fresh(tally) == [tally |-> tally, status |-> "Open", slot |-> Blank]

publish(b, c, turn, proposer, validators) ==
  LET k == Cardinality(validators) + 1
  IN  /\ up[b]
      /\ proposer \notin validators
      /\ insert_claim(c, turn, proposer, k, validators)
      /\ Remember(b, c, Fresh(ordinary_tally(k)))

publish_blind(b, c, turn, proposer) ==
  /\ up[b]
  /\ insert_claim(c, turn, proposer, 1, {proposer})
  /\ Remember(b, c, Fresh(NewTally(1)))

-----------------------------------------------------------------------------
(***************************************************************************)
(* vote and vote_blind: the vote is evaluated on a copy of the tally, then *)
(* one transaction inserts its row and, when it decides the claim, closes  *)
(* the claim's row, which must still be open.                              *)
(***************************************************************************)
\* Fault: INSERT OR REPLACE.
insert_vote_Replaces(c, voter, vote) ==
  bb_vote' = [bb_vote EXCEPT ![c][voter] = vote]

insert_vote(c, voter, vote) ==
  /\ bb_vote[c][voter] = "none"
  /\ bb_vote' = [bb_vote EXCEPT ![c][voter] = vote]

update_status(c, outcome) ==
  /\ bb_claim[c].status = "open"
  /\ bb_claim' = [bb_claim EXCEPT ![c].status = status_text(outcome)]

\* Fault: the voter is not looked up in the roster.
record_vote_AnyVoter(b, c, voter, vote) ==
  LET state      == claims[b][c]
      next_tally == record(state.tally, vote)
      outcome    == status(next_tally)
  IN  /\ state.slot[voter] = "none"
      /\ Recordable(state.tally)
      /\ insert_vote(c, voter, vote)
      /\ \/ outcome = "Open" /\ UNCHANGED bb_claim
         \/ outcome # "Open" /\ update_status(c, outcome)
      /\ Remember(b, c, [tally  |-> next_tally,
                         status |-> outcome,
                         slot   |-> [state.slot EXCEPT ![voter] = vote]])
      /\ UNCHANGED bb_validator

record_vote(b, c, voter, vote) ==
  LET state      == claims[b][c]
      next_tally == record(state.tally, vote)
      outcome    == status(next_tally)
  IN  /\ voter \in bb_validator[c]
      /\ state.slot[voter] = "none"
      /\ Recordable(state.tally)
      /\ insert_vote(c, voter, vote)
      /\ \/ outcome = "Open" /\ UNCHANGED bb_claim
         \/ outcome # "Open" /\ update_status(c, outcome)
      /\ Remember(b, c, [tally  |-> next_tally,
                         status |-> outcome,
                         slot   |-> [state.slot EXCEPT ![voter] = vote]])
      /\ UNCHANGED bb_validator

vote_ordinary(b, c, voter, vote) ==
  /\ claims[b][c].status = "Open"
  /\ voter # bb_claim[c].proposer
  /\ record_vote(b, c, voter, vote)

vote_blind(b, c, voter, vote) ==
  /\ claims[b][c].status = "Open"
  /\ voter = bb_claim[c].proposer
  /\ bb_claim[c].k = 1
  /\ Cardinality(bb_validator[c]) = 1
  /\ record_vote(b, c, voter, vote)

-----------------------------------------------------------------------------
(***************************************************************************)
(* next_proposer: the candidate with the fewest claims in the turn that    *)
(* this board holds, ties broken by id.                                    *)
(***************************************************************************)
\* Fault: only the claims still open are counted.
Proposals_Open(b, turn, agent) ==
  Cardinality({c \in Claim : /\ claims[b][c].status = "Open"
                             /\ bb_claim[c].turn = turn
                             /\ bb_claim[c].proposer = agent})

Proposals(b, turn, agent) ==
  Cardinality({c \in Claim : /\ Held(b, c)
                             /\ bb_claim[c].turn = turn
                             /\ bb_claim[c].proposer = agent})

next_proposer(b, turn, candidates) ==
  CHOOSE a \in candidates : \A other \in candidates \ {a} :
    \/ Proposals(b, turn, a) < Proposals(b, turn, other)
    \/ Proposals(b, turn, a) = Proposals(b, turn, other) /\ a < other

-----------------------------------------------------------------------------
PublishAny(b) ==
  \E c \in Claim, turn \in TurnId, proposer \in Agent :
    \/ \E validators \in SUBSET Agent : publish(b, c, turn, proposer, validators)
    \/ publish_blind(b, c, turn, proposer)

VoteAny(b) ==
  \E c \in Claim, voter \in Agent, vote \in Vote :
    \/ vote_ordinary(b, c, voter, vote)
    \/ vote_blind(b, c, voter, vote)

Next ==
  \E b \in Board : Open(b) \/ Crash(b) \/ PublishAny(b) \/ VoteAny(b)

Spec == Init /\ [][Next]_vars

-----------------------------------------------------------------------------
(***************************************************************************)
(* Properties.                                                             *)
(***************************************************************************)
\* Every table and every board's memory has its declared shape, a closed
\* board holds nothing, and nobody holds a claim the store does not have.
TypeOK ==
  /\ bb_claim \in [Claim -> Row \cup {NoRow}]
  /\ bb_validator \in [Claim -> SUBSET Agent]
  /\ bb_vote \in [Claim -> [Agent -> Slot]]
  /\ up \in [Board -> BOOLEAN]
  /\ claims \in [Board -> [Claim -> ClaimState \cup {NotHeld}]]

\* The votes a claim has, the proposer's own approval included when the
\* claim is an ordinary one.
Approvals(c) ==
  Voters(bb_vote[c], "yes") \cup (IF Blind(c) THEN {} ELSE {bb_claim[c].proposer})

\* `open` never refuses a store that boards wrote, however many boards
\* wrote to it at once and wherever they died (board.rs, the roster and
\* tally check of `open`).
HydrationSucceeds == ~Malformed

ReachedHasQuorum(c) == Cardinality(Approvals(c)) >= quorum(bb_claim[c].k)

UnreachableHasRefusals(c) ==
  Cardinality(Voters(bb_vote[c], "no") \cup Voters(bb_vote[c], "abstain"))
    > bb_claim[c].k - quorum(bb_claim[c].k)

\* A verdict rests on durable votes: when a board, or the store, says Reached
\* there are quorum(k) distinct members whose approval is in the store, and
\* when it says Unreachable too many members have answered otherwise
\* (`record_vote` commits before memory changes).
VerdictsRestOnVotes ==
  \A c \in Claim :
    /\ bb_claim[c].status = "reached" => ReachedHasQuorum(c)
    /\ bb_claim[c].status = "unreachable" => UnreachableHasRefusals(c)
    /\ \A b \in Board :
         /\ claims[b][c].status = "Reached" => ReachedHasQuorum(c)
         /\ claims[b][c].status = "Unreachable" => UnreachableHasRefusals(c)

SaysReached(c) ==
  bb_claim[c].status = "reached" \/ \E b \in Board : claims[b][c].status = "Reached"

SaysUnreachable(c) ==
  \/ bb_claim[c].status = "unreachable"
  \/ \E b \in Board : claims[b][c].status = "Unreachable"

\* No two boards on one store, and no board and the store, ever stand on
\* opposite verdicts of one claim, although a board never re-reads the store
\* (record_vote's memory against update_status's `status = 'open'`).
VerdictsAgree == \A c \in Claim : ~(SaysReached(c) /\ SaysUnreachable(c))

\* A vote row is never changed or removed and a terminal status never leaves
\* the store: what a board was told by `vote` survives every later step.
DurableForever ==
  [][\A c \in Claim :
       /\ \A a \in Agent : bb_vote[c][a] # "none" => bb_vote'[c][a] = bb_vote[c][a]
       /\ Stored(c) /\ bb_claim[c].status # "open" => bb_claim'[c] = bb_claim[c]]_vars

(***************************************************************************)
(* What holds while at most one board is open at a time.                   *)
(***************************************************************************)
\* A restart is transparent: hydrating the store now would give exactly the
\* memory the open board has, incremental tally and status included
\* (`open`: "a restart resumes the tally instead of forgetting the claim").
\* The claim published with an empty roster is the exception: it is decided
\* by its own publication, which `publish` does not notice and `open` does.
RestartTransparent ==
  \A b \in Board, c \in Claim :
    up[b] /\ Stored(c) /\ bb_validator[c] # {} => claims[b][c] = Hydrated(c)

AllVoted(c) == \A a \in bb_validator[c] : bb_vote[c][a] # "none"

\* Once every member of a non-empty roster has voted the claim's row is
\* closed: no claim waits for a vote nobody is left to cast.  It rests on
\* ordinary_tally, in which the proposer has spoken by publishing.  The crate's
\* README says otherwise of two peers, see PairStaysOpen.
FullRosterDecides ==
  \A c \in Claim :
    Stored(c) /\ bb_validator[c] # {} /\ AllVoted(c) => bb_claim[c].status # "open"

\* supra_blackboard/README.md, "The tally spans the cohort": `pending` counts
\* the proposer, who will never speak, so "at k=2 one yes of two needed stays
\* Open forever".  The code refutes it: the proposer's approval is the other
\* yes, and the single validator's yes closes the claim as reached.
PairStaysOpen ==
  \A c \in Claim :
    Stored(c) /\ bb_claim[c].k = 2 /\ AllVoted(c) /\ Cardinality(Voters(bb_vote[c], "yes")) = 1
      => bb_claim[c].status = "open"

(***************************************************************************)
(* Rotation: proposers taken from next_proposer.                           *)
(***************************************************************************)
PublishRotating(b) ==
  \E c \in Claim, turn \in TurnId :
    LET proposer == next_proposer(b, turn, Agent)
    IN  \/ \E validators \in SUBSET (Agent \ {proposer}) :
             publish(b, c, turn, proposer, validators)
        \/ publish_blind(b, c, turn, proposer)

RotatingNext ==
  \E b \in Board : Open(b) \/ Crash(b) \/ PublishRotating(b) \/ VoteAny(b)

RotatingSpec == Init /\ [][RotatingNext]_vars

\* Claim ids are minted at random; nothing depends on their order.
Injective(f) == \A c, d \in Claim : f[c] = f[d] => c = d
ClaimSymmetry == {[c \in Claim |-> f[c]] : f \in {g \in [Claim -> Claim] : Injective(g)}}

\* Inside one turn the shares of any two candidates differ by at most one, so
\* no candidate proposes twice before every other has proposed once, across
\* restarts too (`next_proposer` counts hydrated claims).
FairRotation ==
  \A turn \in TurnId, a1, a2 \in Agent :
    Cardinality({c \in Claim : Stored(c) /\ bb_claim[c].turn = turn
                                         /\ bb_claim[c].proposer = a1})
    <= 1 + Cardinality({c \in Claim : Stored(c) /\ bb_claim[c].turn = turn
                                         /\ bb_claim[c].proposer = a2})
=============================================================================
