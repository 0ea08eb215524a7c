-------------------------- MODULE BlackboardProofs --------------------------
(***************************************************************************)
(* Proofs about the blackboard for any boards, claims, turns and agents:   *)
(* the shape of its state, that a store boards wrote always opens again,   *)
(* that every verdict rests on durable votes, and that no two boards ever  *)
(* stand on opposite verdicts.  Then, for boards opened one after another, *)
(* that a restart is transparent, a full roster decides and proposers take *)
(* turns.                                                                  *)
(***************************************************************************)
EXTENDS Blackboard, FiniteSetTheorems, WellFoundedInduction, TLAPS

\* A set of naturals that is not empty has a least element.
LEMMA NatMin ==
  ASSUME NEW T \in SUBSET Nat, T # {}
  PROVE  \E x \in T : \A y \in T : x <= y
<1> DEFINE R == OpToRel(<, Nat)
<1>1. IsWellFoundedOn(R, Nat)
  BY NatLessThanWellFounded
<1>2. \E x \in T : \A y \in T : ~(<<y, x>> \in R)
  <2> HIDE DEF R
  <2> QED BY <1>1, WFMin
<1>3. PICK x \in T : \A y \in T : ~(<<y, x>> \in R)
  BY <1>2
<1>4. \A y \in T : <<y, x>> \in R <=> y < x
  BY DEF OpToRel
<1> HIDE DEF R
<1>5. \A y \in T : ~(y < x)
  BY <1>3, <1>4
<1> QED
  BY <1>5

-----------------------------------------------------------------------------
(***************************************************************************)
(* Counting votes.                                                         *)
(***************************************************************************)
\* The voters of one choice are a finite set, counted by a natural number.
LEMMA VotersFinite ==
  ASSUME NEW slot, NEW v
  PROVE  /\ Voters(slot, v) \subseteq Agent
         /\ IsFiniteSet(Voters(slot, v))
         /\ Cardinality(Voters(slot, v)) \in Nat
<1>1. Voters(slot, v) \subseteq Agent
  BY DEF Voters
<1> QED
  BY <1>1, AgentAssumption, FS_Subset, FS_CardinalityType

\* When empty slots are filled and full ones kept, every choice keeps its
\* voters and its count does not fall.
LEMMA VotesGrow ==
  ASSUME NEW s1, NEW s2, NEW v \in Vote,
         \A a \in Agent : s1[a] # "none" => s2[a] = s1[a]
  PROVE  /\ Voters(s1, v) \subseteq Voters(s2, v)
         /\ Cardinality(Voters(s1, v)) <= Cardinality(Voters(s2, v))
<1>1. Voters(s1, v) \subseteq Voters(s2, v)
  BY DEF Voters, Vote
<1> QED
  BY <1>1, VotersFinite, FS_Subset

\* Filling one empty slot adds one to the count of that choice only, which
\* is what recording the vote does to the tally.
LEMMA CountedRecord ==
  ASSUME NEW slot \in [Agent -> Slot], NEW a \in Agent, slot[a] = "none",
         NEW v \in Vote, NEW t \in Tally
  PROVE  Counted(t, [slot EXCEPT ![a] = v]) = record(Counted(t, slot), v)
<1> DEFINE s2 == [slot EXCEPT ![a] = v]
<1>1. Voters(s2, v) = Voters(slot, v) \cup {a} /\ a \notin Voters(slot, v)
  BY DEF Voters, Slot, Vote
<1>2. Cardinality(Voters(s2, v)) = Cardinality(Voters(slot, v)) + 1
  BY <1>1, VotersFinite, FS_AddElement
<1>3. \A w \in Vote \ {v} : Voters(s2, w) = Voters(slot, w)
  BY DEF Voters, Slot, Vote
<1>4. \A w \in Vote : Cardinality(Voters(slot, w)) \in Nat
  BY VotersFinite
<1>0. SUFFICES Counted(t, s2) = record(Counted(t, slot), v)
  OBVIOUS
<1> HIDE DEF s2
<1>5. CASE v = "yes"
  BY <1>2, <1>3, <1>4, <1>5 DEF Counted, record, Counts, Tally, Vote
<1>6. CASE v = "no"
  BY <1>2, <1>3, <1>4, <1>6 DEF Counted, record, Counts, Tally, Vote
<1>7. CASE v = "abstain"
  BY <1>2, <1>3, <1>4, <1>7 DEF Counted, record, Counts, Tally, Vote
<1> QED
  BY <1>5, <1>6, <1>7 DEF Vote

\* An empty roster's tally is its base tally.
LEMMA CountedBlank ==
  ASSUME NEW t \in Tally
  PROVE  Counted(t, Blank) = t
<1>1. \A v \in Vote : Voters(Blank, v) = {}
  BY DEF Voters, Blank, Vote
<1>2. Cardinality({}) = 0
  BY FS_EmptySet
<1> QED
  BY <1>1, <1>2 DEF Counted, Tally, Vote

-----------------------------------------------------------------------------
(***************************************************************************)
(* Tallies have their type.                                                *)
(***************************************************************************)
\* quorum(k) is a natural number, and no more than k.
LEMMA QuorumType ==
  ASSUME NEW k \in Nat
  PROVE  quorum(k) \in Nat /\ quorum(k) <= k
BY DEF quorum, DivCeil

\* A fresh tally, with or without the proposer's approval, is a tally.
LEMMA BaseType ==
  ASSUME NEW k \in Nat
  PROVE  NewTally(k) \in Tally /\ ordinary_tally(k) \in Tally
BY QuorumType DEF NewTally, ordinary_tally, record, Counts, Tally

\* Counting votes onto a tally gives a tally.
LEMMA CountedType ==
  ASSUME NEW t \in Tally, NEW slot
  PROVE  Counted(t, slot) \in Tally
BY VotersFinite DEF Counted, Tally

\* Recording a vote in a tally gives a tally.
LEMMA RecordType ==
  ASSUME NEW t \in Tally, NEW v
  PROVE  record(t, v) \in Tally
BY DEF record, Counts, Tally

-----------------------------------------------------------------------------
(***************************************************************************)
(* Verdicts and votes, for one claim given by its values.                  *)
(***************************************************************************)
Base(k, isBlind) == IF isBlind THEN NewTally(k) ELSE ordinary_tally(k)
Yeas(votes, p, isBlind) == Voters(votes, "yes") \cup (IF isBlind THEN {} ELSE {p})
Nays(votes) == Voters(votes, "no") \cup Voters(votes, "abstain")

Fits(k, p, roster, isBlind) ==
  /\ isBlind \in BOOLEAN
  /\ isBlind => k = 1 /\ roster = {p}
  /\ ~isBlind => p \notin roster /\ k = Cardinality(roster) + 1

\* How many approve and how many do not, from the counts of single choices.
LEMMA YeasAndNays ==
  ASSUME NEW k \in Nat, NEW p \in Agent, NEW roster \in SUBSET Agent, NEW isBlind,
         Fits(k, p, roster, isBlind), NEW votes,
         \A a \in Agent : votes[a] # "none" => a \in roster
  PROVE  /\ IsFiniteSet(Yeas(votes, p, isBlind)) /\ IsFiniteSet(Nays(votes))
         /\ Cardinality(Yeas(votes, p, isBlind)) =
              Cardinality(Voters(votes, "yes")) + (IF isBlind THEN 0 ELSE 1)
         /\ Cardinality(Nays(votes)) =
              Cardinality(Voters(votes, "no")) + Cardinality(Voters(votes, "abstain"))
         /\ Cardinality(Yeas(votes, p, isBlind)) + Cardinality(Nays(votes)) <= k
<1> DEFINE Y == Voters(votes, "yes")
           N == Voters(votes, "no")
           A == Voters(votes, "abstain")
           W == Yeas(votes, p, isBlind)
           M == roster \cup {p}
<1>1. /\ Y \subseteq roster /\ N \subseteq roster /\ A \subseteq roster
      /\ Y \cap N = {} /\ Y \cap A = {} /\ N \cap A = {}
  BY DEF Voters
<1>2. /\ IsFiniteSet(Y) /\ IsFiniteSet(N) /\ IsFiniteSet(A)
      /\ Cardinality(Y) \in Nat /\ Cardinality(N) \in Nat /\ Cardinality(A) \in Nat
  BY VotersFinite
<1>3. IsFiniteSet(roster) /\ Cardinality(roster) \in Nat
  BY AgentAssumption, FS_Subset, FS_CardinalityType
<1>4. IsFiniteSet(Nays(votes)) /\ Cardinality(Nays(votes)) = Cardinality(N) + Cardinality(A)
  <2>1. IsFiniteSet(N \cup A) /\ Cardinality(N \cup A) =
          Cardinality(N) + Cardinality(A) - Cardinality(N \cap A)
    BY <1>2, FS_Union
  <2> QED
    BY <2>1, <1>1, <1>2, FS_EmptySet DEF Nays
<1>5. /\ IsFiniteSet(W)
      /\ Cardinality(W) = Cardinality(Y) + (IF isBlind THEN 0 ELSE 1)
  <2>1. CASE isBlind
    <3>1. W = Y
      BY <2>1 DEF Yeas
    <3> QED
      BY <3>1, <2>1, <1>2
  <2>2. CASE ~isBlind
    <3>1. W = Y \cup {p} /\ p \notin Y
      BY <2>2, <1>1 DEF Yeas, Fits
    <3> QED
      BY <3>1, <2>2, <1>2, FS_AddElement
  <2> QED
    BY <2>1, <2>2
<1>6. IsFiniteSet(M) /\ Cardinality(M) = k
  <2>1. CASE isBlind
    <3>1. M = {p} /\ k = 1
      BY <2>1 DEF Fits
    <3> QED
      BY <3>1, FS_Singleton
  <2>2. CASE ~isBlind
    <3>1. p \notin roster /\ k = Cardinality(roster) + 1
      BY <2>2 DEF Fits
    <3> QED
      BY <3>1, <1>3, FS_AddElement
  <2> QED
    BY <2>1, <2>2 DEF Fits
<1>7. /\ W \cup Nays(votes) \subseteq M
      /\ W \cap Nays(votes) = {}
  BY <1>1 DEF Yeas, Nays, Fits
<1>8. Cardinality(W) + Cardinality(Nays(votes)) <= k
  <2>1. Cardinality(W \cup Nays(votes)) =
          Cardinality(W) + Cardinality(Nays(votes)) - Cardinality(W \cap Nays(votes))
    BY <1>4, <1>5, FS_Union
  <2>2. Cardinality(W \cup Nays(votes)) <= Cardinality(M)
    BY <1>6, <1>7, FS_Subset
  <2>3. Cardinality(W) \in Nat /\ Cardinality(Nays(votes)) \in Nat
    BY <1>4, <1>5, FS_CardinalityType
  <2>4. Cardinality(W \cap Nays(votes)) = 0
    BY <1>7, FS_EmptySet
  <2> QED
    BY <2>1, <2>2, <2>3, <2>4, <1>6
<1> QED
  BY <1>4, <1>5, <1>8

\* A tally counted from part of the votes: its verdict rests on all of them.
LEMMA VerdictHasVotes ==
  ASSUME NEW k \in Nat, NEW p \in Agent, NEW roster \in SUBSET Agent, NEW isBlind,
         Fits(k, p, roster, isBlind), NEW votes, NEW slot,
         \A a \in Agent : votes[a] # "none" => a \in roster,
         \A a \in Agent : slot[a] # "none" => slot[a] = votes[a]
  PROVE  LET t == Counted(Base(k, isBlind), slot)
         IN  /\ status(t) = "Reached" =>
                  Cardinality(Yeas(votes, p, isBlind)) >= quorum(k)
             /\ status(t) = "Unreachable" =>
                  Cardinality(Nays(votes)) > k - quorum(k)
<1> DEFINE t == Counted(Base(k, isBlind), slot)
           n(v) == Cardinality(Voters(slot, v))
<1>1. \A v \in Vote : n(v) \in Nat /\ n(v) <= Cardinality(Voters(votes, v))
  BY VotesGrow, VotersFinite
<1>2. \A v \in Vote : Cardinality(Voters(votes, v)) \in Nat
  BY VotersFinite
<1>3. /\ t.k = k /\ t.needed = quorum(k)
      /\ t.yes = n("yes") + (IF isBlind THEN 0 ELSE 1)
      /\ t.no = n("no") /\ t.abstain = n("abstain")
  <2>1. \A v \in Vote : n(v) \in Nat
    BY <1>1
  <2> HIDE DEF n
  <2>2. t = [k |-> Base(k, isBlind).k, needed |-> Base(k, isBlind).needed,
             yes |-> Base(k, isBlind).yes + n("yes"),
             no |-> Base(k, isBlind).no + n("no"),
             abstain |-> Base(k, isBlind).abstain + n("abstain")]
    BY DEF Counted, n
  <2> HIDE DEF t
  <2>3. CASE isBlind
    BY <2>1, <2>2, <2>3 DEF Base, NewTally, Vote
  <2>4. CASE ~isBlind
    BY <2>1, <2>2, <2>4 DEF Base, NewTally, ordinary_tally, record, Counts, Vote
  <2> QED
    BY <2>3, <2>4
<1>4. /\ Cardinality(Yeas(votes, p, isBlind)) =
           Cardinality(Voters(votes, "yes")) + (IF isBlind THEN 0 ELSE 1)
      /\ Cardinality(Nays(votes)) =
           Cardinality(Voters(votes, "no")) + Cardinality(Voters(votes, "abstain"))
  BY YeasAndNays
<1>5. quorum(k) \in Nat
  BY QuorumType
<1> HIDE DEF t, n
<1>6. status(t) = "Reached" => t.yes >= t.needed
  BY DEF status, is_reached, is_unreachable
<1>7. status(t) = "Unreachable" => t.yes + (t.k - t.yes - t.no - t.abstain) < t.needed
  BY DEF status, is_reached, is_unreachable, pending
<1>8. status(t) = "Reached" => Cardinality(Yeas(votes, p, isBlind)) >= quorum(k)
  BY <1>1, <1>2, <1>3, <1>4, <1>5, <1>6 DEF Vote
<1>9. status(t) = "Unreachable" => Cardinality(Nays(votes)) > k - quorum(k)
  BY <1>1, <1>2, <1>3, <1>4, <1>5, <1>7 DEF Vote
<1> QED
  BY <1>8, <1>9 DEF t

-----------------------------------------------------------------------------
(***************************************************************************)
(* The inductive invariant.  TypeOK and the verdicts need three facts that *)
(* no run states as a property of its own: rosters fit their claims, votes *)
(* come from rosters, and memory is a part of the store.                   *)
(***************************************************************************)
\* A stored claim's k counts its proposer and its roster, except for a blind
\* re-derivation, where the proposer is the roster.
RosterFits ==
  \A c \in Claim : Stored(c) =>
    \/ /\ bb_claim[c].proposer \notin bb_validator[c]
       /\ bb_claim[c].k = Cardinality(bb_validator[c]) + 1
    \/ Blind(c)

\* Votes are cast on stored claims by members of their rosters.
VotesRostered ==
  \A c \in Claim : \A a \in Agent :
    bb_vote[c][a] # "none" => Stored(c) /\ a \in bb_validator[c]

\* What a board holds is stored; its slots are part of the vote table; its
\* tally is what counting those slots afresh would give.
MemoryPartOfStore ==
  \A b \in Board, c \in Claim : Held(b, c) =>
    /\ Stored(c)
    /\ \A a \in Agent : claims[b][c].slot[a] # "none" =>
                          claims[b][c].slot[a] = bb_vote[c][a]
    /\ claims[b][c].tally = Counted(BaseTally(c), claims[b][c].slot)

IInv ==
  /\ TypeOK
  /\ RosterFits
  /\ VotesRostered
  /\ MemoryPartOfStore
  /\ VerdictsRestOnVotes

-----------------------------------------------------------------------------
(***************************************************************************)
(* From claims to values, and what no step takes away.                     *)
(***************************************************************************)
\* Approvals and refusals only grow with the votes.
LEMMA VerdictVotesGrow ==
  ASSUME NEW v1, NEW v2, NEW p, NEW isBlind,
         \A a \in Agent : v1[a] # "none" => v2[a] = v1[a]
  PROVE  /\ Cardinality(Yeas(v1, p, isBlind)) <= Cardinality(Yeas(v2, p, isBlind))
         /\ Cardinality(Nays(v1)) <= Cardinality(Nays(v2))
         /\ Cardinality(Yeas(v1, p, isBlind)) \in Nat
         /\ Cardinality(Yeas(v2, p, isBlind)) \in Nat
         /\ Cardinality(Nays(v1)) \in Nat
         /\ Cardinality(Nays(v2)) \in Nat
<1>1. \A v \in Vote : Voters(v1, v) \subseteq Voters(v2, v)
  BY VotesGrow
<1>2. \A v : IsFiniteSet(Voters(v1, v)) /\ IsFiniteSet(Voters(v2, v))
  BY VotersFinite
<1>3. IsFiniteSet({p}) /\ IsFiniteSet({})
  BY FS_Singleton, FS_EmptySet
<1>4. IsFiniteSet(Yeas(v2, p, isBlind)) /\ IsFiniteSet(Nays(v2))
  <2>1. IsFiniteSet(IF isBlind THEN {} ELSE {p})
    BY <1>3
  <2> QED
    BY <2>1, <1>2, FS_Union DEF Yeas, Nays
<1>5. /\ Yeas(v1, p, isBlind) \subseteq Yeas(v2, p, isBlind)
      /\ Nays(v1) \subseteq Nays(v2)
  BY <1>1 DEF Yeas, Nays, Vote
<1> QED
  BY <1>4, <1>5, FS_Subset, FS_CardinalityType

\* A stored claim's row, read as the values the lemmas above speak of.
LEMMA RowValues ==
  ASSUME IInv, NEW c \in Claim, Stored(c)
  PROVE  /\ bb_claim[c] \in Row
         /\ bb_claim[c].k \in Nat
         /\ bb_claim[c].proposer \in Agent
         /\ bb_validator[c] \in SUBSET Agent
         /\ Fits(bb_claim[c].k, bb_claim[c].proposer, bb_validator[c], Blind(c))
         /\ BaseTally(c) = Base(bb_claim[c].k, Blind(c))
         /\ BaseTally(c) \in Tally
         /\ \A a \in Agent : bb_vote[c][a] # "none" => a \in bb_validator[c]
<1>1. bb_claim[c] \in Row /\ bb_validator[c] \in SUBSET Agent
  BY DEF IInv, TypeOK, Stored, NoRow
<1>2. bb_claim[c].k \in Nat /\ bb_claim[c].proposer \in Agent
  BY <1>1 DEF Row
<1>3. Blind(c) \in BOOLEAN
  BY DEF Blind
<1>4. Fits(bb_claim[c].k, bb_claim[c].proposer, bb_validator[c], Blind(c))
  BY <1>3 DEF IInv, RosterFits, Fits, Blind
<1>5. BaseTally(c) = Base(bb_claim[c].k, Blind(c))
  BY DEF BaseTally, Base
<1>6. BaseTally(c) \in Tally
  BY <1>2, BaseType DEF BaseTally
<1> QED
  BY <1>1, <1>2, <1>4, <1>5, <1>6 DEF IInv, VotesRostered

\* What every step keeps of the store: claims stay, with their k, proposer
\* and roster, and votes stay as they were cast.
Keeps ==
  /\ \A c \in Claim : Stored(c) =>
       /\ Stored(c)'
       /\ bb_claim'[c].proposer = bb_claim[c].proposer
       /\ bb_claim'[c].k = bb_claim[c].k
       /\ bb_validator'[c] = bb_validator[c]
  /\ \A c \in Claim : \A a \in Agent :
       bb_vote[c][a] # "none" => bb_vote'[c][a] = bb_vote[c][a]

\* What a step that keeps those keeps of the verdicts.
LEMMA KeepsVerdicts ==
  ASSUME IInv, Keeps, NEW c \in Claim, Stored(c)
  PROVE  /\ Blind(c)' = Blind(c)
         /\ BaseTally(c)' = BaseTally(c)
         /\ Approvals(c)' = Yeas(bb_vote'[c], bb_claim[c].proposer, Blind(c))
         /\ Approvals(c) = Yeas(bb_vote[c], bb_claim[c].proposer, Blind(c))
         /\ ReachedHasQuorum(c) => ReachedHasQuorum(c)'
         /\ UnreachableHasRefusals(c) => UnreachableHasRefusals(c)'
<1> DEFINE pr == bb_claim[c].proposer
<1>1. /\ bb_claim'[c].proposer = pr /\ bb_claim'[c].k = bb_claim[c].k
      /\ bb_validator'[c] = bb_validator[c]
  BY DEF Keeps
<1>2. Blind(c)' = Blind(c)
  BY <1>1 DEF Blind
<1>3. BaseTally(c)' = BaseTally(c)
  BY <1>1, <1>2 DEF BaseTally
<1>4. Approvals(c)' = Yeas(bb_vote'[c], pr, Blind(c))
  BY <1>1, <1>2 DEF Approvals, Yeas
<1>5. Approvals(c) = Yeas(bb_vote[c], pr, Blind(c))
  BY DEF Approvals, Yeas
<1>6. /\ Cardinality(Yeas(bb_vote[c], pr, Blind(c)))
           <= Cardinality(Yeas(bb_vote'[c], pr, Blind(c)))
      /\ Cardinality(Nays(bb_vote[c])) <= Cardinality(Nays(bb_vote'[c]))
      /\ Cardinality(Yeas(bb_vote[c], pr, Blind(c))) \in Nat
      /\ Cardinality(Yeas(bb_vote'[c], pr, Blind(c))) \in Nat
      /\ Cardinality(Nays(bb_vote[c])) \in Nat
      /\ Cardinality(Nays(bb_vote'[c])) \in Nat
  <2>1. \A a \in Agent : bb_vote[c][a] # "none" => bb_vote'[c][a] = bb_vote[c][a]
    BY DEF Keeps
  <2> QED
    BY <2>1, VerdictVotesGrow
<1>7. bb_claim[c].k \in Nat /\ quorum(bb_claim[c].k) \in Nat
  BY RowValues, QuorumType
<1>8. ReachedHasQuorum(c) => ReachedHasQuorum(c)'
  BY <1>1, <1>4, <1>5, <1>6, <1>7 DEF ReachedHasQuorum
<1>9. UnreachableHasRefusals(c) => UnreachableHasRefusals(c)'
  BY <1>1, <1>6, <1>7 DEF UnreachableHasRefusals, Nays
<1> QED
  BY <1>2, <1>3, <1>4, <1>5, <1>8, <1>9

-----------------------------------------------------------------------------
(***************************************************************************)
(* One board's memory of one claim, and how it moves.                      *)
(***************************************************************************)
\* The part of the invariant that speaks of one board and one claim.
MemoryOK(b, c) == Held(b, c) =>
  /\ Stored(c)
  /\ \A a \in Agent : claims[b][c].slot[a] # "none" =>
                        claims[b][c].slot[a] = bb_vote[c][a]
  /\ claims[b][c].tally = Counted(BaseTally(c), claims[b][c].slot)
  /\ claims[b][c].status = "Reached" => ReachedHasQuorum(c)
  /\ claims[b][c].status = "Unreachable" => UnreachableHasRefusals(c)

\* The parts together are the invariant's memory half.
LEMMA MemoryParts ==
  IInv <=> /\ TypeOK /\ RosterFits /\ VotesRostered
           /\ \A c \in Claim :
                /\ bb_claim[c].status = "reached" => ReachedHasQuorum(c)
                /\ bb_claim[c].status = "unreachable" => UnreachableHasRefusals(c)
           /\ \A b \in Board, c \in Claim : MemoryOK(b, c)
<1>1. \A b \in Board, c \in Claim :
        claims[b][c].status \in {"Reached", "Unreachable"} => Held(b, c)
  BY DEF Held
<1> QED
  BY <1>1 DEF IInv, MemoryPartOfStore, VerdictsRestOnVotes, MemoryOK

\* The same of the next state.
LEMMA PartsNext ==
  ASSUME TypeOK', RosterFits', VotesRostered',
         \A c \in Claim :
           /\ bb_claim'[c].status = "reached" => ReachedHasQuorum(c)'
           /\ bb_claim'[c].status = "unreachable" => UnreachableHasRefusals(c)',
         \A b \in Board, c \in Claim : MemoryOK(b, c)'
  PROVE  IInv'
<1>1. \A b \in Board, c \in Claim :
        claims'[b][c].status \in {"Reached", "Unreachable"} => Held(b, c)'
  BY DEF Held
<1>2. MemoryPartOfStore'
  BY DEF MemoryPartOfStore, MemoryOK
<1>3. VerdictsRestOnVotes'
  BY <1>1 DEF VerdictsRestOnVotes, MemoryOK
<1> QED
  BY <1>2, <1>3 DEF IInv

\* Memory a step leaves alone, or clears, stays right.
LEMMA MemoryKept ==
  ASSUME IInv, Keeps, NEW b \in Board, NEW c \in Claim,
         claims'[b][c] \in {claims[b][c], NotHeld}
  PROVE  MemoryOK(b, c)'
<1>1. CASE claims'[b][c] = NotHeld
  BY <1>1 DEF MemoryOK, Held, NotHeld
<1>2. CASE claims'[b][c] = claims[b][c] /\ Held(b, c)
  <2>1. MemoryOK(b, c)
    BY MemoryParts
  <2>2. Stored(c)
    BY <2>1, <1>2 DEF MemoryOK
  <2>3. /\ BaseTally(c)' = BaseTally(c)
        /\ ReachedHasQuorum(c) => ReachedHasQuorum(c)'
        /\ UnreachableHasRefusals(c) => UnreachableHasRefusals(c)'
    BY <2>2, KeepsVerdicts
  <2>4. Stored(c)' /\ \A a \in Agent :
          bb_vote[c][a] # "none" => bb_vote'[c][a] = bb_vote[c][a]
    BY <2>2 DEF Keeps
  <2>5. \A a \in Agent : claims'[b][c].slot[a] # "none" =>
                           claims'[b][c].slot[a] = bb_vote'[c][a]
    BY <1>2, <2>1, <2>4 DEF MemoryOK
  <2>6. claims'[b][c].tally = Counted(BaseTally(c)', claims'[b][c].slot)
    BY <1>2, <2>1, <2>3 DEF MemoryOK
  <2>7. Counted(BaseTally(c)', claims'[b][c].slot)
          = Counted(BaseTally(c), claims[b][c].slot)'
    BY DEF Counted, Voters
  <2> QED
    BY <1>2, <2>1, <2>3, <2>4, <2>5, <2>6, <2>7 DEF MemoryOK
<1>3. CASE claims'[b][c] = claims[b][c] /\ ~Held(b, c)
  BY <1>3 DEF MemoryOK, Held
<1> QED
  BY <1>1, <1>2, <1>3

\* Remember touches one claim of one board, or empties that board.
LEMMA RememberFrame ==
  ASSUME TypeOK, NEW b \in Board, NEW c \in Claim, NEW state \in ClaimState,
         Remember(b, c, state)
  PROVE  /\ up' \in [Board -> BOOLEAN]
         /\ claims' \in [Board -> [Claim -> ClaimState \cup {NotHeld}]]
         /\ \A b2 \in Board, c2 \in Claim :
              \/ claims'[b2][c2] \in {claims[b2][c2], NotHeld}
              \/ b2 = b /\ c2 = c /\ claims'[b2][c2] = state
<1>1. CASE claims' = [claims EXCEPT ![b][c] = state] /\ up' = up
  BY <1>1 DEF TypeOK
<1>2. CASE /\ claims' = [claims EXCEPT ![b] = Empty]
           /\ up' = [up EXCEPT ![b] = FALSE]
  BY <1>2 DEF TypeOK, Empty
<1> QED
  BY <1>1, <1>2 DEF Remember

-----------------------------------------------------------------------------
(***************************************************************************)
(* One lemma per operation.                                                *)
(***************************************************************************)
\* An empty store and no board open.
LEMMA InitOK == Init => IInv
<1> SUFFICES ASSUME Init PROVE IInv
  OBVIOUS
<1>1. TypeOK
  BY DEF Init, TypeOK, Blank, Slot, Empty
<1>2. \A c \in Claim : ~Stored(c) /\ \A b \in Board : ~Held(b, c)
  BY DEF Init, Stored, Held, Empty, NoRow, NotHeld
<1>3. VotesRostered
  BY DEF VotesRostered, Init, Blank
<1> QED
  BY <1>1, <1>2, <1>3
  DEF IInv, RosterFits, MemoryPartOfStore, VerdictsRestOnVotes, Stored, Held

\* A step that leaves the tables alone keeps them.
LEMMA TablesKept ==
  ASSUME IInv, UNCHANGED tables
  PROVE  /\ Keeps /\ RosterFits' /\ VotesRostered'
         /\ \A c \in Claim :
              /\ Stored(c)' = Stored(c)
              /\ bb_claim'[c].status = "reached" => ReachedHasQuorum(c)'
              /\ bb_claim'[c].status = "unreachable" => UnreachableHasRefusals(c)'
<1>1. bb_claim' = bb_claim /\ bb_validator' = bb_validator /\ bb_vote' = bb_vote
  BY DEF tables
<1>2. Keeps
  BY <1>1 DEF Keeps, Stored
<1>3. RosterFits' /\ VotesRostered'
  BY <1>1 DEF IInv, RosterFits, VotesRostered, Stored, Blind
<1>4. \A c \in Claim :
        /\ Stored(c)' = Stored(c)
        /\ bb_claim'[c].status = "reached" => ReachedHasQuorum(c)'
        /\ bb_claim'[c].status = "unreachable" => UnreachableHasRefusals(c)'
  <2> SUFFICES ASSUME NEW c \in Claim
               PROVE  /\ Stored(c)' = Stored(c)
                      /\ bb_claim'[c].status = "reached" => ReachedHasQuorum(c)'
                      /\ bb_claim'[c].status = "unreachable" =>
                           UnreachableHasRefusals(c)'
    OBVIOUS
  <2>1. Stored(c)' = Stored(c)
    BY <1>1 DEF Stored
  <2>2. bb_claim[c].status \in {"reached", "unreachable"} => Stored(c)
    BY DEF Stored
  <2>3. /\ bb_claim[c].status = "reached" => ReachedHasQuorum(c)
        /\ bb_claim[c].status = "unreachable" => UnreachableHasRefusals(c)
    BY DEF IInv, VerdictsRestOnVotes
  <2> QED
    BY <1>1, <1>2, <2>1, <2>2, <2>3, KeepsVerdicts
<1> QED
  BY <1>2, <1>3, <1>4

\* A stored claim hydrates to a well-formed state.
LEMMA HydratedType ==
  ASSUME IInv, NEW c \in Claim, Stored(c)
  PROVE  Hydrated(c) \in ClaimState
<1> DEFINE t == Counted(BaseTally(c), bb_vote[c])
<1>1. t \in Tally
  BY RowValues, CountedType
<1>2. status(t) \in QuorumStatus
  BY DEF status, QuorumStatus
<1>3. bb_claim[c].status \in {"open", "reached", "unreachable"}
  BY RowValues DEF Row
<1>4. bb_vote[c] \in [Agent -> Slot]
  BY DEF IInv, TypeOK
<1> DEFINE st == CASE bb_claim[c].status = "open"        -> status(t)
                   [] bb_claim[c].status = "reached"     -> "Reached"
                   [] bb_claim[c].status = "unreachable" -> "Unreachable"
<1>5. st \in QuorumStatus
  <2> HIDE DEF t
  <2> QED
    BY <1>2, <1>3 DEF QuorumStatus
<1>6. Hydrated(c) = [tally |-> t, status |-> st, slot |-> bb_vote[c]]
  BY DEF Hydrated
<1> HIDE DEF t, st
<1> QED
  BY <1>1, <1>4, <1>5, <1>6 DEF ClaimState

\* open fills the memory from the store.
LEMMA OpenOK ==
  ASSUME IInv, NEW b \in Board, Open(b)
  PROVE  IInv'
<1>1. UNCHANGED tables /\ up' = [up EXCEPT ![b] = TRUE]
  BY DEF Open
<1>2. /\ Keeps /\ RosterFits' /\ VotesRostered'
      /\ \A c \in Claim :
           /\ Stored(c)' = Stored(c)
           /\ bb_claim'[c].status = "reached" => ReachedHasQuorum(c)'
           /\ bb_claim'[c].status = "unreachable" => UnreachableHasRefusals(c)'
  BY <1>1, TablesKept
<1>3. claims' = [claims EXCEPT ![b] =
        [c \in Claim |-> IF Stored(c) THEN Hydrated(c) ELSE NotHeld]]
  BY DEF Open
<1>4. TypeOK'
  <2>1. \A c \in Claim : Stored(c) => Hydrated(c) \in ClaimState
    BY HydratedType
  <2>2. claims' \in [Board -> [Claim -> ClaimState \cup {NotHeld}]]
    BY <1>3, <2>1 DEF IInv, TypeOK
  <2> QED
    BY <1>1, <2>2 DEF IInv, TypeOK, tables
<1>5. ASSUME NEW b2 \in Board, NEW c \in Claim
      PROVE  MemoryOK(b2, c)'
  <2>1. CASE b2 # b
    <3>1. claims'[b2][c] = claims[b2][c]
      BY <2>1, <1>3 DEF IInv, TypeOK
    <3> QED
      BY <3>1, <1>2, MemoryKept
  <2>2. CASE b2 = b /\ ~Stored(c)
    <3>1. claims'[b2][c] = NotHeld
      BY <2>2, <1>3 DEF IInv, TypeOK
    <3> QED
      BY <3>1, <1>2, MemoryKept
  <2>3. CASE b2 = b /\ Stored(c)
    <3> DEFINE t == Counted(BaseTally(c), bb_vote[c])
    <3>1. claims'[b2][c] = Hydrated(c)
      BY <2>3, <1>3 DEF IInv, TypeOK
    <3>2. /\ claims'[b2][c].slot = bb_vote[c]
          /\ claims'[b2][c].tally = t
          /\ claims'[b2][c].status = "Reached" =>
               bb_claim[c].status = "reached" \/ status(t) = "Reached"
          /\ claims'[b2][c].status = "Unreachable" =>
               bb_claim[c].status = "unreachable" \/ status(t) = "Unreachable"
      <4>1. bb_claim[c].status \in {"open", "reached", "unreachable"}
        BY <2>3, RowValues DEF Row
      <4> HIDE DEF t
      <4> QED
        BY <3>1, <4>1 DEF Hydrated, t
    <3>3. /\ status(t) = "Reached" => ReachedHasQuorum(c)
          /\ status(t) = "Unreachable" => UnreachableHasRefusals(c)
      <4>1. t = Counted(Base(bb_claim[c].k, Blind(c)), bb_vote[c])
        BY <2>3, RowValues
      <4>2. /\ status(t) = "Reached" =>
                 Cardinality(Yeas(bb_vote[c], bb_claim[c].proposer, Blind(c)))
                   >= quorum(bb_claim[c].k)
            /\ status(t) = "Unreachable" =>
                 Cardinality(Nays(bb_vote[c])) > bb_claim[c].k - quorum(bb_claim[c].k)
        BY <2>3, <4>1, RowValues, VerdictHasVotes
      <4>3. Approvals(c) = Yeas(bb_vote[c], bb_claim[c].proposer, Blind(c))
        BY DEF Approvals, Yeas
      <4> HIDE DEF t
      <4> QED
        BY <4>2, <4>3 DEF ReachedHasQuorum, UnreachableHasRefusals, Nays
    <3>4. /\ bb_claim[c].status = "reached" => ReachedHasQuorum(c)
          /\ bb_claim[c].status = "unreachable" => UnreachableHasRefusals(c)
      BY DEF IInv, VerdictsRestOnVotes
    <3>5. /\ BaseTally(c)' = BaseTally(c)
          /\ ReachedHasQuorum(c) => ReachedHasQuorum(c)'
          /\ UnreachableHasRefusals(c) => UnreachableHasRefusals(c)'
      BY <2>3, <1>2, KeepsVerdicts
    <3>6. bb_vote' = bb_vote /\ Stored(c)'
      BY <1>1, <1>2, <2>3 DEF tables
    <3>7. claims'[b2][c].tally = Counted(BaseTally(c)', claims'[b2][c].slot)
      BY <3>2, <3>5
    <3>8. Counted(BaseTally(c)', claims'[b2][c].slot)
            = Counted(BaseTally(c), claims[b2][c].slot)'
      BY DEF Counted, Voters
    <3> HIDE DEF t
    <3> QED
      BY <3>2, <3>3, <3>4, <3>5, <3>6, <3>7, <3>8 DEF MemoryOK
  <2> QED
    BY <2>1, <2>2, <2>3
<1> QED
  BY <1>2, <1>4, <1>5, PartsNext

\* A board that goes away takes its memory along.
LEMMA CrashOK ==
  ASSUME IInv, NEW b \in Board, Crash(b)
  PROVE  IInv'
<1>1. /\ UNCHANGED tables /\ up' = [up EXCEPT ![b] = FALSE]
      /\ claims' = [claims EXCEPT ![b] = Empty]
  BY DEF Crash
<1>2. /\ Keeps /\ RosterFits' /\ VotesRostered'
      /\ \A c \in Claim :
           /\ bb_claim'[c].status = "reached" => ReachedHasQuorum(c)'
           /\ bb_claim'[c].status = "unreachable" => UnreachableHasRefusals(c)'
  BY <1>1, TablesKept
<1>3. TypeOK'
  BY <1>1 DEF IInv, TypeOK, tables, Empty
<1>4. \A b2 \in Board, c \in Claim : claims'[b2][c] \in {claims[b2][c], NotHeld}
  BY <1>1 DEF IInv, TypeOK, Empty
<1>5. \A b2 \in Board, c \in Claim : MemoryOK(b2, c)'
  BY <1>2, <1>4, MemoryKept
<1> QED
  BY <1>2, <1>3, <1>5, PartsNext

\* Both ways of publishing: a claim with a roster that fits it, and a memory
\* of it that has its base tally and no votes.
LEMMA PublishOK ==
  ASSUME IInv, NEW b \in Board, NEW c \in Claim, NEW turn \in TurnId,
         NEW p \in Agent, NEW n \in Nat, NEW roster \in SUBSET Agent,
         NEW isBlind, Fits(n, p, roster, isBlind),
         insert_claim(c, turn, p, n, roster),
         Remember(b, c, Fresh(Base(n, isBlind)))
  PROVE  IInv'
<1> DEFINE row == [turn |-> turn, proposer |-> p, k |-> n, status |-> "open"]
<1>1. /\ ~Stored(c)
      /\ bb_claim' = [bb_claim EXCEPT ![c] = row]
      /\ bb_validator' = [bb_validator EXCEPT ![c] = roster]
      /\ bb_vote' = bb_vote
  BY DEF insert_claim
<1>2. /\ bb_claim'[c] = row /\ bb_validator'[c] = roster
      /\ \A c2 \in Claim \ {c} :
           bb_claim'[c2] = bb_claim[c2] /\ bb_validator'[c2] = bb_validator[c2]
  BY <1>1 DEF IInv, TypeOK
<1>3. row \in Row
  BY DEF Row
<1>4. Keeps
  BY <1>1, <1>2 DEF Keeps, Stored
<1>5. Stored(c)' /\ \A a \in Agent : bb_vote'[c][a] = "none"
  BY <1>1, <1>2 DEF Stored, IInv, VotesRostered
<1>6. Blind(c)' = isBlind
  BY <1>2 DEF Blind, Fits
<1>7. Base(n, isBlind) \in Tally
  BY BaseType DEF Base
<1>8. Fresh(Base(n, isBlind)) \in ClaimState
  BY <1>7 DEF Fresh, ClaimState, QuorumStatus, Blank, Slot
<1>9. /\ up' \in [Board -> BOOLEAN]
      /\ claims' \in [Board -> [Claim -> ClaimState \cup {NotHeld}]]
      /\ \A b2 \in Board, c2 \in Claim :
           \/ claims'[b2][c2] \in {claims[b2][c2], NotHeld}
           \/ b2 = b /\ c2 = c /\ claims'[b2][c2] = Fresh(Base(n, isBlind))
  <2>1. TypeOK
    BY DEF IInv
  <2> QED
    BY <2>1, <1>8, RememberFrame
<1>10. TypeOK'
  <2>1. /\ bb_claim' \in [Claim -> Row \cup {NoRow}]
        /\ bb_validator' \in [Claim -> SUBSET Agent]
        /\ bb_vote' \in [Claim -> [Agent -> Slot]]
    BY <1>1, <1>3 DEF IInv, TypeOK
  <2> QED
    BY <2>1, <1>9 DEF TypeOK
<1>11. RosterFits'
  <2>1. /\ bb_claim'[c].proposer \notin bb_validator'[c]
        /\ bb_claim'[c].k = Cardinality(bb_validator'[c]) + 1
        \/ Blind(c)'
    BY <1>2, <1>6 DEF Fits
  <2>2. \A c2 \in Claim \ {c} :
          Stored(c2)' = Stored(c2) /\ Blind(c2)' = Blind(c2)
    BY <1>2 DEF Stored, Blind
  <2> QED
    BY <1>2, <2>1, <2>2 DEF RosterFits, IInv
<1>12. VotesRostered'
  BY <1>1, <1>2, <1>5 DEF VotesRostered, IInv, Stored
<1>13. ASSUME NEW c2 \in Claim
       PROVE  /\ bb_claim'[c2].status = "reached" => ReachedHasQuorum(c2)'
              /\ bb_claim'[c2].status = "unreachable" => UnreachableHasRefusals(c2)'
  <2>1. CASE c2 = c
    BY <2>1, <1>2
  <2>2. CASE c2 # c
    <3>1. bb_claim'[c2] = bb_claim[c2]
      BY <2>2, <1>2
    <3>2. bb_claim[c2].status \in {"reached", "unreachable"} => Stored(c2)
      BY DEF Stored
    <3>3. /\ bb_claim[c2].status = "reached" => ReachedHasQuorum(c2)
          /\ bb_claim[c2].status = "unreachable" => UnreachableHasRefusals(c2)
      BY DEF IInv, VerdictsRestOnVotes
    <3> QED
      BY <3>1, <3>2, <3>3, <1>4, KeepsVerdicts
  <2> QED
    BY <2>1, <2>2
<1>14. ASSUME NEW b2 \in Board, NEW c2 \in Claim
       PROVE  MemoryOK(b2, c2)'
  <2>1. CASE claims'[b2][c2] \in {claims[b2][c2], NotHeld}
    BY <2>1, <1>4, MemoryKept
  <2>2. CASE b2 = b /\ c2 = c /\ claims'[b2][c2] = Fresh(Base(n, isBlind))
    <3>1. /\ claims'[b][c].slot = Blank /\ claims'[b][c].status = "Open"
          /\ claims'[b][c].tally = Base(n, isBlind)
      BY <2>2 DEF Fresh
    <3>2. BaseTally(c)' = Base(n, isBlind)
      BY <1>2, <1>6 DEF BaseTally, Base
    <3>3. Counted(Base(n, isBlind), Blank) = Base(n, isBlind)
      BY <1>7, CountedBlank
    <3>4. Counted(BaseTally(c)', claims'[b][c].slot)
            = Counted(BaseTally(c), claims[b][c].slot)'
      BY DEF Counted, Voters
    <3>5. \A a \in Agent : claims'[b][c].slot[a] = "none"
      BY <3>1 DEF Blank
    <3>6. claims'[b][c].tally = Counted(BaseTally(c), claims[b][c].slot)'
      BY <3>1, <3>2, <3>3, <3>4
    <3> QED
      BY <2>2, <1>5, <3>1, <3>5, <3>6 DEF MemoryOK
  <2> QED
    BY <2>1, <2>2, <1>9
<1> QED
  BY <1>10, <1>11, <1>12, <1>13, <1>14, PartsNext

\* A vote: one row more, and a verdict, if it decides, that rests on it.
LEMMA VoteOK ==
  ASSUME IInv, NEW b \in Board, NEW c \in Claim, NEW voter \in Agent,
         NEW vote \in Vote, claims[b][c].status = "Open",
         record_vote(b, c, voter, vote)
  PROVE  IInv'
<1> DEFINE state   == claims[b][c]
           tally2  == record(state.tally, vote)
           outcome == status(tally2)
           slot2   == [state.slot EXCEPT ![voter] = vote]
           state2  == [tally |-> tally2, status |-> outcome, slot |-> slot2]
<1>1. /\ voter \in bb_validator[c] /\ state.slot[voter] = "none"
      /\ bb_vote[c][voter] = "none"
      /\ bb_vote' = [bb_vote EXCEPT ![c][voter] = vote]
      /\ \/ outcome = "Open" /\ bb_claim' = bb_claim
         \/ /\ outcome # "Open" /\ bb_claim[c].status = "open"
            /\ bb_claim' = [bb_claim EXCEPT ![c].status = status_text(outcome)]
      /\ Remember(b, c, state2)
      /\ bb_validator' = bb_validator
  BY DEF record_vote, insert_vote, update_status
<1>2. Held(b, c) /\ MemoryOK(b, c) /\ Stored(c)
  BY MemoryParts DEF Held, MemoryOK
<1>3. state \in ClaimState
  BY <1>2 DEF IInv, TypeOK, Held, NotHeld
<1>4. /\ state.tally \in Tally /\ state.slot \in [Agent -> Slot]
      /\ state.tally = Counted(BaseTally(c), state.slot)
      /\ \A a \in Agent : state.slot[a] # "none" => state.slot[a] = bb_vote[c][a]
  BY <1>2, <1>3 DEF ClaimState, MemoryOK
<1> HIDE DEF state
<1>5. tally2 = Counted(BaseTally(c), slot2) /\ tally2 \in Tally
  BY <1>1, <1>2, <1>4, RowValues, CountedRecord, RecordType
<1>6. outcome \in QuorumStatus
  BY DEF status, QuorumStatus
<1>7. slot2 \in [Agent -> Slot]
  BY <1>4 DEF Slot
<1>8. state2 \in ClaimState
  <2> HIDE DEF tally2, outcome, slot2
  <2> QED
    BY <1>5, <1>6, <1>7 DEF ClaimState
<1>9. /\ bb_vote'[c][voter] = vote
      /\ \A c2 \in Claim : \A a \in Agent :
           c2 # c \/ a # voter => bb_vote'[c2][a] = bb_vote[c2][a]
  BY <1>1 DEF IInv, TypeOK
<1>10. \A a \in Agent : slot2[a] # "none" => slot2[a] = bb_vote'[c][a]
  BY <1>4, <1>9
<1>11. \A a \in Agent : bb_vote'[c][a] # "none" => a \in bb_validator[c]
  BY <1>1, <1>9 DEF IInv, VotesRostered
<1> HIDE DEF tally2, outcome, slot2, state2
<1>12. /\ \A c2 \in Claim : c2 # c => bb_claim'[c2] = bb_claim[c2]
       /\ bb_claim'[c] \in Row
       /\ bb_claim'[c].proposer = bb_claim[c].proposer
       /\ bb_claim'[c].k = bb_claim[c].k
       /\ bb_claim'[c].status = "reached" =>
            bb_claim[c].status = "reached" \/ outcome = "Reached"
       /\ bb_claim'[c].status = "unreachable" =>
            bb_claim[c].status = "unreachable" \/ outcome = "Unreachable"
       /\ bb_claim' \in [Claim -> Row \cup {NoRow}]
  <2>1. bb_claim[c] \in Row /\ bb_claim \in [Claim -> Row \cup {NoRow}]
    BY <1>2, RowValues DEF IInv, TypeOK
  <2>2. CASE outcome = "Open" /\ bb_claim' = bb_claim
    BY <2>1, <2>2
  <2>3. CASE /\ outcome # "Open"
             /\ bb_claim' = [bb_claim EXCEPT ![c].status = status_text(outcome)]
    <3>1. /\ status_text(outcome) \in {"reached", "unreachable"}
          /\ status_text(outcome) = "reached" => outcome = "Reached"
          /\ status_text(outcome) = "unreachable" => outcome = "Unreachable"
      BY <2>3, <1>6 DEF status_text, QuorumStatus
    <3>2. /\ bb_claim'[c] = [bb_claim[c] EXCEPT !.status = status_text(outcome)]
          /\ \A c2 \in Claim : c2 # c => bb_claim'[c2] = bb_claim[c2]
          /\ bb_claim' = [bb_claim EXCEPT ![c] = bb_claim'[c]]
      BY <2>1, <2>3
    <3>3. bb_claim'[c] \in Row
      BY <2>1, <3>1, <3>2 DEF Row
    <3>4. bb_claim' \in [Claim -> Row \cup {NoRow}]
      BY <2>1, <3>2, <3>3
    <3> QED
      BY <2>1, <3>1, <3>2, <3>3, <3>4 DEF Row
  <2> QED
    BY <1>1, <2>2, <2>3
<1>13. \A c2 \in Claim : Stored(c2)' = Stored(c2)
  BY <1>2, <1>12 DEF Stored, Row
<1>14. Keeps
  <2>1. \A c2 \in Claim : Stored(c2) =>
          /\ Stored(c2)'
          /\ bb_claim'[c2].proposer = bb_claim[c2].proposer
          /\ bb_claim'[c2].k = bb_claim[c2].k
          /\ bb_validator'[c2] = bb_validator[c2]
    BY <1>1, <1>12, <1>13
  <2>2. \A c2 \in Claim : \A a \in Agent :
          bb_vote[c2][a] # "none" => bb_vote'[c2][a] = bb_vote[c2][a]
    BY <1>1, <1>9
  <2> QED
    BY <2>1, <2>2 DEF Keeps
<1>15. /\ up' \in [Board -> BOOLEAN]
       /\ claims' \in [Board -> [Claim -> ClaimState \cup {NotHeld}]]
       /\ \A b2 \in Board, c2 \in Claim :
            \/ claims'[b2][c2] \in {claims[b2][c2], NotHeld}
            \/ b2 = b /\ c2 = c /\ claims'[b2][c2] = state2
  <2>1. TypeOK
    BY DEF IInv
  <2> QED
    BY <2>1, <1>1, <1>8, RememberFrame
<1>16. TypeOK'
  <2>1. bb_vote' \in [Claim -> [Agent -> Slot]]
    BY <1>1 DEF IInv, TypeOK, Slot
  <2>2. bb_validator' \in [Claim -> SUBSET Agent]
    BY <1>1 DEF IInv, TypeOK
  <2> QED
    BY <1>12, <1>15, <2>1, <2>2 DEF TypeOK
<1>17. RosterFits'
  <2>1. \A c2 \in Claim : Stored(c2) => Blind(c2)' = Blind(c2)
    BY <1>14, KeepsVerdicts
  <2> QED
    BY <1>13, <1>14, <2>1 DEF RosterFits, IInv, Keeps
<1>18. VotesRostered'
  <2>1. \A c2 \in Claim : \A a \in Agent :
          bb_vote'[c2][a] # "none" => Stored(c2) /\ a \in bb_validator[c2]
    BY <1>2, <1>9, <1>11 DEF VotesRostered, IInv
  <2> QED
    BY <1>1, <1>13, <2>1 DEF VotesRostered
<1>19. /\ outcome = "Reached" => ReachedHasQuorum(c)'
       /\ outcome = "Unreachable" => UnreachableHasRefusals(c)'
  <2> DEFINE kk == bb_claim[c].k
             pr == bb_claim[c].proposer
  <2>1. tally2 = Counted(Base(kk, Blind(c)), slot2)
    BY <1>2, <1>5, RowValues
  <2>2. /\ status(tally2) = "Reached" =>
             Cardinality(Yeas(bb_vote'[c], pr, Blind(c))) >= quorum(kk)
        /\ status(tally2) = "Unreachable" =>
             Cardinality(Nays(bb_vote'[c])) > kk - quorum(kk)
    BY <1>2, <1>10, <1>11, <2>1, RowValues, VerdictHasVotes
  <2>3. Approvals(c)' = Yeas(bb_vote'[c], pr, Blind(c))
    BY <1>2, <1>14, KeepsVerdicts
  <2> QED
    BY <1>12, <2>2, <2>3
    DEF outcome, ReachedHasQuorum, UnreachableHasRefusals, Nays
<1>20. ASSUME NEW c2 \in Claim
       PROVE  /\ bb_claim'[c2].status = "reached" => ReachedHasQuorum(c2)'
              /\ bb_claim'[c2].status = "unreachable" => UnreachableHasRefusals(c2)'
  <2>1. bb_claim[c2].status \in {"reached", "unreachable"} => Stored(c2)
    BY DEF Stored
  <2>2. /\ bb_claim[c2].status = "reached" => ReachedHasQuorum(c2)
        /\ bb_claim[c2].status = "unreachable" => UnreachableHasRefusals(c2)
    BY DEF IInv, VerdictsRestOnVotes
  <2>3. /\ bb_claim[c2].status = "reached" => ReachedHasQuorum(c2)'
        /\ bb_claim[c2].status = "unreachable" => UnreachableHasRefusals(c2)'
    BY <2>1, <2>2, <1>14, KeepsVerdicts
  <2> QED
    BY <2>3, <1>12, <1>19
<1>21. ASSUME NEW b2 \in Board, NEW c2 \in Claim
       PROVE  MemoryOK(b2, c2)'
  <2>1. CASE claims'[b2][c2] \in {claims[b2][c2], NotHeld}
    BY <2>1, <1>14, MemoryKept
  <2>2. CASE b2 = b /\ c2 = c /\ claims'[b2][c2] = state2
    <3>1. /\ claims'[b][c].slot = slot2 /\ claims'[b][c].status = outcome
          /\ claims'[b][c].tally = tally2
      BY <2>2 DEF state2
    <3>2. BaseTally(c)' = BaseTally(c)
      BY <1>2, <1>14, KeepsVerdicts
    <3>3. Counted(BaseTally(c)', claims'[b][c].slot)
            = Counted(BaseTally(c), claims[b][c].slot)'
      BY DEF Counted, Voters
    <3>4. claims'[b][c].tally = Counted(BaseTally(c), claims[b][c].slot)'
      BY <3>1, <3>2, <3>3, <1>5
    <3>5. Stored(c)'
      BY <1>2, <1>13
    <3> QED
      BY <2>2, <3>1, <3>4, <3>5, <1>10, <1>19 DEF MemoryOK
  <2> QED
    BY <2>1, <2>2, <1>15
<1> QED
  BY <1>16, <1>17, <1>18, <1>20, <1>21, PartsNext

-----------------------------------------------------------------------------
(***************************************************************************)
(* The theorems.                                                           *)
(***************************************************************************)
\* Every step, of any board, keeps the invariant.
LEMMA StepOK == IInv /\ [Next]_vars => IInv'
<1> SUFFICES ASSUME IInv, [Next]_vars PROVE IInv'
  OBVIOUS
<1>1. CASE UNCHANGED vars
  <2>1. UNCHANGED tables /\ up' = up /\ claims' = claims
    BY <1>1 DEF vars, tables
  <2>2. /\ Keeps /\ RosterFits' /\ VotesRostered'
        /\ \A c \in Claim :
             /\ bb_claim'[c].status = "reached" => ReachedHasQuorum(c)'
             /\ bb_claim'[c].status = "unreachable" => UnreachableHasRefusals(c)'
    BY <2>1, TablesKept
  <2>3. TypeOK'
    BY <2>1 DEF IInv, TypeOK, tables
  <2>4. \A b \in Board, c \in Claim : MemoryOK(b, c)'
    BY <2>1, <2>2, MemoryKept
  <2> QED
    BY <2>2, <2>3, <2>4, PartsNext
<1>2. ASSUME NEW b \in Board, Open(b) PROVE IInv'
  BY <1>2, OpenOK
<1>3. ASSUME NEW b \in Board, Crash(b) PROVE IInv'
  BY <1>3, CrashOK
<1>4. ASSUME NEW b \in Board, NEW c \in Claim, NEW turn \in TurnId, NEW p \in Agent,
             NEW validators \in SUBSET Agent, publish(b, c, turn, p, validators)
      PROVE  IInv'
  <2> DEFINE n == Cardinality(validators) + 1
  <2>1. n \in Nat
    <3>1. IsFiniteSet(validators)
      BY AgentAssumption, FS_Subset
    <3>2. Cardinality(validators) \in Nat
      BY <3>1, FS_CardinalityType
    <3> QED
      BY <3>2
  <2>2. /\ p \notin validators /\ insert_claim(c, turn, p, n, validators)
        /\ Remember(b, c, Fresh(ordinary_tally(n)))
    BY <1>4 DEF publish
  <2>3. Fits(n, p, validators, FALSE) /\ Base(n, FALSE) = ordinary_tally(n)
    BY <2>2 DEF Fits, Base
  <2> HIDE DEF n
  <2> QED
    BY <2>1, <2>2, <2>3, PublishOK
<1>5. ASSUME NEW b \in Board, NEW c \in Claim, NEW turn \in TurnId, NEW p \in Agent,
             publish_blind(b, c, turn, p)
      PROVE  IInv'
  <2>1. /\ insert_claim(c, turn, p, 1, {p})
        /\ Remember(b, c, Fresh(NewTally(1)))
    BY <1>5 DEF publish_blind
  <2>2. Fits(1, p, {p}, TRUE) /\ Base(1, TRUE) = NewTally(1)
    BY DEF Fits, Base
  <2> QED
    BY <2>1, <2>2, PublishOK
<1>6. ASSUME NEW b \in Board, NEW c \in Claim, NEW voter \in Agent, NEW vote \in Vote,
             vote_ordinary(b, c, voter, vote) \/ vote_blind(b, c, voter, vote)
      PROVE  IInv'
  BY <1>6, VoteOK DEF vote_ordinary, vote_blind
<1> QED
  BY <1>1, <1>2, <1>3, <1>4, <1>5, <1>6 DEF Next, PublishAny, VoteAny

\* The invariant holds in every reachable state, for any boards, claims,
\* turns and agents.
THEOREM Invariance == Spec => []IInv
<1>1. Init => IInv
  BY InitOK
<1>2. IInv /\ [Next]_vars => IInv'
  BY StepOK
<1> QED
  BY <1>1, <1>2, PTL DEF Spec

\* Tables and memory always have their declared shape.
THEOREM TypeCorrect == Spec => []TypeOK
<1>1. IInv => TypeOK
  BY DEF IInv
<1> QED
  BY <1>1, Invariance, PTL

\* Whatever any board, or the store, says of a claim, the votes for it are
\* durable: `record_vote` is right to commit before it changes memory.
THEOREM VerdictsRest == Spec => []VerdictsRestOnVotes
<1>1. IInv => VerdictsRestOnVotes
  BY DEF IInv
<1> QED
  BY <1>1, Invariance, PTL

\* No two boards on one store, nor a board and the store, ever stand on
\* opposite verdicts of a claim, however stale each board's memory is.
THEOREM Agreement == Spec => []VerdictsAgree
<1>1. IInv => VerdictsAgree
  <2> SUFFICES ASSUME IInv, NEW c \in Claim, SaysReached(c), SaysUnreachable(c)
               PROVE  FALSE
    BY DEF VerdictsAgree
  <2>1. Stored(c)
    BY DEF IInv, MemoryPartOfStore, Stored, Held, SaysReached
  <2>2. ReachedHasQuorum(c) /\ UnreachableHasRefusals(c)
    BY DEF IInv, VerdictsRestOnVotes, SaysReached, SaysUnreachable
  <2> DEFINE kk == bb_claim[c].k
             yeas == Yeas(bb_vote[c], bb_claim[c].proposer, Blind(c))
             nays == Nays(bb_vote[c])
  <2>3. /\ IsFiniteSet(yeas) /\ IsFiniteSet(nays)
        /\ Cardinality(yeas) + Cardinality(nays) <= kk
    BY <2>1, RowValues, YeasAndNays
  <2>4. Cardinality(yeas) \in Nat /\ Cardinality(nays) \in Nat
    BY <2>3, FS_CardinalityType
  <2>5. kk \in Nat /\ quorum(kk) \in Nat
    BY <2>1, RowValues, QuorumType
  <2>6. Cardinality(yeas) >= quorum(kk)
    BY <2>2 DEF ReachedHasQuorum, Approvals, Yeas
  <2>7. Cardinality(nays) > kk - quorum(kk)
    BY <2>2 DEF UnreachableHasRefusals, Nays
  <2> HIDE DEF kk, yeas, nays
  <2> QED
    BY <2>3, <2>4, <2>5, <2>6, <2>7
<1> QED
  BY <1>1, Invariance, PTL

\* `open` never refuses a store that boards wrote: every vote is in its
\* claim's roster and every tally has room for the votes stored.
THEOREM Hydration == Spec => []HydrationSucceeds
<1>1. IInv => HydrationSucceeds
  <2> SUFFICES ASSUME IInv, NEW c \in Claim, Stored(c) PROVE ~Inconsistent(c)
    BY DEF HydrationSucceeds, Malformed
  <2> DEFINE kk == bb_claim[c].k
             t == Counted(BaseTally(c), bb_vote[c])
             n(v) == Cardinality(Voters(bb_vote[c], v))
  <2>1. /\ Cardinality(Yeas(bb_vote[c], bb_claim[c].proposer, Blind(c)))
             = n("yes") + (IF Blind(c) THEN 0 ELSE 1)
        /\ Cardinality(Nays(bb_vote[c])) = n("no") + n("abstain")
        /\ Cardinality(Yeas(bb_vote[c], bb_claim[c].proposer, Blind(c)))
             + Cardinality(Nays(bb_vote[c])) <= kk
    BY RowValues, YeasAndNays
  <2>2. n("yes") \in Nat /\ n("no") \in Nat /\ n("abstain") \in Nat /\ kk \in Nat
    BY VotersFinite, RowValues
  <2>3. t = [k |-> BaseTally(c).k, needed |-> BaseTally(c).needed,
             yes |-> BaseTally(c).yes + n("yes"), no |-> BaseTally(c).no + n("no"),
             abstain |-> BaseTally(c).abstain + n("abstain")]
    BY DEF Counted
  <2> HIDE DEF t, n
  <2>4. t.k = kk /\ t.yes + t.no + t.abstain
                      = n("yes") + (IF Blind(c) THEN 0 ELSE 1) + n("no") + n("abstain")
    <3>1. CASE Blind(c)
      BY <2>2, <2>3, <3>1 DEF BaseTally, NewTally
    <3>2. CASE ~Blind(c)
      BY <2>2, <2>3, <3>2 DEF BaseTally, NewTally, ordinary_tally, record, Counts
    <3> QED
      BY <3>1, <3>2
  <2>5. t.yes \in Nat /\ t.no \in Nat /\ t.abstain \in Nat
    BY RowValues, CountedType DEF Tally, t
  <2>6. pending(t) >= 0
    BY <2>1, <2>2, <2>4, <2>5 DEF pending
  <2>7. pending(t) \in Int
    BY <2>2, <2>4, <2>5 DEF pending
  <2> QED
    BY <2>6, <2>7, RowValues DEF Inconsistent, t
<1> QED
  BY <1>1, Invariance, PTL

\* No step of any board changes or removes a vote or a terminal status.
THEOREM Durability == Spec => DurableForever
<1>1. IInv /\ [Next]_vars =>
        [\A c \in Claim :
           /\ \A a \in Agent : bb_vote[c][a] # "none" => bb_vote'[c][a] = bb_vote[c][a]
           /\ Stored(c) /\ bb_claim[c].status # "open" =>
                bb_claim'[c] = bb_claim[c]]_vars
  <2> SUFFICES ASSUME IInv, [Next]_vars, NEW c \in Claim
               PROVE  /\ \A a \in Agent : bb_vote[c][a] # "none" =>
                                            bb_vote'[c][a] = bb_vote[c][a]
                      /\ Stored(c) /\ bb_claim[c].status # "open" =>
                           bb_claim'[c] = bb_claim[c]
    OBVIOUS
  <2>0. /\ bb_claim \in [Claim -> Row \cup {NoRow}]
        /\ bb_vote \in [Claim -> [Agent -> Slot]]
    BY DEF IInv, TypeOK
  <2>1. CASE UNCHANGED tables
    BY <2>1 DEF tables
  <2>2. ASSUME NEW c2 \in Claim, NEW turn, NEW p, NEW n, NEW roster,
               insert_claim(c2, turn, p, n, roster)
        PROVE  /\ bb_vote' = bb_vote
               /\ Stored(c) => bb_claim'[c] = bb_claim[c]
    BY <2>0, <2>2 DEF insert_claim
  <2>3. ASSUME NEW b \in Board, NEW c2 \in Claim, NEW voter \in Agent, NEW vote \in Vote,
               record_vote(b, c2, voter, vote)
        PROVE  /\ \A a \in Agent : bb_vote[c][a] # "none" =>
                                     bb_vote'[c][a] = bb_vote[c][a]
               /\ Stored(c) /\ bb_claim[c].status # "open" =>
                    bb_claim'[c] = bb_claim[c]
    BY <2>0, <2>3 DEF record_vote, insert_vote, update_status
  <2> QED
    BY <2>1, <2>2, <2>3
    DEF Next, PublishAny, VoteAny, Open, Crash, publish, publish_blind,
        vote_ordinary, vote_blind, vars, tables
<1> QED
  BY <1>1, Invariance, PTL DEF Spec, DurableForever
-----------------------------------------------------------------------------
(***************************************************************************)
(* Boards opened one after the other.  While at most one board is open, it *)
(* is in step with the store: it holds what is stored, with every vote,    *)
(* and a row that is still open is one whose votes decide nothing yet.     *)
(***************************************************************************)
OneAtATime == \A b1, b2 \in Board : up[b1] /\ up[b2] => b1 = b2

\* A board that is not open holds nothing, and an open one is in step.
InStep ==
  \A b \in Board, c \in Claim :
    /\ ~up[b] => ~Held(b, c)
    /\ up[b] => (Held(b, c) <=> Stored(c))
    /\ Held(b, c) => claims[b][c].slot = bb_vote[c]
    /\ Held(b, c) /\ bb_validator[c] # {} =>
         bb_claim[c].status = status_text(claims[b][c].status)

\* What the votes of a claim with a roster decide is in its row.
Settled(row, roster, votes, base) ==
  roster # {} /\ row = "open" => status(Counted(base, votes)) = "Open"

RowsSettled ==
  \A c \in Claim : Stored(c) =>
    Settled(bb_claim[c].status, bb_validator[c], bb_vote[c], BaseTally(c))

FiniteStore == IsFiniteSet({c \in Claim : Stored(c)})

SoloInv == InStep /\ RowsSettled

-----------------------------------------------------------------------------
\* A fresh claim with somebody to vote on it is open.
LEMMA FreshIsOpen ==
  ASSUME NEW k \in Nat, NEW p \in Agent, NEW roster \in SUBSET Agent, NEW isBlind,
         Fits(k, p, roster, isBlind), roster # {}
  PROVE  status(Base(k, isBlind)) = "Open"
<1>1. quorum(k) \in Nat /\ quorum(k) <= k
  BY QuorumType
<1>2. CASE isBlind
  <2>1. k = 1 /\ quorum(1) = 1
    BY <1>2 DEF Fits, quorum, DivCeil
  <2> QED
    BY <1>2, <2>1 DEF Base, NewTally, status, is_reached, is_unreachable, pending
<1>3. CASE ~isBlind
  <2>1. IsFiniteSet(roster) /\ Cardinality(roster) \in Nat
    BY AgentAssumption, FS_Subset, FS_CardinalityType
  <2>2. Cardinality(roster) # 0
    BY <2>1, FS_EmptySet
  <2>3. k = Cardinality(roster) + 1
    BY <1>3 DEF Fits
  <2>4. k >= 2
    BY <2>1, <2>2, <2>3
  <2>5. quorum(k) >= 2
    BY <2>4 DEF quorum, DivCeil
  <2>6. Base(k, isBlind) = [k |-> k, needed |-> quorum(k), yes |-> 1, no |-> 0, abstain |-> 0]
    BY <1>3 DEF Base, NewTally, ordinary_tally, record, Counts
  <2> QED
    BY <1>1, <2>4, <2>5, <2>6 DEF status, is_reached, is_unreachable, pending
<1> QED
  BY <1>2, <1>3 DEF Fits

\* When the whole roster has voted nothing is pending, and the claim is
\* decided one way or the other.
LEMMA FullIsDecided ==
  ASSUME NEW k \in Nat, NEW p \in Agent, NEW roster \in SUBSET Agent, NEW isBlind,
         Fits(k, p, roster, isBlind), NEW votes \in [Agent -> Slot],
         \A a \in Agent : votes[a] # "none" <=> a \in roster
  PROVE  status(Counted(Base(k, isBlind), votes)) # "Open"
<1> DEFINE Y == Voters(votes, "yes")
           N == Voters(votes, "no")
           A == Voters(votes, "abstain")
<1>1. /\ roster = Y \cup (N \cup A) /\ Y \cap (N \cup A) = {} /\ N \cap A = {}
  BY DEF Voters, Slot, Vote
<1>2. /\ IsFiniteSet(Y) /\ IsFiniteSet(N) /\ IsFiniteSet(A)
      /\ Cardinality(Y) \in Nat /\ Cardinality(N) \in Nat /\ Cardinality(A) \in Nat
  BY VotersFinite
<1> HIDE DEF Y, N, A
<1>3. IsFiniteSet(N \cup A) /\ Cardinality(N \cup A) = Cardinality(N) + Cardinality(A)
  <2>1. IsFiniteSet(N \cup A) /\ Cardinality(N \cup A) =
          Cardinality(N) + Cardinality(A) - Cardinality(N \cap A)
    BY <1>2, FS_Union
  <2>2. Cardinality(N \cap A) = 0
    BY <1>1, FS_EmptySet
  <2> QED BY <1>2, <2>1, <2>2
<1>4. Cardinality(roster) = Cardinality(Y) + Cardinality(N) + Cardinality(A)
  <2>1. Cardinality(Y \cup (N \cup A)) =
          Cardinality(Y) + Cardinality(N \cup A) - Cardinality(Y \cap (N \cup A))
    BY <1>2, <1>3, FS_Union
  <2>2. Cardinality(Y \cap (N \cup A)) = 0
    BY <1>1, FS_EmptySet
  <2> QED BY <1>1, <1>2, <1>3, <2>1, <2>2
<1> DEFINE y == Cardinality(Y)
           n == Cardinality(N)
           ab == Cardinality(A)
           own == IF isBlind THEN 0 ELSE 1
<1>5. Counted(Base(k, isBlind), votes) =
        [k |-> k, needed |-> quorum(k), yes |-> own + y, no |-> n, abstain |-> ab]
  <2>1. CASE isBlind
    BY <1>2, <2>1 DEF Counted, Base, NewTally, Y, N, A
  <2>2. CASE ~isBlind
    BY <1>2, <2>2 DEF Counted, Base, NewTally, ordinary_tally, record, Counts, Y, N, A
  <2> QED BY <2>1, <2>2
<1>6. k = own + y + n + ab
  <2>1. CASE isBlind
    <3>1. k = 1 /\ roster = {p}
      BY <2>1 DEF Fits
    <3>2. Cardinality(roster) = 1
      BY <3>1, FS_Singleton
    <3> QED BY <2>1, <3>1, <3>2, <1>2, <1>4
  <2>2. CASE ~isBlind
    <3>1. k = Cardinality(roster) + 1
      BY <2>2 DEF Fits
    <3> QED BY <2>2, <3>1, <1>2, <1>4
  <2> QED BY <2>1, <2>2
<1>7. y \in Nat /\ n \in Nat /\ ab \in Nat /\ own \in Nat /\ quorum(k) \in Nat
  BY <1>2, QuorumType
<1> HIDE DEF y, n, ab, own
<1>8. k - (own + y) - n - ab = 0
  BY <1>6, <1>7
<1> QED
  BY <1>5, <1>7, <1>8 DEF status, is_reached, is_unreachable, pending

-----------------------------------------------------------------------------
\* What a call that commits leaves in the memories when its board is the only
\* one open: its claim's state, or nothing if the process died.
LEMMA Remembered ==
  ASSUME TypeOK, OneAtATime, InStep, NEW b \in Board, NEW c \in Claim, up[b],
         NEW state, Remember(b, c, state)
  PROVE  \A b2 \in Board :
           \/ ~up'[b2] /\ \A c2 \in Claim : ~Held(b2, c2)'
           \/ /\ b2 = b /\ up[b2] /\ up'[b2]
              /\ \A c2 \in Claim : claims'[b2][c2] = IF c2 = c THEN state ELSE claims[b2][c2]
<1>1. up \in [Board -> BOOLEAN] /\ claims \in [Board -> [Claim -> ClaimState \cup {NotHeld}]]
  BY DEF TypeOK
<1> TAKE b2 \in Board
<1>2. CASE b2 # b
  <2>1. ~up[b2] /\ \A c2 \in Claim : ~Held(b2, c2)
    BY <1>2 DEF OneAtATime, InStep
  <2>2. up'[b2] = up[b2] /\ claims'[b2] = claims[b2]
    BY <1>1, <1>2 DEF Remember
  <2> QED BY <2>1, <2>2 DEF Held
<1>3. CASE b2 = b /\ claims' = [claims EXCEPT ![b][c] = state] /\ up' = up
  BY <1>1, <1>3
<1>4. CASE b2 = b /\ claims' = [claims EXCEPT ![b] = Empty] /\ up' = [up EXCEPT ![b] = FALSE]
  BY <1>1, <1>4 DEF Held, Empty, NotHeld
<1> QED
  BY <1>2, <1>3, <1>4 DEF Remember

\* Publishing keeps the open board in step.
LEMMA PublishInStep ==
  ASSUME IInv, SoloInv, OneAtATime, NEW b \in Board, NEW c \in Claim, NEW turn,
         NEW p \in Agent, NEW n \in Nat, NEW roster \in SUBSET Agent, up[b],
         NEW isBlind, Fits(n, p, roster, isBlind),
         insert_claim(c, turn, p, n, roster), Remember(b, c, Fresh(Base(n, isBlind)))
  PROVE  SoloInv'
<1>0. /\ TypeOK /\ InStep /\ RowsSettled
  BY DEF IInv, SoloInv
<1>1. /\ ~Stored(c) /\ bb_vote' = bb_vote
      /\ bb_claim'[c] = [turn |-> turn, proposer |-> p, k |-> n, status |-> "open"]
      /\ bb_validator'[c] = roster
      /\ \A c2 \in Claim \ {c} :
           bb_claim'[c2] = bb_claim[c2] /\ bb_validator'[c2] = bb_validator[c2]
  BY <1>0 DEF insert_claim, TypeOK
<1>2. bb_vote[c] = Blank
  <2>1. bb_vote[c] \in [Agent -> Slot] /\ \A a \in Agent : bb_vote[c][a] = "none"
    BY <1>0, <1>1 DEF TypeOK, IInv, VotesRostered
  <2> QED BY <2>1 DEF Blank
<1>3. /\ Stored(c)' /\ bb_claim'[c].status = "open"
      /\ \A c2 \in Claim \ {c} : Stored(c2)' = Stored(c2) /\ BaseTally(c2)' = BaseTally(c2)
  BY <1>1 DEF Stored, BaseTally, Blind
<1>4. \A b2 \in Board :
        \/ ~up'[b2] /\ \A c2 \in Claim : ~Held(b2, c2)'
        \/ /\ b2 = b /\ up[b2] /\ up'[b2]
           /\ \A c2 \in Claim : claims'[b2][c2] =
                IF c2 = c THEN Fresh(Base(n, isBlind)) ELSE claims[b2][c2]
  BY <1>0, Remembered
<1>5. InStep'
  <2> SUFFICES ASSUME NEW b2 \in Board, NEW c2 \in Claim
               PROVE  /\ ~up'[b2] => ~Held(b2, c2)'
                      /\ up'[b2] => (Held(b2, c2)' <=> Stored(c2)')
                      /\ Held(b2, c2)' => claims'[b2][c2].slot = bb_vote'[c2]
                      /\ Held(b2, c2)' /\ bb_validator'[c2] # {} =>
                           bb_claim'[c2].status = status_text(claims'[b2][c2].status)
    BY DEF InStep
  <2>1. CASE ~up'[b2] /\ ~Held(b2, c2)'
    BY <2>1
  <2>2. CASE c2 = c /\ claims'[b2][c2] = Fresh(Base(n, isBlind)) /\ up'[b2]
    <3>1. claims'[b2][c2].slot = Blank /\ claims'[b2][c2].status = "Open"
      BY <2>2 DEF Fresh
    <3> QED BY <2>2, <3>1, <1>1, <1>2, <1>3 DEF Held, status_text
  <2>3. CASE c2 # c /\ b2 = b /\ up[b2] /\ up'[b2] /\ claims'[b2][c2] = claims[b2][c2]
    <3>1. Held(b2, c2)' = Held(b2, c2)
      BY <2>3 DEF Held
    <3> QED BY <2>3, <3>1, <1>0, <1>1, <1>3 DEF InStep
  <2> QED BY <1>4, <2>1, <2>2, <2>3
<1>6. RowsSettled'
  <2> SUFFICES ASSUME NEW c2 \in Claim, Stored(c2)'
               PROVE  Settled(bb_claim'[c2].status, bb_validator'[c2], bb_vote'[c2], BaseTally(c2)')
    BY DEF RowsSettled, Settled, Counted, Voters
  <2>1. CASE c2 = c
    <3>1. Blind(c)' = isBlind
      BY <1>1 DEF Blind, Fits
    <3>2. BaseTally(c)' = Base(n, isBlind)
      BY <1>1, <3>1 DEF BaseTally, Base
    <3>3. Counted(Base(n, isBlind), Blank) = Base(n, isBlind)
      BY BaseType, CountedBlank DEF Base
    <3>4. roster # {} => status(Base(n, isBlind)) = "Open"
      BY FreshIsOpen
    <3> QED BY <2>1, <3>2, <3>3, <3>4, <1>1, <1>2 DEF Settled
  <2>2. CASE c2 # c
    BY <2>2, <1>0, <1>1, <1>3 DEF RowsSettled
  <2> QED BY <2>1, <2>2
<1> QED BY <1>5, <1>6 DEF SoloInv

\* A vote keeps the open board in step, and settles the row if it decides.
LEMMA VoteInStep ==
  ASSUME IInv, SoloInv, OneAtATime, NEW b \in Board, NEW c \in Claim,
         NEW voter \in Agent, NEW vote \in Vote, claims[b][c].status = "Open",
         record_vote(b, c, voter, vote)
  PROVE  SoloInv'
<1> DEFINE state   == claims[b][c]
           tally2  == record(state.tally, vote)
           outcome == status(tally2)
           slot2   == [state.slot EXCEPT ![voter] = vote]
           state2  == [tally |-> tally2, status |-> outcome, slot |-> slot2]
<1>0. TypeOK /\ InStep /\ RowsSettled
  BY DEF IInv, SoloInv
<1>1. /\ voter \in bb_validator[c] /\ bb_vote[c][voter] = "none"
      /\ bb_vote' = [bb_vote EXCEPT ![c][voter] = vote]
      /\ \/ outcome = "Open" /\ bb_claim' = bb_claim
         \/ /\ outcome # "Open"
            /\ bb_claim' = [bb_claim EXCEPT ![c].status = status_text(outcome)]
      /\ Remember(b, c, state2)
      /\ bb_validator' = bb_validator
  BY DEF record_vote, insert_vote, update_status
<1>2. Held(b, c)
  BY DEF Held
<1>3. up[b] /\ Stored(c) /\ state.slot = bb_vote[c] /\ bb_claim[c].status = "open"
  <2>1. up[b]
    BY <1>0, <1>2 DEF InStep
  <2> QED BY <1>0, <1>1, <1>2, <2>1 DEF InStep, status_text
<1>4. state.tally = Counted(BaseTally(c), bb_vote[c])
  BY <1>2, <1>3 DEF IInv, MemoryPartOfStore
<1>5. BaseTally(c) \in Tally /\ bb_claim[c] \in Row
  BY <1>3, RowValues
<1>6. /\ bb_vote[c] \in [Agent -> Slot] /\ bb_vote \in [Claim -> [Agent -> Slot]]
      /\ bb_claim \in [Claim -> Row \cup {NoRow}]
  BY <1>0 DEF TypeOK
<1>7. /\ bb_vote'[c] = slot2
      /\ \A c2 \in Claim \ {c} : bb_vote'[c2] = bb_vote[c2] /\ bb_claim'[c2] = bb_claim[c2]
  BY <1>1, <1>3, <1>6
<1>8. tally2 = Counted(BaseTally(c), slot2)
  <2> DEFINE votes == bb_vote[c]
             base == BaseTally(c)
  <2>1. Counted(base, [votes EXCEPT ![voter] = vote]) = record(Counted(base, votes), vote)
    <3>1. votes \in [Agent -> Slot] /\ votes[voter] = "none" /\ base \in Tally
      BY <1>1, <1>5, <1>6
    <3> HIDE DEF votes, base
    <3> QED BY <3>1, CountedRecord
  <2> QED BY <1>3, <1>4, <2>1
<1>9. outcome \in QuorumStatus /\ outcome # "absent"
  BY DEF status, QuorumStatus
<1> HIDE DEF outcome, slot2, tally2, state
<1>10. /\ bb_claim'[c].status = status_text(outcome)
       /\ bb_claim'[c].k = bb_claim[c].k
       /\ bb_claim'[c].proposer = bb_claim[c].proposer
  <2>1. CASE outcome = "Open" /\ bb_claim' = bb_claim
    BY <2>1, <1>3 DEF status_text
  <2>2. CASE bb_claim' = [bb_claim EXCEPT ![c].status = status_text(outcome)]
    <3>1. bb_claim'[c] = [bb_claim[c] EXCEPT !.status = status_text(outcome)]
      BY <2>2, <1>6
    <3> QED BY <3>1, <1>5 DEF Row
  <2> QED BY <1>1, <2>1, <2>2
<1>11. \A c2 \in Claim : Stored(c2)' = Stored(c2) /\ BaseTally(c2)' = BaseTally(c2)
  <2>1. \A c2 \in Claim \ {c} : Stored(c2)' = Stored(c2) /\ BaseTally(c2)' = BaseTally(c2)
    BY <1>1, <1>7 DEF Stored, BaseTally, Blind
  <2>2. Stored(c)'
    BY <1>9, <1>10 DEF Stored, status_text, QuorumStatus
  <2>3. BaseTally(c)' = BaseTally(c)
    BY <1>1, <1>10 DEF BaseTally, Blind
  <2>4. Stored(c)' = Stored(c)
    BY <1>3, <2>2 DEF Stored
  <2> QED BY <2>1, <2>3, <2>4
<1>12. \A b2 \in Board :
         \/ ~up'[b2] /\ \A c2 \in Claim : ~Held(b2, c2)'
         \/ /\ b2 = b /\ up[b2] /\ up'[b2]
            /\ \A c2 \in Claim : claims'[b2][c2] = IF c2 = c THEN state2 ELSE claims[b2][c2]
  <2> HIDE DEF state2
  <2> QED BY <1>0, <1>1, <1>3, Remembered
<1>13. InStep'
  <2> SUFFICES ASSUME NEW b2 \in Board, NEW c2 \in Claim
               PROVE  /\ ~up'[b2] => ~Held(b2, c2)'
                      /\ up'[b2] => (Held(b2, c2)' <=> Stored(c2)')
                      /\ Held(b2, c2)' => claims'[b2][c2].slot = bb_vote'[c2]
                      /\ Held(b2, c2)' /\ bb_validator'[c2] # {} =>
                           bb_claim'[c2].status = status_text(claims'[b2][c2].status)
    BY DEF InStep
  <2>1. CASE ~up'[b2] /\ ~Held(b2, c2)'
    BY <2>1
  <2>2. CASE c2 = c /\ claims'[b2][c2] = state2 /\ up'[b2]
    BY <2>2, <1>3, <1>7, <1>9, <1>10, <1>11 DEF Held
  <2>3. CASE c2 # c /\ b2 = b /\ up[b2] /\ up'[b2] /\ claims'[b2][c2] = claims[b2][c2]
    <3>1. Held(b2, c2)' = Held(b2, c2)
      BY <2>3 DEF Held
    <3> QED BY <2>3, <3>1, <1>0, <1>1, <1>7, <1>11 DEF InStep
  <2> HIDE DEF state2
  <2> QED BY <1>12, <2>1, <2>2, <2>3
<1>14. RowsSettled'
  <2> SUFFICES ASSUME NEW c2 \in Claim, Stored(c2)'
               PROVE  Settled(bb_claim'[c2].status, bb_validator'[c2], bb_vote'[c2], BaseTally(c2)')
    BY DEF RowsSettled, Settled, Counted, Voters
  <2>1. CASE c2 = c
    BY <2>1, <1>7, <1>8, <1>9, <1>10, <1>11 DEF Settled, outcome, status_text, QuorumStatus
  <2>2. CASE c2 # c
    BY <2>2, <1>0, <1>1, <1>7, <1>11 DEF RowsSettled
  <2> QED BY <2>1, <2>2
<1> QED BY <1>13, <1>14 DEF SoloInv

\* A board that opens alone holds the store; one that dies holds nothing.
LEMMA OpenInStep ==
  ASSUME IInv, SoloInv, OneAtATime', NEW b \in Board, Open(b) \/ Crash(b)
  PROVE  SoloInv'
<1>0. TypeOK /\ InStep /\ RowsSettled
  BY DEF IInv, SoloInv
<1>1. bb_claim' = bb_claim /\ bb_validator' = bb_validator /\ bb_vote' = bb_vote
  BY DEF Open, Crash, tables
<1>2. RowsSettled'
  BY <1>0, <1>1 DEF RowsSettled, Settled, Stored, BaseTally, Blind, Counted, Voters
<1>3. \A b2 \in Board \ {b} : up'[b2] = up[b2] /\ claims'[b2] = claims[b2]
  BY <1>0 DEF Open, Crash, TypeOK
<1>4. ASSUME NEW b2 \in Board, NEW c2 \in Claim
      PROVE  /\ ~up'[b2] => ~Held(b2, c2)'
             /\ up'[b2] => (Held(b2, c2)' <=> Stored(c2)')
             /\ Held(b2, c2)' => claims'[b2][c2].slot = bb_vote'[c2]
             /\ Held(b2, c2)' /\ bb_validator'[c2] # {} =>
                  bb_claim'[c2].status = status_text(claims'[b2][c2].status)
  <2>1. CASE b2 # b
    <3>1. up'[b2] = up[b2] /\ claims'[b2] = claims[b2]
      BY <1>3, <2>1
    <3>2. Held(b2, c2)' = Held(b2, c2) /\ Stored(c2)' = Stored(c2)
      BY <3>1, <1>1 DEF Held, Stored
    <3> QED BY <3>1, <3>2, <1>0, <1>1 DEF InStep
  <2>2. CASE b2 = b /\ Crash(b)
    BY <2>2, <1>0 DEF Crash, Held, Empty, NotHeld, TypeOK
  <2>3. CASE b2 = b /\ Open(b)
    <3>1. up'[b] /\ claims'[b][c2] = IF Stored(c2) THEN Hydrated(c2) ELSE NotHeld
      BY <2>3, <1>0 DEF Open, TypeOK
    <3>2. CASE ~Stored(c2)
      BY <2>3, <3>1, <3>2, <1>1 DEF Held, NotHeld, Stored
    <3>3. CASE Stored(c2)
      <4>1. claims'[b][c2] = Hydrated(c2) /\ Stored(c2)'
        BY <3>1, <3>3, <1>1 DEF Stored
      <4>2. bb_claim[c2].status \in {"open", "reached", "unreachable"}
        BY <3>3, RowValues DEF Row
      <4> DEFINE t == Counted(BaseTally(c2), bb_vote[c2])
      <4>3. bb_claim[c2].status = "open" /\ bb_validator[c2] # {} => status(t) = "Open"
        BY <1>0, <3>3 DEF RowsSettled, Settled
      <4>4. status(t) \in QuorumStatus
        BY DEF status, QuorumStatus
      <4> HIDE DEF t
      <4>5. /\ Hydrated(c2).slot = bb_vote[c2]
            /\ Hydrated(c2).status = CASE bb_claim[c2].status = "open" -> status(t)
                 [] bb_claim[c2].status = "reached"     -> "Reached"
                 [] bb_claim[c2].status = "unreachable" -> "Unreachable"
        BY DEF Hydrated, t
      <4>6. /\ Hydrated(c2).status # "absent"
            /\ bb_validator[c2] # {} => bb_claim[c2].status = status_text(Hydrated(c2).status)
        BY <4>2, <4>3, <4>4, <4>5 DEF status_text, QuorumStatus
      <4> QED BY <2>3, <3>1, <4>1, <4>5, <4>6, <1>1 DEF Held
    <3> QED BY <3>2, <3>3
  <2> QED BY <2>1, <2>2, <2>3
<1>5. InStep'
  BY <1>4 DEF InStep
<1> QED BY <1>2, <1>5 DEF SoloInv

\* While at most one board is open, every step keeps it in step.
LEMMA SoloStep ==
  IInv /\ SoloInv /\ OneAtATime /\ OneAtATime' /\ [Next]_vars => SoloInv'
<1> SUFFICES ASSUME IInv, SoloInv, OneAtATime, OneAtATime', [Next]_vars PROVE SoloInv'
  OBVIOUS
<1>1. CASE UNCHANGED vars
  <2>1. UNCHANGED tables /\ up' = up /\ claims' = claims
    BY <1>1 DEF vars, tables
  <2>2. InStep'
    BY <2>1 DEF SoloInv, InStep, Held, Stored, tables
  <2>3. RowsSettled'
    BY <2>1 DEF SoloInv, RowsSettled, Settled, Stored, BaseTally, Blind, Counted, Voters, tables
  <2> QED BY <2>2, <2>3 DEF SoloInv
<1>2. ASSUME NEW b \in Board, Open(b) \/ Crash(b) PROVE SoloInv'
  BY <1>2, OpenInStep
<1>3. ASSUME NEW b \in Board, NEW c \in Claim, NEW turn \in TurnId, NEW p \in Agent,
             NEW validators \in SUBSET Agent, publish(b, c, turn, p, validators)
      PROVE  SoloInv'
  <2> DEFINE n == Cardinality(validators) + 1
  <2>1. n \in Nat
    <3>1. IsFiniteSet(validators)
      BY AgentAssumption, FS_Subset
    <3>2. Cardinality(validators) \in Nat
      BY <3>1, FS_CardinalityType
    <3> QED BY <3>2
  <2>2. /\ p \notin validators /\ insert_claim(c, turn, p, n, validators) /\ up[b]
        /\ Remember(b, c, Fresh(ordinary_tally(n)))
    BY <1>3 DEF publish
  <2>3. Fits(n, p, validators, FALSE) /\ Base(n, FALSE) = ordinary_tally(n)
    BY <2>2 DEF Fits, Base
  <2> HIDE DEF n
  <2> QED BY <2>1, <2>2, <2>3, PublishInStep
<1>4. ASSUME NEW b \in Board, NEW c \in Claim, NEW turn \in TurnId, NEW p \in Agent,
             publish_blind(b, c, turn, p)
      PROVE  SoloInv'
  <2>1. /\ insert_claim(c, turn, p, 1, {p}) /\ up[b]
        /\ Remember(b, c, Fresh(NewTally(1)))
    BY <1>4 DEF publish_blind
  <2>2. Fits(1, p, {p}, TRUE) /\ Base(1, TRUE) = NewTally(1)
    BY DEF Fits, Base
  <2> QED BY <2>1, <2>2, PublishInStep
<1>5. ASSUME NEW b \in Board, NEW c \in Claim, NEW voter \in Agent, NEW vote \in Vote,
             vote_ordinary(b, c, voter, vote) \/ vote_blind(b, c, voter, vote)
      PROVE  SoloInv'
  BY <1>5, VoteInStep DEF vote_ordinary, vote_blind
<1> QED
  BY <1>1, <1>2, <1>3, <1>4, <1>5 DEF Next, PublishAny, VoteAny

\* An empty store and closed boards are in step.
LEMMA SoloInit == Init => SoloInv
<1> SUFFICES ASSUME Init PROVE SoloInv
  OBVIOUS
<1>1. \A c \in Claim : ~Stored(c) /\ \A b \in Board : ~Held(b, c) /\ ~up[b]
  BY DEF Init, Stored, Held, NoRow, Empty, NotHeld
<1> QED BY <1>1 DEF SoloInv, InStep, RowsSettled

\* Boards opened one after the other on one store, in any number, are each in
\* step with it.
THEOREM BoardsInStep == Spec /\ []OneAtATime => []SoloInv
<1>1. Init => SoloInv
  BY SoloInit
<1>2. IInv /\ SoloInv /\ OneAtATime /\ OneAtATime' /\ [Next]_vars => SoloInv'
  BY SoloStep
<1> QED
  BY <1>1, <1>2, Invariance, PTL DEF Spec

\* A restart is transparent: hydrating the store at any time gives the open
\* board's memory, tally and status included (`open`, `record_vote`).
THEOREM RestartIsTransparent == Spec /\ []OneAtATime => []RestartTransparent
<1>1. IInv /\ SoloInv => RestartTransparent
  <2> SUFFICES ASSUME IInv, SoloInv, NEW b \in Board, NEW c \in Claim,
                      up[b], Stored(c), bb_validator[c] # {}
               PROVE  claims[b][c] = Hydrated(c)
    BY DEF RestartTransparent
  <2> DEFINE t == Counted(BaseTally(c), bb_vote[c])
             mem == claims[b][c]
  <2>1. /\ Held(b, c) /\ mem.slot = bb_vote[c]
        /\ bb_claim[c].status = status_text(mem.status)
    BY DEF SoloInv, InStep
  <2>2. mem.tally = t
    BY <2>1 DEF IInv, MemoryPartOfStore
  <2>3. mem \in ClaimState
    BY <2>1 DEF IInv, TypeOK, Held, NotHeld
  <2>4. bb_claim[c].status = "open" => status(t) = "Open"
    BY DEF SoloInv, RowsSettled, Settled
  <2> HIDE DEF t, mem
  <2>5. mem.status = CASE bb_claim[c].status = "open" -> status(t)
                       [] bb_claim[c].status = "reached" -> "Reached"
                       [] bb_claim[c].status = "unreachable" -> "Unreachable"
    BY <2>1, <2>3, <2>4 DEF ClaimState, QuorumStatus, status_text
  <2>6. mem = [tally |-> mem.tally, status |-> mem.status, slot |-> mem.slot]
    BY <2>3 DEF ClaimState
  <2> QED BY <2>1, <2>2, <2>5, <2>6 DEF Hydrated, t, mem
<1> QED BY <1>1, Invariance, BoardsInStep, PTL

\* No claim waits for a vote nobody is left to cast: with the whole roster
\* heard its row is closed.
THEOREM RosterDecides == Spec /\ []OneAtATime => []FullRosterDecides
<1>1. IInv /\ SoloInv => FullRosterDecides
  <2> SUFFICES ASSUME IInv, SoloInv, NEW c \in Claim, Stored(c), bb_validator[c] # {},
                      \A a \in bb_validator[c] : bb_vote[c][a] # "none",
                      bb_claim[c].status = "open"
               PROVE  FALSE
    BY DEF FullRosterDecides, AllVoted
  <2>1. status(Counted(BaseTally(c), bb_vote[c])) = "Open"
    BY DEF SoloInv, RowsSettled, Settled
  <2>2. bb_vote[c] \in [Agent -> Slot]
    BY DEF IInv, TypeOK
  <2>3. \A a \in Agent : bb_vote[c][a] # "none" <=> a \in bb_validator[c]
    BY RowValues
  <2>4. status(Counted(Base(bb_claim[c].k, Blind(c)), bb_vote[c])) # "Open"
    BY <2>2, <2>3, RowValues, FullIsDecided
  <2> QED BY <2>1, <2>4, RowValues
<1> QED BY <1>1, Invariance, BoardsInStep, PTL

-----------------------------------------------------------------------------
(***************************************************************************)
(* Rotation.                                                               *)
(***************************************************************************)
\* The claims of a turn that one agent proposed.
Share(turn, a) ==
  {c \in Claim : Stored(c) /\ bb_claim[c].turn = turn /\ bb_claim[c].proposer = a}

\* Of finitely many stored claims every share, and what a board counts of it,
\* is a natural number.
LEMMA SharesFinite ==
  ASSUME IInv, FiniteStore, NEW turn, NEW a, NEW b \in Board
  PROVE  /\ IsFiniteSet(Share(turn, a)) /\ Cardinality(Share(turn, a)) \in Nat
         /\ Proposals(b, turn, a) \in Nat
<1>1. Share(turn, a) \subseteq {c \in Claim : Stored(c)}
  BY DEF Share
<1>2. {c \in Claim : Held(b, c) /\ bb_claim[c].turn = turn /\ bb_claim[c].proposer = a}
        \subseteq {c \in Claim : Stored(c)}
  BY DEF IInv, MemoryPartOfStore
<1> QED
  BY <1>1, <1>2, FS_Subset, FS_CardinalityType DEF FiniteStore, Proposals

\* next_proposer answers an agent none of the others has fewer claims than.
LEMMA NextProposer ==
  ASSUME IInv, FiniteStore, NEW b \in Board, NEW turn
  PROVE  /\ next_proposer(b, turn, Agent) \in Agent
         /\ \A other \in Agent :
              Proposals(b, turn, next_proposer(b, turn, Agent)) <= Proposals(b, turn, other)
<1> DEFINE n(a) == Proposals(b, turn, a)
           all == {n(a) : a \in Agent}
<1>1. \A a \in Agent : n(a) \in Nat
  BY SharesFinite
<1> HIDE DEF n
<1>2. PICK m \in all : \A i \in all : m <= i
  BY <1>1, AgentAssumption, NatMin
<1> DEFINE least == {a \in Agent : n(a) = m}
<1>3. PICK x \in least : \A y \in least : x <= y
  BY <1>2, AgentAssumption, NatMin
<1>4. x \in Agent /\ n(x) = m /\ \A a \in Agent : m <= n(a)
  BY <1>2, <1>3
<1>5. \A other \in Agent \ {x} : n(x) < n(other) \/ (n(x) = n(other) /\ x < other)
  <2> TAKE other \in Agent \ {x}
  <2>1. n(other) \in Nat /\ n(x) \in Nat /\ n(x) <= n(other) /\ x \in Nat /\ other \in Nat
    BY <1>1, <1>4, AgentAssumption
  <2>2. CASE n(other) = m
    <3>1. x <= other
      BY <1>3, <2>2
    <3> QED BY <2>1, <2>2, <3>1, <1>4
  <2>3. CASE n(other) # m
    BY <2>1, <2>3, <1>4
  <2> QED BY <2>2, <2>3
<1> DEFINE first(a) == \A other \in Agent \ {a} :
             n(a) < n(other) \/ (n(a) = n(other) /\ a < other)
<1>6. next_proposer(b, turn, Agent) = CHOOSE a \in Agent : first(a)
  BY DEF next_proposer, n
<1> DEFINE np == next_proposer(b, turn, Agent)
<1>7. np \in Agent /\ first(np)
  BY <1>4, <1>5, <1>6
<1> HIDE DEF np
<1>8. \A other \in Agent : n(np) <= n(other)
  <2> TAKE other \in Agent
  <2>1. n(other) \in Nat /\ n(np) \in Nat
    BY <1>1, <1>7
  <2> QED BY <1>7, <2>1
<1> QED BY <1>7, <1>8 DEF n, np

\* A board whose proposers rotate is a board.
LEMMA RotatingIsNext ==
  ASSUME IInv, FiniteStore, [RotatingNext]_vars
  PROVE  [Next]_vars
<1>1. ASSUME NEW b \in Board, PublishRotating(b) PROVE PublishAny(b)
  <2>1. PICK c \in Claim, turn \in TurnId :
          LET proposer == next_proposer(b, turn, Agent)
          IN  \/ \E validators \in SUBSET (Agent \ {proposer}) :
                   publish(b, c, turn, proposer, validators)
              \/ publish_blind(b, c, turn, proposer)
    BY <1>1 DEF PublishRotating
  <2>2. next_proposer(b, turn, Agent) \in Agent
    BY NextProposer
  <2> QED BY <2>1, <2>2 DEF PublishAny
<1> QED BY <1>1 DEF RotatingNext, Next

\* A new claim goes to one share, its proposer's in its turn.
LEMMA InsertShares ==
  ASSUME IInv, NEW c \in Claim, NEW t, NEW p, NEW n, NEW roster,
         insert_claim(c, t, p, n, roster)
  PROVE  /\ {d \in Claim : Stored(d)'} = {d \in Claim : Stored(d)} \cup {c}
         /\ \A turn, a :
              /\ c \notin Share(turn, a)
              /\ Share(turn, a)' =
                   Share(turn, a) \cup (IF turn = t /\ a = p THEN {c} ELSE {})
<1>1. /\ ~Stored(c)
      /\ bb_claim'[c] = [turn |-> t, proposer |-> p, k |-> n, status |-> "open"]
      /\ \A d \in Claim \ {c} : bb_claim'[d] = bb_claim[d]
  BY DEF insert_claim, IInv, TypeOK
<1>2. Stored(c)' /\ \A d \in Claim \ {c} : Stored(d)' = Stored(d)
  BY <1>1 DEF Stored
<1>3. {d \in Claim : Stored(d)'} = {d \in Claim : Stored(d)} \cup {c}
  BY <1>1, <1>2
<1>4. ASSUME NEW turn, NEW a
      PROVE  /\ c \notin Share(turn, a)
             /\ Share(turn, a)' = Share(turn, a) \cup (IF turn = t /\ a = p THEN {c} ELSE {})
  BY <1>1, <1>2 DEF Share
<1> QED BY <1>3, <1>4

\* Other steps change no share.
LEMMA OtherShares ==
  ASSUME IInv,
         \/ UNCHANGED bb_claim
         \/ \E b \in Board, c \in Claim, voter \in Agent, vote \in Vote :
              claims[b][c].status = "Open" /\ record_vote(b, c, voter, vote)
  PROVE  /\ {d \in Claim : Stored(d)'} = {d \in Claim : Stored(d)}
         /\ \A turn, a : Share(turn, a)' = Share(turn, a)
<1>1. CASE UNCHANGED bb_claim
  BY <1>1 DEF Stored, Share
<1>2. ASSUME NEW b \in Board, NEW c \in Claim, NEW voter \in Agent, NEW vote \in Vote,
             claims[b][c].status = "Open", record_vote(b, c, voter, vote), bb_claim' # bb_claim
      PROVE  /\ {d \in Claim : Stored(d)'} = {d \in Claim : Stored(d)}
             /\ \A turn, a : Share(turn, a)' = Share(turn, a)
  <2> DEFINE outcome == status(record(claims[b][c].tally, vote))
             text == status_text(outcome)
  <2>1. outcome # "Open" /\ bb_claim' = [bb_claim EXCEPT ![c].status = text]
    BY <1>2 DEF record_vote, update_status
  <2>2. outcome \in QuorumStatus
    BY DEF status, QuorumStatus
  <2>3. text # "absent"
    <3> HIDE DEF outcome
    <3> QED BY <2>2 DEF status_text, QuorumStatus
  <2> HIDE DEF text
  <2>4. Held(b, c)
    BY <1>2 DEF Held
  <2>5. Stored(c)
    BY <2>4 DEF IInv, MemoryPartOfStore
  <2>6. bb_claim \in [Claim -> Row \cup {NoRow}] /\ bb_claim[c] \in Row
    BY <2>5, RowValues DEF IInv, TypeOK
  <2>7. /\ bb_claim'[c] = [bb_claim[c] EXCEPT !.status = text]
        /\ \A d \in Claim \ {c} : bb_claim'[d] = bb_claim[d]
    BY <2>1, <2>6
  <2>8. /\ bb_claim'[c].status = text /\ bb_claim'[c].turn = bb_claim[c].turn
        /\ bb_claim'[c].proposer = bb_claim[c].proposer
    BY <2>6, <2>7 DEF Row
  <2>9. \A d \in Claim : /\ Stored(d)' <=> Stored(d)
                         /\ bb_claim'[d].turn = bb_claim[d].turn
                         /\ bb_claim'[d].proposer = bb_claim[d].proposer
    BY <2>3, <2>5, <2>7, <2>8 DEF Stored
  <2>10. {d \in Claim : Stored(d)'} = {d \in Claim : Stored(d)}
    BY <2>9
  <2>11. ASSUME NEW turn, NEW a PROVE Share(turn, a)' = Share(turn, a)
    BY <2>9 DEF Share
  <2> QED BY <2>10, <2>11
<1> QED BY <1>1, <1>2

\* Every step inserts a claim or is one of the other kind.
LEMMA StepKinds ==
  ASSUME [Next]_vars
  PROVE  \/ UNCHANGED bb_claim
         \/ \E b \in Board, c \in Claim, voter \in Agent, vote \in Vote :
              claims[b][c].status = "Open" /\ record_vote(b, c, voter, vote)
         \/ \E c \in Claim : \E t, p, n, roster : insert_claim(c, t, p, n, roster)
<1>1. CASE UNCHANGED vars
  BY <1>1 DEF vars
<1>2. ASSUME NEW b \in Board, Open(b) \/ Crash(b) PROVE UNCHANGED bb_claim
  BY <1>2 DEF Open, Crash, tables
<1>3. ASSUME NEW b \in Board, PublishAny(b)
      PROVE  \E c \in Claim : \E t, p, n, roster : insert_claim(c, t, p, n, roster)
  BY <1>3 DEF PublishAny, publish, publish_blind
<1>4. ASSUME NEW b \in Board, VoteAny(b)
      PROVE  \E c \in Claim, voter \in Agent, vote \in Vote :
               claims[b][c].status = "Open" /\ record_vote(b, c, voter, vote)
  BY <1>4 DEF VoteAny, vote_ordinary, vote_blind
<1> QED BY <1>1, <1>2, <1>3, <1>4 DEF Next

\* The store stays finite.
LEMMA StoreFinite == IInv /\ FiniteStore /\ [Next]_vars => FiniteStore'
<1> SUFFICES ASSUME IInv, FiniteStore, [Next]_vars PROVE FiniteStore'
  OBVIOUS
<1>1. ASSUME NEW c \in Claim, NEW t, NEW p, NEW n, NEW roster,
             insert_claim(c, t, p, n, roster)
      PROVE  IsFiniteSet({d \in Claim : Stored(d)'})
  <2>1. {d \in Claim : Stored(d)'} = {d \in Claim : Stored(d)} \cup {c}
    BY <1>1, InsertShares
  <2>2. IsFiniteSet({d \in Claim : Stored(d)} \cup {c})
    BY FS_AddElement DEF FiniteStore
  <2> QED BY <2>1, <2>2
<1>2. IsFiniteSet({d \in Claim : Stored(d)'})
  BY <1>1, StepKinds, OtherShares DEF FiniteStore
<1> QED BY <1>2 DEF FiniteStore

\* Rotating the proposers is one way of using boards, so all that is proved
\* of Spec holds of RotatingSpec.
THEOREM RotationIsUse == RotatingSpec => Spec /\ [](IInv /\ FiniteStore)
<1>1. Init => IInv /\ FiniteStore
  <2>1. ASSUME Init PROVE {c \in Claim : Stored(c)} = {}
    BY <2>1 DEF Init, Stored, NoRow
  <2> QED BY <2>1, InitOK, FS_EmptySet DEF FiniteStore
<1>2. IInv /\ FiniteStore /\ [RotatingNext]_vars => [Next]_vars
  BY RotatingIsNext
<1>3. IInv /\ FiniteStore /\ [Next]_vars => IInv' /\ FiniteStore'
  BY StepOK, StoreFinite
<1> QED BY <1>1, <1>2, <1>3, PTL DEF RotatingSpec, Spec

\* FairRotation, said of shares.
Even == \A turn \in TurnId, a1, a2 \in Agent :
          Cardinality(Share(turn, a1)) <= 1 + Cardinality(Share(turn, a2))

\* A claim published by the agent with the fewest keeps the shares even.
LEMMA RotationStep ==
  IInv /\ FiniteStore /\ SoloInv /\ Even /\ [RotatingNext]_vars => Even'
<1> SUFFICES ASSUME IInv, FiniteStore, SoloInv, Even, [RotatingNext]_vars PROVE Even'
  OBVIOUS
<1>0. [Next]_vars
  BY RotatingIsNext
<1>1. CASE \/ UNCHANGED bb_claim
           \/ \E b \in Board, c \in Claim, voter \in Agent, vote \in Vote :
                claims[b][c].status = "Open" /\ record_vote(b, c, voter, vote)
  <2>1. \A turn, a : Share(turn, a)' = Share(turn, a)
    BY <1>1, OtherShares
  <2> QED BY <2>1 DEF Even
<1>2. ASSUME NEW b \in Board, PublishRotating(b) PROVE Even'
  <2>1. PICK c \in Claim, t \in TurnId :
          LET proposer == next_proposer(b, t, Agent)
          IN  \/ \E validators \in SUBSET (Agent \ {proposer}) :
                   publish(b, c, t, proposer, validators)
              \/ publish_blind(b, c, t, proposer)
    BY <1>2 DEF PublishRotating
  <2> DEFINE p == next_proposer(b, t, Agent)
  <2>2. up[b] /\ \E n, roster : insert_claim(c, t, p, n, roster)
    BY <2>1 DEF publish, publish_blind
  <2>3. \A turn, a :
          /\ c \notin Share(turn, a)
          /\ Share(turn, a)' = Share(turn, a) \cup (IF turn = t /\ a = p THEN {c} ELSE {})
    BY <2>2, InsertShares
  <2>4. p \in Agent /\ \A other \in Agent : Proposals(b, t, p) <= Proposals(b, t, other)
    BY NextProposer
  <2> HIDE DEF p
  <2>5. \A a : Proposals(b, t, a) = Cardinality(Share(t, a))
    <3>1. \A d \in Claim : Held(b, d) <=> Stored(d)
      BY <2>2 DEF SoloInv, InStep
    <3>2. ASSUME NEW a PROVE
            {d \in Claim : Held(b, d) /\ bb_claim[d].turn = t /\ bb_claim[d].proposer = a}
              = Share(t, a)
      BY <3>1 DEF Share
    <3> QED BY <3>2 DEF Proposals
  <2>6. \A turn, a : /\ IsFiniteSet(Share(turn, a)) /\ Cardinality(Share(turn, a)) \in Nat
    BY SharesFinite
  <2>7. \A turn, a : Cardinality(Share(turn, a)') =
          Cardinality(Share(turn, a)) + (IF turn = t /\ a = p THEN 1 ELSE 0)
    <3> SUFFICES ASSUME NEW turn, NEW a
                 PROVE  Cardinality(Share(turn, a)') =
                          Cardinality(Share(turn, a)) + (IF turn = t /\ a = p THEN 1 ELSE 0)
      OBVIOUS
    <3>1. CASE turn = t /\ a = p
      <4>1. Share(turn, a)' = Share(turn, a) \cup {c} /\ c \notin Share(turn, a)
        BY <2>3, <3>1
      <4>2. Cardinality(Share(turn, a) \cup {c}) = Cardinality(Share(turn, a)) + 1
        BY <4>1, <2>6, FS_AddElement
      <4> QED BY <3>1, <4>1, <4>2
    <3>2. CASE ~(turn = t /\ a = p)
      <4>1. Share(turn, a)' = Share(turn, a)
        BY <2>3, <3>2
      <4> QED BY <3>2, <4>1, <2>6
    <3> QED BY <3>1, <3>2
  <2>8. ASSUME NEW turn \in TurnId, NEW a1 \in Agent, NEW a2 \in Agent
        PROVE  Cardinality(Share(turn, a1)') <= 1 + Cardinality(Share(turn, a2)')
    <3> DEFINE n1 == Cardinality(Share(turn, a1))
               n2 == Cardinality(Share(turn, a2))
    <3>1. n1 \in Nat /\ n2 \in Nat /\ n1 <= 1 + n2
      BY <2>6 DEF Even
    <3>2. turn = t /\ a1 = p => n1 <= n2
      BY <2>4, <2>5
    <3>3. /\ Cardinality(Share(turn, a1)') = n1 + (IF turn = t /\ a1 = p THEN 1 ELSE 0)
          /\ Cardinality(Share(turn, a2)') = n2 + (IF turn = t /\ a2 = p THEN 1 ELSE 0)
      BY <2>7
    <3> HIDE DEF n1, n2
    <3> QED BY <3>1, <3>2, <3>3
  <2> QED BY <2>8 DEF Even
<1>3. CASE UNCHANGED vars
  BY <1>1, <1>3 DEF vars
<1>4. ASSUME NEW b \in Board, Open(b) \/ Crash(b) \/ VoteAny(b) PROVE Even'
  <2>1. Open(b) \/ Crash(b) => UNCHANGED bb_claim
    BY DEF Open, Crash, tables
  <2>2. VoteAny(b) => \E c \in Claim, voter \in Agent, vote \in Vote :
          claims[b][c].status = "Open" /\ record_vote(b, c, voter, vote)
    BY DEF VoteAny, vote_ordinary, vote_blind
  <2> QED BY <1>1, <1>4, <2>1, <2>2
<1> QED BY <1>2, <1>3, <1>4 DEF RotatingNext

\* Inside one turn the shares of any two agents differ by at most one, across
\* restarts and successive boards (`next_proposer` counts hydrated claims).
THEOREM SharesStayEven == RotatingSpec /\ []OneAtATime => []FairRotation
<1>1. Init => Even
  <2> SUFFICES ASSUME Init PROVE Even
    OBVIOUS
  <2>1. \A turn, a : Share(turn, a) = {}
    BY DEF Init, Share, Stored, NoRow
  <2>2. Cardinality({}) = 0
    BY FS_EmptySet
  <2> QED BY <2>1, <2>2 DEF Even
<1>2. IInv /\ FiniteStore /\ SoloInv /\ Even /\ [RotatingNext]_vars => Even'
  BY RotationStep
<1>3. Even => FairRotation
  BY DEF Even, FairRotation, Share
<1> QED BY <1>1, <1>2, <1>3, RotationIsUse, BoardsInStep, PTL DEF RotatingSpec
=============================================================================
