---------------------------- MODULE QuorumTally ----------------------------
(***************************************************************************)
(* The arithmetic of peer cohorts (supra_types::cohort): the rational      *)
(* quorum, the incremental tally of one claim, the escalation tiers and    *)
(* the admission of a requested tier under the user's peer limit.          *)
(*                                                                         *)
(* Everything here is a total function of its arguments, exactly as the    *)
(* `const fn`s are.  usize never overflows: k is at most PEER_CEILING.     *)
(***************************************************************************)
EXTENDS Integers

PEER_CEILING == 80

DivCeil(a, b) == (a + b - 1) \div b

\* Fault: the quorum rounds down.
quorum_Floor(k) == (2 * k) \div 3

quorum(k) == IF k = 0 THEN 0 ELSE DivCeil(2 * k, 3)

byzantine_tolerance(k) == IF k = 0 THEN 0 ELSE (k - 1) \div 3

-----------------------------------------------------------------------------
(***************************************************************************)
(* Tiers E0..E5 are 0..5, in their declared (derived Ord) order.           *)
(***************************************************************************)
Tier == 0..5

k_low(tier) ==
  CASE tier = 0 -> 1
    [] tier = 1 -> 2
    [] tier = 2 -> 3
    [] tier = 3 -> 7
    [] tier = 4 -> 16
    [] tier = 5 -> 33

k_high(tier) ==
  CASE tier = 0 -> 1
    [] tier = 1 -> 2
    [] tier = 2 -> 5
    [] tier = 3 -> 12
    [] tier = 4 -> 32
    [] tier = 5 -> PEER_CEILING

\* The tiers whose range holds k: `containing` answers the first of them.
Containing(k) == {tier \in Tier : k_low(tier) <= k /\ k <= k_high(tier)}

\* The tiers a limit can field at all; empty exactly for a limit of zero.
Fitting(limit) == {tier \in Tier : k_low(tier) <= limit}

largest_within(limit) ==
  CHOOSE tier \in Fitting(limit) : \A other \in Fitting(limit) : other <= tier

\* Fault: a limit equal to the tier's least size is refused.
k_for_limit_Exclusive(tier, limit) ==
  IF k_low(tier) >= limit THEN 0
  ELSE IF k_high(tier) < limit THEN k_high(tier) ELSE limit

k_for_limit(tier, limit) ==
  IF k_low(tier) > limit THEN 0
  ELSE IF k_high(tier) < limit THEN k_high(tier) ELSE limit

\* `admit` for a limit that fits some tier (`None` otherwise).
admit(requested, limit) ==
  LET ceiling == largest_within(limit)
      tier    == IF requested <= ceiling THEN requested ELSE ceiling
  IN  [tier |-> tier, k |-> k_for_limit(tier, limit)]

-----------------------------------------------------------------------------
(***************************************************************************)
(* QuorumTally: the votes of one claim, counted one at a time.             *)
(***************************************************************************)
Vote == {"yes", "no", "abstain"}
QuorumStatus == {"Open", "Reached", "Unreachable"}

Tally == [k : Nat, needed : Nat, yes : Nat, no : Nat, abstain : Nat]

NewTally(k) ==
  [k |-> k, needed |-> quorum(k), yes |-> 0, no |-> 0, abstain |-> 0]

pending(t) == t.k - t.yes - t.no - t.abstain

\* record answers Overfull instead of counting when nobody is pending.
Recordable(t) == pending(t) # 0

Counts(vote, choice) == IF vote = choice THEN 1 ELSE 0

\* Fault: an abstention falls into the arm of the approvals.
record_AbstainApproves(t, vote) ==
  [k |-> t.k, needed |-> t.needed,
   yes     |-> t.yes + Counts(vote, "yes") + Counts(vote, "abstain"),
   no      |-> t.no + Counts(vote, "no"),
   abstain |-> t.abstain]

record(t, vote) ==
  [k |-> t.k, needed |-> t.needed,
   yes     |-> t.yes + Counts(vote, "yes"),
   no      |-> t.no + Counts(vote, "no"),
   abstain |-> t.abstain + Counts(vote, "abstain")]

\* Fault: the quorum of the votes cast, not of the cohort.
is_reached_OfCast(t) == t.yes >= quorum(t.yes + t.no + t.abstain)

\* Fault: quorum is given up one pending vote too early.
is_unreachable_Early(t) == t.yes + pending(t) <= t.needed

is_reached(t)     == t.yes >= t.needed
is_unreachable(t) == t.yes + pending(t) < t.needed

status(t) ==
  IF is_reached(t) THEN "Reached"
  ELSE IF is_unreachable(t) THEN "Unreachable" ELSE "Open"
=============================================================================
