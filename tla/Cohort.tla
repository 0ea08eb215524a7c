------------------------------- MODULE Cohort -------------------------------
(***************************************************************************)
(* A cohort's life in numbers: a tier is requested under a peer limit, the *)
(* admitted k opens a tally, and peers vote one at a time.  Checks the     *)
(* arithmetic of QuorumTally against what it is meant to compute.          *)
(***************************************************************************)
EXTENDS QuorumTally, FiniteSetsExt

CONSTANTS
  Limits,    \* peer limits configured
  MaxVotes   \* bound: votes recorded in a behaviour

ASSUME CohortAssumption == Limits \subseteq 1..PEER_CEILING /\ MaxVotes \in Nat

VARIABLES
  requested,  \* the tier asked for
  limit,      \* the configured limit
  tally       \* the tally of the admitted cohort's claim

vars == <<requested, limit, tally>>

Init ==
  /\ requested \in Tier /\ limit \in Limits
  /\ tally = NewTally(admit(requested, limit).k)

Cast(vote) ==
  /\ Recordable(tally)
  /\ tally.k - pending(tally) < MaxVotes
  /\ tally' = record(tally, vote)
  /\ UNCHANGED <<requested, limit>>

Next == \E vote \in Vote : Cast(vote)

Spec == Init /\ [][Next]_vars

-----------------------------------------------------------------------------
\* The cohort sizes a request may be given: those of a tier no higher than
\* the one asked for, within the limit.
Allowed(tier, lim) ==
  {k \in 1..lim : \E t \in Containing(k) : t <= tier}

\* admit gives the largest allowed cohort, in the one tier its size belongs
\* to (the gaps between tiers, and limits inside one, included).
AdmitsTheMost ==
  LET granted == admit(requested, limit)
  IN  /\ granted.k = Max(Allowed(requested, limit))
      /\ Containing(granted.k) = {granted.tier}

\* The verdict is exact at every vote: Reached when no further votes can undo
\* it, Unreachable when no further votes can bring quorum about, and Open
\* only while the pending peers could still decide either way.
Completions(t) == {t.yes + more : more \in 0..pending(t)}

VerdictExact ==
  LET best == Max(Completions(tally))
      worst == Min(Completions(tally))
  IN  /\ status(tally) = "Reached" <=> worst >= quorum(tally.k)
      /\ status(tally) = "Unreachable" <=> best < quorum(tally.k)

\* A verdict, once given, stays: no later vote changes it.
VerdictStable ==
  [][status(tally) # "Open" => status(tally)' = status(tally)]_vars

\* Any two quorums of one cohort share more members than can be faulty, and
\* the members that are not faulty can make a quorum by themselves.
QuorumsIntersect ==
  LET k == tally.k
  IN  /\ 2 * quorum(k) - k > byzantine_tolerance(k)
      /\ k - byzantine_tolerance(k) >= quorum(k)
=============================================================================
