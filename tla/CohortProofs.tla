---------------------------- MODULE CohortProofs ----------------------------
(***************************************************************************)
(* Proofs about cohorts of every size: quorums intersect in more members   *)
(* than can be faulty, no vote is counted twice or lost by the tally, and  *)
(* a verdict once given stays.                                             *)
(***************************************************************************)
EXTENDS Cohort, TLAPS

\* What is left of the cohort is never negative: the incremental tally never
\* counts more votes than there are peers.
TallyFits ==
  /\ tally \in Tally
  /\ tally.needed = quorum(tally.k)
  /\ tally.k \in 1..PEER_CEILING
  /\ tally.yes + tally.no + tally.abstain <= tally.k

-----------------------------------------------------------------------------
\* For every cohort that is not empty, two quorums share more members than
\* byzantine_tolerance allows to be faulty, and the others make a quorum.
LEMMA QuorumArithmetic ==
  ASSUME NEW k \in Nat \ {0}
  PROVE  /\ quorum(k) \in 1..k
         /\ 2 * quorum(k) - k > byzantine_tolerance(k)
         /\ k - byzantine_tolerance(k) >= quorum(k)
BY DEF quorum, DivCeil, byzantine_tolerance

\* The largest tier a limit fits is one of the tiers that fit it.
LEMMA LargestFits ==
  ASSUME NEW lim \in Nat \ {0}
  PROVE  /\ largest_within(lim) \in Tier
         /\ k_low(largest_within(lim)) <= lim
         /\ \A other \in Tier : k_low(other) <= lim => other <= largest_within(lim)
<1> DEFINE best == IF lim >= 33 THEN 5 ELSE IF lim >= 16 THEN 4 ELSE IF lim >= 7
                   THEN 3 ELSE IF lim >= 3 THEN 2 ELSE IF lim >= 2 THEN 1 ELSE 0
<1>1. best \in Fitting(lim) /\ \A other \in Fitting(lim) : other <= best
  BY DEF Fitting, Tier, k_low
<1>2. \E tier \in Fitting(lim) : \A other \in Fitting(lim) : other <= tier
  BY <1>1
<1>3. /\ largest_within(lim) \in Fitting(lim)
      /\ \A other \in Fitting(lim) : other <= largest_within(lim)
  BY <1>2 DEF largest_within
<1> QED
  BY <1>3 DEF Fitting

\* A tier that fits a limit gives a cohort of at least its own least size, no
\* larger than the limit and than its own greatest size.
LEMMA KForLimit ==
  ASSUME NEW lim \in Nat \ {0}, NEW tier \in Tier, k_low(tier) <= lim
  PROVE  /\ k_for_limit(tier, lim) \in Nat
         /\ k_low(tier) <= k_for_limit(tier, lim)
         /\ k_for_limit(tier, lim) <= lim
         /\ k_for_limit(tier, lim) <= k_high(tier)
BY DEF k_for_limit, Tier, k_low, k_high, PEER_CEILING

\* The least sizes grow with the tier.
LEMMA LowGrows ==
  ASSUME NEW t1 \in Tier, NEW t2 \in Tier, t1 <= t2
  PROVE  k_low(t1) <= k_low(t2) /\ k_low(t1) \in Nat \ {0}
BY DEF Tier, k_low

\* admit never exceeds the limit or the tier asked for, and never answers a
\* cohort outside the range of the tier it names.
THEOREM AdmitFits ==
  ASSUME NEW req \in Tier, NEW lim \in Nat \ {0}
  PROVE  LET granted == admit(req, lim)
         IN  /\ granted.tier \in Tier /\ granted.tier <= req
             /\ granted.k \in Nat \ {0} /\ granted.k <= lim
             /\ granted.tier \in Containing(granted.k)
<1> DEFINE top  == largest_within(lim)
           tier == IF req <= top THEN req ELSE top
<1>1. top \in Tier /\ k_low(top) <= lim
  BY LargestFits
<1> HIDE DEF top
<1>2. tier \in Tier /\ tier <= req /\ tier <= top
  BY <1>1 DEF Tier
<1>3. admit(req, lim) = [tier |-> tier, k |-> k_for_limit(tier, lim)]
  BY DEF admit, top
<1> HIDE DEF tier
<1>4. k_low(tier) <= k_low(top) /\ k_low(tier) \in Nat \ {0} /\ k_low(top) \in Nat
  <2>1. k_low(tier) <= k_low(top) /\ k_low(tier) \in Nat \ {0}
    BY <1>1, <1>2, LowGrows
  <2>2. top <= top
    BY <1>1 DEF Tier
  <2>3. k_low(top) \in Nat \ {0}
    BY <1>1, <2>2, LowGrows
  <2> QED
    BY <2>1, <2>3
<1>5. k_low(tier) <= lim
  BY <1>1, <1>4
<1>6. /\ k_for_limit(tier, lim) \in Nat
      /\ k_low(tier) <= k_for_limit(tier, lim)
      /\ k_for_limit(tier, lim) <= lim
      /\ k_for_limit(tier, lim) <= k_high(tier)
  BY <1>2, <1>5, KForLimit
<1> QED
  BY <1>2, <1>3, <1>4, <1>6 DEF Containing

-----------------------------------------------------------------------------
\* The greatest element of a set of integers is the one Max names.
LEMMA MaxIs ==
  ASSUME NEW S \in SUBSET Int, NEW m \in S, \A x \in S : x <= m
  PROVE  Max(S) = m
<1>1. \E x \in S : \A y \in S : x >= y
  OBVIOUS
<1>2. Max(S) \in S /\ \A y \in S : Max(S) >= y
  BY <1>1 DEF Max
<1>3. Max(S) >= m /\ Max(S) <= m /\ Max(S) \in Int /\ m \in Int
  BY <1>2
<1> QED
  BY <1>3

\* The least element of a set of integers is the one Min names.
LEMMA MinIs ==
  ASSUME NEW S \in SUBSET Int, NEW m \in S, \A x \in S : m <= x
  PROVE  Min(S) = m
<1>1. \E x \in S : \A y \in S : x <= y
  OBVIOUS
<1>2. Min(S) \in S /\ \A y \in S : Min(S) <= y
  BY <1>1 DEF Min
<1>3. Min(S) >= m /\ Min(S) <= m /\ Min(S) \in Int /\ m \in Int
  BY <1>2
<1> QED
  BY <1>3

\* The ranges of two tiers do not overlap, and grow with the tier.
LEMMA RangesGrow ==
  ASSUME NEW t1 \in Tier, NEW t2 \in Tier
  PROVE  /\ k_high(t1) \in Nat /\ k_low(t1) \in Nat \ {0}
         /\ t1 < t2 => k_high(t1) < k_low(t2)
         /\ t1 <= t2 => k_high(t1) <= k_high(t2)
         /\ t1 <= t2 \/ t2 < t1
BY DEF Tier, k_low, k_high, PEER_CEILING

\* admit gives the largest cohort that the limit and the tier asked for
\* allow, in the only tier that size belongs to.
THEOREM AdmitMaximal ==
  ASSUME NEW req \in Tier, NEW lim \in Nat \ {0}
  PROVE  /\ admit(req, lim).k = Max(Allowed(req, lim))
         /\ Containing(admit(req, lim).k) = {admit(req, lim).tier}
<1> DEFINE g == admit(req, lim)
<1>1. /\ g.tier \in Tier /\ g.tier <= req
      /\ g.k \in Nat \ {0} /\ g.k <= lim
      /\ g.tier \in Containing(g.k)
  BY AdmitFits
<1>2. g.tier = (IF req <= largest_within(lim) THEN req ELSE largest_within(lim))
  BY DEF admit
<1>3. g.k = k_for_limit(g.tier, lim)
  BY DEF admit
<1> HIDE DEF g
<1>4. k_low(g.tier) <= g.k /\ g.k <= k_high(g.tier)
  BY <1>1 DEF Containing
<1>5. ASSUME NEW n \in Allowed(req, lim)
      PROVE  n <= g.k
  <2>1. n \in 1..lim /\ n \in Nat
    BY DEF Allowed
  <2>2. PICK t \in Containing(n) : t <= req
    BY DEF Allowed
  <2>3. t \in Tier /\ k_low(t) <= n /\ n <= k_high(t)
    BY DEF Containing
  <2>4. k_low(t) \in Nat
    BY <2>3, RangesGrow
  <2>5. k_low(t) <= lim
    BY <2>1, <2>3, <2>4
  <2>6. t <= largest_within(lim)
    BY <2>3, <2>5, LargestFits
  <2>7. t <= g.tier
    BY <1>2, <2>2, <2>6
  <2>8. k_high(t) <= k_high(g.tier) /\ k_high(t) \in Nat /\ k_high(g.tier) \in Nat
    BY <1>1, <2>3, <2>7, RangesGrow
  <2>9. n <= k_high(g.tier)
    BY <2>1, <2>3, <2>8
  <2>10. k_low(g.tier) <= lim /\ k_low(g.tier) \in Nat
    BY <1>1, <1>4, RangesGrow
  <2>11. g.k = IF k_high(g.tier) < lim THEN k_high(g.tier) ELSE lim
    BY <1>3, <2>8, <2>10 DEF k_for_limit
  <2> QED
    BY <2>1, <2>8, <2>9, <2>11
<1>6. g.k \in Allowed(req, lim) /\ Allowed(req, lim) \in SUBSET Int
  BY <1>1 DEF Allowed
<1>7. g.k = Max(Allowed(req, lim))
  BY <1>5, <1>6, MaxIs
<1>8. ASSUME NEW t \in Containing(g.k)
      PROVE  t = g.tier
  <2>1. t \in Tier /\ k_low(t) <= g.k /\ g.k <= k_high(t)
    BY DEF Containing
  <2>2. /\ k_high(t) \in Nat /\ k_low(t) \in Nat
        /\ t < g.tier => k_high(t) < k_low(g.tier)
    BY <1>1, <2>1, RangesGrow
  <2>3. /\ k_high(g.tier) \in Nat /\ k_low(g.tier) \in Nat
        /\ g.tier < t => k_high(g.tier) < k_low(t)
    BY <1>1, <2>1, RangesGrow
  <2>4. ~(t < g.tier) /\ ~(g.tier < t)
    BY <1>1, <1>4, <2>1, <2>2, <2>3
  <2> QED
    BY <1>1, <2>1, <2>4 DEF Tier
<1> QED
  BY <1>1, <1>7, <1>8 DEF g

-----------------------------------------------------------------------------
(***************************************************************************)
(* The specification.                                                      *)
(***************************************************************************)
\* Votes are cast on a tally that fits its cohort, in a request admitted
\* under a limit.
CohortInv ==
  /\ requested \in Tier
  /\ limit \in 1..PEER_CEILING
  /\ tally.k = admit(requested, limit).k
  /\ TallyFits

\* Recording a vote in a tally with room for it leaves one that fits.
LEMMA CastFits ==
  ASSUME TallyFits, NEW vote \in Vote, Cast(vote)
  PROVE  /\ TallyFits' /\ tally'.k = tally.k
         /\ tally'.yes >= tally.yes
         /\ tally'.yes + pending(tally') <= tally.yes + pending(tally)
<1>1. /\ tally' = record(tally, vote) /\ pending(tally) # 0
      /\ tally.k \in Nat /\ tally.needed \in Nat /\ tally.yes \in Nat
      /\ tally.no \in Nat /\ tally.abstain \in Nat
  BY DEF Cast, Recordable, TallyFits, Tally
<1>2. tally.yes + tally.no + tally.abstain < tally.k
  BY <1>1 DEF TallyFits, pending
<1>3. /\ tally'.k = tally.k /\ tally'.needed = tally.needed
      /\ tally'.yes = tally.yes + Counts(vote, "yes")
      /\ tally'.no = tally.no + Counts(vote, "no")
      /\ tally'.abstain = tally.abstain + Counts(vote, "abstain")
      /\ tally' = [k |-> tally'.k, needed |-> tally'.needed, yes |-> tally'.yes,
                   no |-> tally'.no, abstain |-> tally'.abstain]
  BY <1>1 DEF record
<1>4. /\ Counts(vote, "yes") \in {0, 1} /\ Counts(vote, "no") \in {0, 1}
      /\ Counts(vote, "abstain") \in {0, 1}
      /\ Counts(vote, "yes") + Counts(vote, "no") + Counts(vote, "abstain") = 1
  BY DEF Counts, Vote
<1>5. tally' \in Tally
  BY <1>1, <1>3, <1>4 DEF Tally
<1>6. TallyFits'
  BY <1>1, <1>2, <1>3, <1>4, <1>5 DEF TallyFits
<1> QED
  BY <1>1, <1>3, <1>4, <1>6 DEF pending

\* CohortInv holds in every reachable state.
THEOREM CohortInvariance == Spec => []CohortInv
<1>1. Init => CohortInv
  <2> SUFFICES ASSUME Init PROVE CohortInv
    OBVIOUS
  <2> DEFINE n == admit(requested, limit).k
  <2>1. requested \in Tier /\ limit \in 1..PEER_CEILING /\ tally = NewTally(n)
    BY CohortAssumption DEF Init
  <2>2. limit \in Nat \ {0}
    BY <2>1 DEF PEER_CEILING
  <2>3. n \in Nat \ {0} /\ n <= limit
    BY <2>1, <2>2, AdmitFits
  <2> HIDE DEF n
  <2>4. n \in 1..PEER_CEILING /\ quorum(n) \in Nat
    <3>1. n \in 1..PEER_CEILING
      BY <2>1, <2>3 DEF PEER_CEILING
    <3>2. quorum(n) \in 1..n
      BY <2>3, QuorumArithmetic
    <3> QED
      BY <2>3, <3>1, <3>2
  <2>5. TallyFits /\ tally.k = n
    BY <2>1, <2>4 DEF TallyFits, NewTally, Tally
  <2> QED
    BY <2>1, <2>5 DEF CohortInv, n
<1>2. CohortInv /\ [Next]_vars => CohortInv'
  <2> SUFFICES ASSUME CohortInv, [Next]_vars PROVE CohortInv'
    OBVIOUS
  <2>1. ASSUME NEW vote \in Vote, Cast(vote) PROVE CohortInv'
    <3>1. TallyFits' /\ tally'.k = tally.k
      BY <2>1, CastFits DEF CohortInv
    <3>2. requested' = requested /\ limit' = limit
      BY <2>1 DEF Cast
    <3> QED
      BY <3>1, <3>2 DEF CohortInv
  <2>2. CASE UNCHANGED vars
    BY <2>2 DEF vars, CohortInv, TallyFits
  <2> QED
    BY <2>1, <2>2 DEF Next
<1> QED
  BY <1>1, <1>2, PTL DEF Spec

\* Whatever tier is asked for under whatever limit, the cohort granted is the
\* largest allowed one and of one tier only.
THEOREM Admission == Spec => []AdmitsTheMost
<1>1. CohortInv => AdmitsTheMost
  <2> SUFFICES ASSUME CohortInv PROVE AdmitsTheMost
    OBVIOUS
  <2>1. requested \in Tier /\ limit \in Nat \ {0}
    BY DEF CohortInv, PEER_CEILING
  <2> QED
    BY <2>1, AdmitMaximal DEF AdmitsTheMost
<1> QED
  BY <1>1, CohortInvariance, PTL

\* Two quorums of any admitted cohort share a member that is not faulty.
THEOREM Intersection == Spec => []QuorumsIntersect
<1>1. CohortInv => QuorumsIntersect
  <2> SUFFICES ASSUME CohortInv PROVE QuorumsIntersect
    OBVIOUS
  <2>1. tally.k \in Nat \ {0}
    BY DEF CohortInv, TallyFits, PEER_CEILING
  <2> QED
    BY <2>1, QuorumArithmetic DEF QuorumsIntersect
<1> QED
  BY <1>1, CohortInvariance, PTL

\* The verdict of the incremental tally is what quantifying over every way
\* the pending peers could still vote gives.
THEOREM Exactness == Spec => []VerdictExact
<1>1. CohortInv => VerdictExact
  <2> SUFFICES ASSUME CohortInv PROVE VerdictExact
    OBVIOUS
  <2>1. /\ tally.k \in Nat \ {0} /\ tally.yes \in Nat /\ tally.no \in Nat
        /\ tally.abstain \in Nat /\ tally.needed = quorum(tally.k)
        /\ tally.yes + tally.no + tally.abstain <= tally.k
    BY DEF CohortInv, TallyFits, Tally, PEER_CEILING
  <2>2. pending(tally) \in Nat
    BY <2>1 DEF pending
  <2> DEFINE S == Completions(tally)
  <2>3. /\ S \in SUBSET Int
        /\ tally.yes \in S /\ \A x \in S : tally.yes <= x
        /\ tally.yes + pending(tally) \in S
        /\ \A x \in S : x <= tally.yes + pending(tally)
    BY <2>1, <2>2 DEF Completions
  <2>4. Max(S) = tally.yes + pending(tally) /\ Min(S) = tally.yes
    BY <2>3, MaxIs, MinIs
  <2>5. quorum(tally.k) \in Nat
    BY <2>1, QuorumArithmetic
  <2> QED
    BY <2>1, <2>2, <2>4, <2>5
    DEF VerdictExact, status, is_reached, is_unreachable
<1> QED
  BY <1>1, CohortInvariance, PTL

\* No later vote changes a verdict.
THEOREM Stability == Spec => VerdictStable
<1>1. CohortInv /\ [Next]_vars =>
        [status(tally) # "Open" => status(tally)' = status(tally)]_vars
  <2> SUFFICES ASSUME CohortInv, NEW vote \in Vote, Cast(vote)
               PROVE  status(tally) # "Open" => status(tally)' = status(tally)
    BY DEF Next
  <2>1. /\ tally.k \in Nat /\ tally.yes \in Nat /\ tally.no \in Nat
        /\ tally.abstain \in Nat /\ tally.needed = quorum(tally.k)
    BY DEF CohortInv, TallyFits, Tally
  <2>2. /\ TallyFits' /\ tally'.k = tally.k
        /\ tally'.yes >= tally.yes
        /\ tally'.yes + pending(tally') <= tally.yes + pending(tally)
    BY CastFits DEF CohortInv
  <2>3. /\ tally'.yes \in Nat /\ tally'.no \in Nat /\ tally'.abstain \in Nat
        /\ tally'.needed = tally.needed
        /\ tally'.yes + tally'.no + tally'.abstain <= tally'.k
    BY <2>1, <2>2 DEF TallyFits, Tally
  <2>4. tally.needed \in Nat
    BY DEF CohortInv, TallyFits, Tally
  <2>5. status(tally)' = status(tally')
    BY DEF status, is_reached, is_unreachable, pending
  <2>6. is_reached(tally) => is_reached(tally')
    BY <2>1, <2>2, <2>3, <2>4 DEF is_reached
  <2>7. is_unreachable(tally) => is_unreachable(tally') /\ ~is_reached(tally')
    BY <2>1, <2>2, <2>3, <2>4 DEF is_reached, is_unreachable, pending
  <2> QED
    BY <2>5, <2>6, <2>7 DEF status
<1> QED
  BY <1>1, CohortInvariance, PTL DEF Spec, VerdictStable
=============================================================================
