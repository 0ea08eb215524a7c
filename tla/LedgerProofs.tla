---------------------------- MODULE LedgerProofs ----------------------------
(***************************************************************************)
(* What TLAPS proves of the prompt ledger and the turns evicted from it,   *)
(* for any segments, any bounds and any lookback: the live prefix is sound *)
(* and named by its seals, no turn is lost, and recall gives the turn.     *)
(*                                                                         *)
(* What one ledger may be is a predicate on values (LedgerOK), kept by     *)
(* `append`, `seal_generation` and the loop of `rewrite`; the loop is put  *)
(* in closed form first.                                                   *)
(***************************************************************************)
EXTENDS PromptLedger, FiniteSetTheorems, SequenceTheorems, WellFoundedInduction, TLAPS

\* A set of naturals that is not empty has a least element.
LEMMA NatMin ==
  ASSUME NEW T \in SUBSET Nat, T # {}
  PROVE  \E x \in T : \A y \in T : x <= y
<1> DEFINE R == OpToRel(<, Nat)
<1>1. IsWellFoundedOn(R, Nat)
  BY NatLessThanWellFounded
<1>2. \E x \in T : \A y \in T : ~(<<y, x>> \in R)
  <2> HIDE DEF R
  <2> QED BY <1>1, WFMin
<1>3. PICK x \in T : \A y \in T : ~(<<y, x>> \in R)
  BY <1>2
<1>4. \A y \in T : <<y, x>> \in R <=> y < x
  BY DEF OpToRel
<1> HIDE DEF R
<1>5. \A y \in T : ~(y < x)
  BY <1>3, <1>4
<1> QED
  BY <1>5

-----------------------------------------------------------------------------
(***************************************************************************)
(* The shape of a ledger.                                                  *)
(***************************************************************************)
Entry == [seq : Nat, segment : Segments]
SegmentId == {s.id : s \in Segments}
Seals == [generation : Int, segments : Seq(SegmentId), prefix_hash : Seq(Nat \X Segments)]
Ledger ==
  [entries : Seq(Entry), next_seq : Nat, generation : Int, latest_generation : Seals,
   pushes : Nat, turns : SUBSET TurnIds, seals : SUBSET [seal : Seals, pushes : Nat]]

\* The fields of a ledger and of its entries.
LEMMA LedgerFields ==
  ASSUME NEW l \in Ledger
  PROVE  /\ l.entries \in Seq(Entry) /\ l.next_seq \in Nat /\ l.generation \in Int
         /\ l.latest_generation \in Seals /\ l.pushes \in Nat
         /\ l.turns \in SUBSET TurnIds
         /\ l.seals \in SUBSET [seal : Seals, pushes : Nat]
         /\ \A i \in 1..Len(l.entries) :
              /\ l.entries[i] \in Entry
              /\ l.entries[i].seq \in Nat /\ l.entries[i].segment \in Segments
<1>1. /\ l.entries \in Seq(Entry) /\ l.next_seq \in Nat /\ l.generation \in Int
      /\ l.latest_generation \in Seals /\ l.pushes \in Nat
      /\ l.turns \in SUBSET TurnIds
      /\ l.seals \in SUBSET [seal : Seals, pushes : Nat]
  BY DEF Ledger
<1>2. ASSUME NEW i \in 1..Len(l.entries)
      PROVE  /\ l.entries[i] \in Entry
             /\ l.entries[i].seq \in Nat /\ l.entries[i].segment \in Segments
  <2>1. l.entries[i] \in Entry
    BY <1>1
  <2> QED BY <2>1 DEF Entry
<1> QED BY <1>1, <1>2

\* The entries of n segments appended from position `first` on, and the turns
\* among them.
Placed(first, segments, n) ==
  [i \in 1..n |-> [seq |-> first + i - 1, segment |-> segments[i]]]

TurnsIn(segments, n) ==
  {segments[i].turn : i \in {j \in 1..n : segments[j].kind = "Turn"}}

\* An empty ledger after n of the segments have been appended to it.
Grown(l, segments, n) ==
  [entries           |-> Placed(l.next_seq, segments, n),
   next_seq          |-> l.next_seq + n,
   generation        |-> l.generation,
   latest_generation |-> l.latest_generation,
   pushes            |-> l.pushes + n,
   turns             |-> l.turns \cup TurnsIn(segments, n),
   seals             |-> l.seals]

Distinct(segments) ==
  \A i, j \in 1..Len(segments) : segments[i].id = segments[j].id => i = j

\* The entries that appending puts in place.
LEMMA PlacedFields ==
  ASSUME NEW first \in Nat, NEW segments \in Seq(Segments), NEW n \in 0..Len(segments)
  PROVE  /\ Placed(first, segments, n) \in Seq(Entry)
         /\ Len(Placed(first, segments, n)) = n
         /\ \A i \in 1..n : /\ Placed(first, segments, n)[i] = [seq |-> first + i - 1, segment |-> segments[i]]
                            /\ Placed(first, segments, n)[i].seq = first + i - 1
                            /\ Placed(first, segments, n)[i].segment = segments[i]
  BY DEF Placed, Entry

\* A ledger grown by appends is a ledger.
LEMMA GrownType ==
  ASSUME NEW l \in Ledger, NEW segments \in Seq(Segments), NEW n \in 0..Len(segments)
  PROVE  Grown(l, segments, n) \in Ledger
<1>1. Placed(l.next_seq, segments, n) \in Seq(Entry)
  BY LedgerFields, PlacedFields
<1>2. TurnsIn(segments, n) \in SUBSET TurnIds
  BY DEF TurnsIn, TurnIds, TurnSegments
<1>3. l.next_seq + n \in Nat /\ l.pushes + n \in Nat
  BY LedgerFields
<1>4. l.turns \cup TurnsIn(segments, n) \in SUBSET TurnIds
  BY <1>2, LedgerFields
<1> QED BY <1>1, <1>3, <1>4, LedgerFields DEF Grown, Ledger

\* `append` of a new segment.
LEMMA AppendIs ==
  ASSUME NEW l \in Ledger, NEW s \in Segments, ~Present(l, s.id)
  PROVE  append(l, s) =
           [entries           |-> Append(l.entries, [seq |-> l.next_seq, segment |-> s]),
            next_seq          |-> l.next_seq + 1,
            generation        |-> l.generation,
            latest_generation |-> l.latest_generation,
            pushes            |-> l.pushes + 1,
            turns             |-> IF s.kind = "Turn" THEN l.turns \cup {s.turn} ELSE l.turns,
            seals             |-> l.seals]
<1> DEFINE es == Append(l.entries, [seq |-> l.next_seq, segment |-> s])
           ts == IF s.kind = "Turn" THEN l.turns \cup {s.turn} ELSE l.turns
           ns == l.next_seq + 1
           ps == l.pushes + 1
<1>1. append(l, s) = [l EXCEPT !.entries = es, !.next_seq = ns, !.pushes = ps, !.turns = ts]
  BY DEF append, Ledger
<1> HIDE DEF es, ts, ns, ps
<1> DEFINE m == [l EXCEPT !.entries = es, !.next_seq = ns, !.pushes = ps, !.turns = ts]
<1>2. DOMAIN l = {"entries", "next_seq", "generation", "latest_generation", "pushes", "turns", "seals"}
  BY DEF Ledger
<1>3. /\ m = [f \in DOMAIN l |-> m[f]]
      /\ m.entries = es /\ m.next_seq = ns /\ m.pushes = ps /\ m.turns = ts
      /\ m.generation = l.generation /\ m.latest_generation = l.latest_generation
      /\ m.seals = l.seals
  BY <1>2
<1> HIDE DEF m
<1>4. m = [entries |-> es, next_seq |-> ns, generation |-> l.generation,
           latest_generation |-> l.latest_generation, pushes |-> ps, turns |-> ts, seals |-> l.seals]
  BY <1>2, <1>3
<1> QED BY <1>1, <1>4 DEF es, ts, ns, ps, m

\* The same, field by field.
LEMMA AppendFields ==
  ASSUME NEW l \in Ledger, NEW s \in Segments, ~Present(l, s.id), NEW m, m = append(l, s)
  PROVE  /\ m.entries = Append(l.entries, [seq |-> l.next_seq, segment |-> s])
         /\ m.next_seq = l.next_seq + 1 /\ m.pushes = l.pushes + 1
         /\ m.generation = l.generation /\ m.latest_generation = l.latest_generation
         /\ m.turns = IF s.kind = "Turn" THEN l.turns \cup {s.turn} ELSE l.turns
         /\ m.seals = l.seals
         /\ m = [entries |-> m.entries, next_seq |-> m.next_seq, generation |-> m.generation,
                 latest_generation |-> m.latest_generation, pushes |-> m.pushes,
                 turns |-> m.turns, seals |-> m.seals]
<1> DEFINE es == Append(l.entries, [seq |-> l.next_seq, segment |-> s])
           ts == IF s.kind = "Turn" THEN l.turns \cup {s.turn} ELSE l.turns
           ns == l.next_seq + 1
           ps == l.pushes + 1
<1>1. m = [entries |-> es, next_seq |-> ns, generation |-> l.generation,
           latest_generation |-> l.latest_generation, pushes |-> ps, turns |-> ts, seals |-> l.seals]
  BY AppendIs
<1> HIDE DEF es, ts, ns, ps
<1>2. /\ m.entries = es /\ m.next_seq = ns /\ m.pushes = ps
      /\ m.generation = l.generation /\ m.latest_generation = l.latest_generation
      /\ m.turns = ts /\ m.seals = l.seals
  BY <1>1
<1>3. m = [entries |-> m.entries, next_seq |-> m.next_seq, generation |-> m.generation,
           latest_generation |-> m.latest_generation, pushes |-> m.pushes,
           turns |-> m.turns, seals |-> m.seals]
  BY <1>1, <1>2
<1> QED BY <1>2, <1>3 DEF es, ts, ns, ps

\* One more append to a grown ledger.
LEMMA GrownOnce ==
  ASSUME NEW l \in Ledger, NEW segments \in Seq(Segments), Distinct(segments),
         NEW n \in 1..Len(segments)
  PROVE  append(Grown(l, segments, n - 1), segments[n]) = Grown(l, segments, n)
<1> DEFINE g == Grown(l, segments, n - 1)
           e == [seq |-> l.next_seq + n - 1, segment |-> segments[n]]
<1>0. n - 1 \in 0..Len(segments) /\ l.next_seq \in Nat /\ l.pushes \in Nat
  BY LedgerFields
<1>1. ~Present(g, segments[n].id)
  <2>1. g.entries = Placed(l.next_seq, segments, n - 1)
    BY DEF Grown
  <2>2. \A i \in 1..(n - 1) : g.entries[i].segment = segments[i]
    BY <1>0, <2>1, PlacedFields
  <2>3. DOMAIN g.entries = 1..(n - 1)
    BY <1>0, <2>1, PlacedFields
  <2> QED BY <2>2, <2>3 DEF Present, Distinct
<1>2. Append(Placed(l.next_seq, segments, n - 1), e) = Placed(l.next_seq, segments, n)
  <2>1. e \in Entry
    BY <1>0 DEF Entry
  <2>2. Placed(l.next_seq, segments, n - 1) \in Seq(Entry) /\ Len(Placed(l.next_seq, segments, n - 1)) = n - 1
    BY <1>0, PlacedFields
  <2>3. Placed(l.next_seq, segments, n) \in Seq(Entry) /\ Len(Placed(l.next_seq, segments, n)) = n
    BY <1>0, PlacedFields
  <2> DEFINE s == Append(Placed(l.next_seq, segments, n - 1), e)
             t == Placed(l.next_seq, segments, n)
  <2>4. s \in Seq(Entry) /\ Len(s) = n
    BY <2>1, <2>2
  <2>5. ASSUME NEW i \in 1..n PROVE s[i] = t[i]
    <3>0. n \in 0..Len(segments) /\ l.next_seq \in Nat
      BY <1>0
    <3>1. t[i] = [seq |-> l.next_seq + i - 1, segment |-> segments[i]]
      BY <3>0, PlacedFields
    <3>2. CASE i = n
      <4>1. s[n] = e
        BY <2>1, <2>2, AppendProperties
      <4> HIDE DEF s, t
      <4> QED BY <3>1, <3>2, <4>1
    <3>3. CASE i \in 1..(n - 1)
      <4>1. s[i] = Placed(l.next_seq, segments, n - 1)[i]
        BY <3>3, <2>1, <2>2, AppendProperties
      <4>2. Placed(l.next_seq, segments, n - 1)[i] = [seq |-> l.next_seq + i - 1, segment |-> segments[i]]
        BY <1>0, <3>3, PlacedFields
      <4> HIDE DEF s, t
      <4> QED BY <3>1, <4>1, <4>2
    <3>4. i = n \/ i \in 1..(n - 1)
      OBVIOUS
    <3> QED BY <3>2, <3>3, <3>4
  <2> HIDE DEF s, t
  <2>6. s = t
    BY <2>3, <2>4, <2>5, SeqEqual DEF t
  <2> QED BY <2>6 DEF s, t
<1>3. TurnsIn(segments, n) =
        IF segments[n].kind = "Turn" THEN TurnsIn(segments, n - 1) \cup {segments[n].turn}
                                     ELSE TurnsIn(segments, n - 1)
  <2>1. {j \in 1..n : segments[j].kind = "Turn"} =
          {j \in 1..(n - 1) : segments[j].kind = "Turn"} \cup
          (IF segments[n].kind = "Turn" THEN {n} ELSE {})
    OBVIOUS
  <2> DEFINE A == {j \in 1..n : segments[j].kind = "Turn"}
             B == {j \in 1..(n - 1) : segments[j].kind = "Turn"}
  <2> HIDE DEF A, B
  <2>2. CASE segments[n].kind = "Turn"
    <3>1. A = B \cup {n}
      BY <2>1, <2>2 DEF A, B
    <3>2. {segments[i].turn : i \in A} = {segments[i].turn : i \in B} \cup {segments[n].turn}
      BY <3>1
    <3> QED BY <3>2, <2>2 DEF TurnsIn, A, B
  <2>3. CASE segments[n].kind # "Turn"
    <3>1. A = B
      BY <2>1, <2>3 DEF A, B
    <3> QED BY <3>1, <2>3 DEF TurnsIn, A, B
  <2> QED BY <2>2, <2>3
<1>6. /\ g.next_seq = l.next_seq + n - 1 /\ g.next_seq + 1 = l.next_seq + n
      /\ g.pushes + 1 = l.pushes + n
  BY <1>0 DEF Grown
<1>7. append(g, segments[n]) =
             [entries           |-> Append(g.entries, [seq |-> g.next_seq, segment |-> segments[n]]),
              next_seq          |-> g.next_seq + 1,
              generation        |-> l.generation,
              latest_generation |-> l.latest_generation,
              pushes            |-> g.pushes + 1,
              turns             |-> IF segments[n].kind = "Turn" THEN g.turns \cup {segments[n].turn} ELSE g.turns,
              seals             |-> l.seals]
  <2>1. g \in Ledger /\ segments[n] \in Segments
    BY <1>0, GrownType
  <2>2. g.generation = l.generation /\ g.latest_generation = l.latest_generation /\ g.seals = l.seals
    BY DEF Grown
  <2> HIDE DEF g
  <2> QED BY <1>1, <2>1, <2>2, AppendIs
<1>8. Append(g.entries, [seq |-> g.next_seq, segment |-> segments[n]]) = Placed(l.next_seq, segments, n)
  BY <1>2, <1>6 DEF Grown
<1>9. (IF segments[n].kind = "Turn" THEN g.turns \cup {segments[n].turn} ELSE g.turns)
        = l.turns \cup TurnsIn(segments, n)
  <2>1. g.turns = l.turns \cup TurnsIn(segments, n - 1)
    BY DEF Grown
  <2> HIDE DEF g
  <2> QED BY <1>3, <2>1
<1> HIDE DEF g
<1>10. append(g, segments[n]) = Grown(l, segments, n)
  BY <1>6, <1>7, <1>8, <1>9 DEF Grown
<1> QED BY <1>10 DEF g

\* The loop of appends, in closed form.
LEMMA EachIs ==
  ASSUME NEW l \in Ledger, NEW segments \in Seq(Segments), Distinct(segments), l.entries = <<>>
  PROVE  append_each(l, segments) = Grown(l, segments, Len(segments))
<1> DEFINE D == 0..Len(segments)
           step(g) == [n \in D |-> IF n = 0 THEN l ELSE append(g[n - 1], segments[n])]
           f == CHOOSE g : g = step(g)
           h == [n \in D |-> Grown(l, segments, n)]
<1>1. append_each(l, segments) = f[Len(segments)]
  BY DEF append_each
<1>2. Grown(l, segments, 0) = l
  <2>1. Placed(l.next_seq, segments, 0) = l.entries
    <3>1. Placed(l.next_seq, segments, 0) \in Seq(Entry) /\ Len(Placed(l.next_seq, segments, 0)) = 0
      BY PlacedFields, LedgerFields
    <3> QED BY <3>1, EmptySeq
  <2>2. TurnsIn(segments, 0) = {}
    BY DEF TurnsIn
  <2>3. l.next_seq + 0 = l.next_seq /\ l.pushes + 0 = l.pushes
    BY LedgerFields
  <2> QED BY <2>1, <2>2, <2>3 DEF Grown, Ledger
<1>3. h = step(h)
  <2>1. ASSUME NEW n \in D PROVE h[n] = IF n = 0 THEN l ELSE append(h[n - 1], segments[n])
    <3>1. CASE n = 0
      BY <3>1, <1>2
    <3>2. CASE n # 0
      <4>1. n \in 1..Len(segments) /\ n - 1 \in D
        BY <3>2
      <4> QED BY <3>2, <4>1, GrownOnce
    <3> QED BY <3>1, <3>2
  <2> HIDE DEF h
  <2>2. h = [n \in D |-> h[n]]
    BY DEF h
  <2> QED BY <2>1, <2>2
<1>4. f = step(f)
  <2> HIDE DEF h, step
  <2> QED BY <1>3 DEF f
<1>5. \A n \in D : f[n] = h[n]
  <2> DEFINE bad == {n \in D : f[n] # h[n]}
  <2> SUFFICES ASSUME bad # {} PROVE FALSE
    OBVIOUS
  <2>0. bad \in SUBSET Nat
    OBVIOUS
  <2>1. PICK n \in bad : \A m \in bad : n <= m
    <3> HIDE DEF bad
    <3> QED BY <2>0, NatMin
  <2>2. n \in D /\ f[n] # h[n]
    OBVIOUS
  <2> HIDE DEF f, h
  <2>3. CASE n = 0
    BY <1>3, <1>4, <2>2, <2>3
  <2>4. CASE n # 0
    <3>1. n - 1 \in D
      BY <2>2, <2>4
    <3>2. f[n - 1] = h[n - 1]
      BY <3>1, <2>1, <2>2
    <3> QED BY <1>3, <1>4, <2>2, <2>4, <3>2
  <2> QED BY <2>3, <2>4
<1> QED BY <1>1, <1>5

-----------------------------------------------------------------------------
(***************************************************************************)
(* What one ledger may be.                                                 *)
(***************************************************************************)
\* Consecutive positions up to next, each segment once; empty only at the
\* very beginning.
EntriesOK(es, next) ==
  /\ Len(es) <= next
  /\ next > 0 => Len(es) > 0
  /\ \A i \in 1..Len(es) : es[i].seq = next - Len(es) + i - 1
  /\ \A i, j \in 1..Len(es) : es[i].segment.id = es[j].segment.id => i = j

\* A seal h taken after m pushes, where the live entries es are those after n
\* pushes: it ends in the position of the last push before it, and is the hash
\* of es when nothing has been pushed since.
SealFits(h, m, es, n) ==
  /\ m <= n
  /\ m = n => h = prefix_hash(es)
  /\ m = 0 => h = <<>>
  /\ m > 0 => Len(h) > 0 /\ h[Len(h)][1] = m - 1

SealsFit(l) == \A s \in l.seals : SealFits(s.seal.prefix_hash, s.pushes, l.entries, l.pushes)

\* While nothing has been cleared every turn is live.
TurnsLive(l) ==
  l.next_seq = Len(l.entries) =>
    \A t \in l.turns : \E i \in 1..Len(l.entries) :
      l.entries[i].segment.kind = "Turn" /\ l.entries[i].segment.turn = t

LedgerOK(l) ==
  /\ l \in Ledger
  /\ l.pushes = l.next_seq /\ l.next_seq <= MaxPushes
  /\ l.generation >= -1 /\ l.generation <= MaxGenerations
  /\ EntriesOK(l.entries, l.next_seq)
  /\ SealsFit(l) /\ TurnsLive(l)

\* The hash of entries is as long as they are and has their positions.
LEMMA HashFields ==
  ASSUME NEW es \in Seq(Entry)
  PROVE  /\ prefix_hash(es) \in Seq(Nat \X Segments)
         /\ Len(prefix_hash(es)) = Len(es)
         /\ \A i \in 1..Len(es) : prefix_hash(es)[i] = <<es[i].seq, es[i].segment>>
         /\ \A i \in 1..Len(es) : prefix_hash(es)[i][1] = es[i].seq
<1>1. DOMAIN es = 1..Len(es) /\ Len(es) \in Nat
  OBVIOUS
<1>2. ASSUME NEW i \in 1..Len(es) PROVE <<es[i].seq, es[i].segment>> \in Nat \X Segments
  <2>1. es[i] \in Entry
    OBVIOUS
  <2> QED BY <2>1 DEF Entry
<1>3. prefix_hash(es) = [i \in 1..Len(es) |-> <<es[i].seq, es[i].segment>>]
  BY <1>1 DEF prefix_hash
<1> QED BY <1>1, <1>2, <1>3

\* The ids of the entries.
LEMMA IdsType ==
  ASSUME NEW es \in Seq(Entry)
  PROVE  Ids(es) \in Seq(SegmentId)
<1>1. DOMAIN es = 1..Len(es) /\ Len(es) \in Nat
  OBVIOUS
<1>2. ASSUME NEW i \in 1..Len(es) PROVE es[i].segment.id \in SegmentId
  <2>1. es[i] \in Entry
    OBVIOUS
  <2> QED BY <2>1 DEF Entry, SegmentId
<1>3. Ids(es) = [i \in 1..Len(es) |-> es[i].segment.id]
  BY <1>1 DEF Ids
<1> QED BY <1>1, <1>2, <1>3

\* A seal just taken fits.
LEMMA FreshSealFits ==
  ASSUME NEW es \in Seq(Entry), NEW n \in Nat, EntriesOK(es, n)
  PROVE  SealFits(prefix_hash(es), n, es, n)
<1>1. Len(es) \in Nat /\ Len(prefix_hash(es)) = Len(es) /\ prefix_hash(es) \in Seq(Nat \X Segments)
  BY HashFields
<1>2. CASE n = 0
  <2>1. Len(prefix_hash(es)) = 0
    BY <1>1, <1>2 DEF EntriesOK
  <2>2. prefix_hash(es) = <<>>
    BY <1>1, <2>1, EmptySeq
  <2> QED BY <1>2, <2>2 DEF SealFits
<1>3. CASE n > 0
  <2>1. Len(es) > 0 /\ Len(es) \in 1..Len(es)
    BY <1>1, <1>3 DEF EntriesOK
  <2>2. es[Len(es)].seq = n - Len(es) + Len(es) - 1
    BY <2>1 DEF EntriesOK
  <2>3. prefix_hash(es)[Len(es)][1] = es[Len(es)].seq
    BY <2>1, HashFields
  <2>4. n - Len(es) + Len(es) - 1 = n - 1
    BY <1>1
  <2> QED BY <1>1, <1>3, <2>1, <2>2, <2>3, <2>4 DEF SealFits
<1> QED BY <1>2, <1>3

\* What a seal of l adds to it.
LEMMA SealIs ==
  ASSUME NEW l \in Ledger
  PROVE  seal_generation(l) =
           [entries           |-> l.entries,
            next_seq          |-> l.next_seq,
            generation        |-> l.generation + 1,
            latest_generation |-> SealOf(l),
            pushes            |-> l.pushes,
            turns             |-> l.turns,
            seals             |-> l.seals \cup {[seal |-> SealOf(l), pushes |-> l.pushes]}]
<1> DEFINE gs == l.generation + 1
           ss == l.seals \cup {[seal |-> SealOf(l), pushes |-> l.pushes]}
           so == SealOf(l)
<1>1. seal_generation(l) = [l EXCEPT !.generation = gs, !.latest_generation = so, !.seals = ss]
  BY DEF seal_generation, Ledger
<1> HIDE DEF gs, ss, so
<1> DEFINE m == [l EXCEPT !.generation = gs, !.latest_generation = so, !.seals = ss]
<1>2. DOMAIN l = {"entries", "next_seq", "generation", "latest_generation", "pushes", "turns", "seals"}
  BY DEF Ledger
<1>3. /\ m = [f \in DOMAIN l |-> m[f]]
      /\ m.generation = gs /\ m.latest_generation = so /\ m.seals = ss
      /\ m.entries = l.entries /\ m.next_seq = l.next_seq /\ m.pushes = l.pushes
      /\ m.turns = l.turns
  BY <1>2
<1> HIDE DEF m
<1>4. m = [entries |-> l.entries, next_seq |-> l.next_seq, generation |-> gs,
           latest_generation |-> so, pushes |-> l.pushes, turns |-> l.turns, seals |-> ss]
  BY <1>2, <1>3
<1> QED BY <1>1, <1>4 DEF gs, ss, so, m

\* A seal is of its type and carries the hash of the entries.
LEMMA SealType ==
  ASSUME NEW l \in Ledger
  PROVE  SealOf(l) \in Seals /\ SealOf(l).prefix_hash = prefix_hash(l.entries)
  BY LedgerFields, HashFields, IdsType DEF SealOf, Seals

\* seal_generation keeps a ledger sound.
LEMMA SealOK ==
  ASSUME NEW l, LedgerOK(l), l.generation < MaxGenerations
  PROVE  /\ LedgerOK(seal_generation(l))
         /\ seal_generation(l).entries = l.entries
         /\ seal_generation(l).next_seq = l.next_seq
         /\ seal_generation(l).pushes = l.pushes
         /\ seal_generation(l).turns = l.turns
         /\ seal_generation(l).generation = l.generation + 1
<1> DEFINE m == seal_generation(l)
           new == [seal |-> SealOf(l), pushes |-> l.pushes]
<1>1. l \in Ledger
  BY DEF LedgerOK
<1>2. /\ m.entries = l.entries /\ m.next_seq = l.next_seq /\ m.pushes = l.pushes
      /\ m.turns = l.turns /\ m.generation = l.generation + 1
      /\ m.seals = l.seals \cup {new}
  BY <1>1, SealIs
<1>3. m \in Ledger
  <2>1. new \in [seal : Seals, pushes : Nat]
    BY <1>1, SealType, LedgerFields
  <2>2. l.seals \cup {new} \in SUBSET [seal : Seals, pushes : Nat]
    BY <1>1, <2>1, LedgerFields
  <2>3. l.generation + 1 \in Int
    BY <1>1, LedgerFields
  <2>4. SealOf(l) \in Seals
    BY <1>1, SealType
  <2> HIDE DEF new
  <2> QED BY <1>1, <2>2, <2>3, <2>4, SealIs, LedgerFields DEF Ledger, new
<1>4. SealsFit(m)
  <2>1. SealFits(new.seal.prefix_hash, new.pushes, l.entries, l.pushes)
    <3>1. new.seal.prefix_hash = prefix_hash(l.entries) /\ new.pushes = l.pushes
      BY <1>1, SealType
    <3> QED BY <1>1, <3>1, FreshSealFits, LedgerFields DEF LedgerOK
  <2> HIDE DEF new, m
  <2> QED BY <1>2, <2>1 DEF SealsFit, LedgerOK
<1>5. l.generation + 1 >= -1 /\ l.generation + 1 <= MaxGenerations
  BY <1>1, LedgerFields, LedgerAssumption DEF LedgerOK
<1> HIDE DEF new, m
<1>6. TurnsLive(m)
  BY <1>2 DEF TurnsLive, LedgerOK
<1>7. LedgerOK(m)
  BY <1>2, <1>3, <1>4, <1>5, <1>6 DEF LedgerOK
<1> QED BY <1>2, <1>7 DEF m

\* append keeps a ledger sound, and what was live stays live.
LEMMA AppendOK ==
  ASSUME NEW l, LedgerOK(l), NEW s \in Segments, ~Present(l, s.id), l.pushes < MaxPushes
  PROVE  /\ LedgerOK(append(l, s))
         /\ append(l, s).generation = l.generation
         /\ append(l, s).turns = IF s.kind = "Turn" THEN l.turns \cup {s.turn} ELSE l.turns
         /\ Present(append(l, s), s.id)
         /\ \A id : Present(l, id) => Present(append(l, s), id)
<1> DEFINE m == append(l, s)
           e == [seq |-> l.next_seq, segment |-> s]
           N == Len(l.entries)
<1>1. l \in Ledger
  BY DEF LedgerOK
<1>0. /\ l.entries \in Seq(Entry) /\ l.next_seq \in Nat /\ l.pushes \in Nat /\ N \in Nat
      /\ l.turns \in SUBSET TurnIds /\ l.generation \in Int /\ l.pushes = l.next_seq
  BY <1>1, LedgerFields DEF LedgerOK
<1>2. /\ m.entries = Append(l.entries, e) /\ m.next_seq = l.next_seq + 1
      /\ m.pushes = l.pushes + 1 /\ m.generation = l.generation
      /\ m.turns = IF s.kind = "Turn" THEN l.turns \cup {s.turn} ELSE l.turns
      /\ m.seals = l.seals /\ m.latest_generation = l.latest_generation
      /\ m = [entries |-> m.entries, next_seq |-> m.next_seq, generation |-> m.generation,
              latest_generation |-> m.latest_generation, pushes |-> m.pushes,
              turns |-> m.turns, seals |-> m.seals]
  <2>1. m = append(l, s)
    OBVIOUS
  <2> HIDE DEF m
  <2> QED BY <1>1, <2>1, AppendFields
<1>3. e \in Entry
  BY <1>0 DEF Entry
<1>4. /\ m.entries \in Seq(Entry) /\ Len(m.entries) = N + 1
      /\ \A i \in 1..N : m.entries[i] = l.entries[i]
      /\ m.entries[N + 1] = e
  BY <1>0, <1>2, <1>3, AppendProperties
<1>5. m.turns \in SUBSET TurnIds
  BY <1>0, <1>2 DEF TurnIds, TurnSegments
<1>6. m \in Ledger
  <2>2. l.latest_generation \in Seals /\ l.seals \in SUBSET [seal : Seals, pushes : Nat]
    BY <1>1, LedgerFields
  <2>3. m.next_seq \in Nat /\ m.pushes \in Nat /\ m.generation \in Int
    BY <1>0, <1>2
  <2>4. m.latest_generation \in Seals /\ m.seals \in SUBSET [seal : Seals, pushes : Nat]
    BY <1>2, <2>2
  <2> HIDE DEF m
  <2> QED BY <1>2, <1>4, <1>5, <2>3, <2>4 DEF Ledger
<1> HIDE DEF m
<1>7. EntriesOK(m.entries, m.next_seq)
  <2>1. EntriesOK(l.entries, l.next_seq)
    BY DEF LedgerOK
  <2>2. Len(m.entries) <= m.next_seq /\ Len(m.entries) > 0
    BY <1>0, <1>2, <1>4, <2>1 DEF EntriesOK
  <2>3. ASSUME NEW i \in 1..Len(m.entries)
        PROVE  m.entries[i].seq = m.next_seq - Len(m.entries) + i - 1
    <3>0. m.next_seq - Len(m.entries) + i - 1 = l.next_seq - N + i - 1
      <4>1. m.next_seq = l.next_seq + 1 /\ Len(m.entries) = N + 1 /\ i \in Nat
        BY <1>0, <1>2, <1>4
      <4> DEFINE a == l.next_seq
                 b == N
      <4>2. a \in Nat /\ b \in Nat
        BY <1>0
      <4> HIDE DEF N, a, b
      <4>3. (a + 1) - (b + 1) + i - 1 = a - b + i - 1
        BY <4>1, <4>2
      <4> QED BY <4>1, <4>3 DEF a, b
    <3>1. CASE i \in 1..N
      <4>1. m.entries[i].seq = l.next_seq - N + i - 1
        BY <1>4, <2>1, <3>1 DEF EntriesOK
      <4> QED BY <3>0, <4>1
    <3>2. CASE i = N + 1
      <4>1. m.entries[i].seq = l.next_seq
        BY <1>4, <3>2
      <4>2. l.next_seq - N + (N + 1) - 1 = l.next_seq
        BY <1>0
      <4> QED BY <3>0, <3>2, <4>1, <4>2
    <3> QED BY <1>0, <1>4, <3>1, <3>2
  <2>4. ASSUME NEW i \in 1..Len(m.entries), NEW j \in 1..Len(m.entries),
               m.entries[i].segment.id = m.entries[j].segment.id
        PROVE  i = j
    <3>1. m.entries[N + 1].segment.id = s.id
      BY <1>4
    <3>2. \A n \in 1..N : m.entries[n].segment.id # s.id
      BY <1>0, <1>4 DEF Present
    <3>3. CASE i \in 1..N /\ j \in 1..N
      BY <1>4, <2>1, <2>4, <3>3 DEF EntriesOK
    <3>4. CASE i = N + 1 \/ j = N + 1
      BY <1>0, <1>4, <2>4, <3>1, <3>2, <3>4
    <3> QED BY <1>0, <1>4, <3>3, <3>4
  <2> QED BY <2>2, <2>3, <2>4 DEF EntriesOK
<1>8. SealsFit(m)
  <2> SUFFICES ASSUME NEW x \in m.seals
               PROVE  SealFits(x.seal.prefix_hash, x.pushes, m.entries, m.pushes)
    BY DEF SealsFit
  <2>1. SealFits(x.seal.prefix_hash, x.pushes, l.entries, l.pushes) /\ x.pushes \in Nat
    BY <1>1, <1>2, LedgerFields DEF LedgerOK, SealsFit
  <2>2. x.pushes <= m.pushes /\ x.pushes # m.pushes
    BY <1>0, <1>2, <2>1 DEF SealFits
  <2> QED BY <2>1, <2>2 DEF SealFits
<1>9. \A id : Present(l, id) => Present(m, id)
  <2> SUFFICES ASSUME NEW id, Present(l, id) PROVE Present(m, id)
    OBVIOUS
  <2>1. PICK i \in 1..N : l.entries[i].segment.id = id
    BY <1>0 DEF Present
  <2>2. i \in DOMAIN m.entries /\ m.entries[i].segment.id = id
    BY <1>0, <1>4, <2>1
  <2> QED BY <2>2 DEF Present
<1>10. Present(m, s.id)
  <2>1. N + 1 \in DOMAIN m.entries /\ m.entries[N + 1].segment.id = s.id
    BY <1>0, <1>4
  <2> QED BY <2>1 DEF Present
<1>11. TurnsLive(m)
  <2> SUFFICES ASSUME m.next_seq = Len(m.entries), NEW t \in m.turns
               PROVE  \E i \in 1..Len(m.entries) :
                        m.entries[i].segment.kind = "Turn" /\ m.entries[i].segment.turn = t
    BY DEF TurnsLive
  <2>1. CASE t \in l.turns
    <3>1. l.next_seq = N
      BY <1>0, <1>2, <1>4
    <3>2. PICK i \in 1..N : l.entries[i].segment.kind = "Turn" /\ l.entries[i].segment.turn = t
      BY <2>1, <3>1 DEF LedgerOK, TurnsLive
    <3>3. i \in 1..Len(m.entries) /\ m.entries[i] = l.entries[i]
      BY <1>0, <1>4
    <3> QED BY <3>2, <3>3
  <2>2. CASE t \notin l.turns
    <3>1. s.kind = "Turn" /\ t = s.turn
      BY <1>2, <2>2
    <3>2. N + 1 \in 1..Len(m.entries) /\ m.entries[N + 1].segment = s
      BY <1>0, <1>4
    <3> QED BY <3>1, <3>2
  <2> QED BY <2>1, <2>2
<1>12. m.pushes = m.next_seq /\ m.next_seq <= MaxPushes
  BY <1>0, <1>2, LedgerAssumption
<1>13. LedgerOK(m)
  BY <1>2, <1>6, <1>7, <1>8, <1>11, <1>12 DEF LedgerOK
<1> QED BY <1>2, <1>9, <1>10, <1>13 DEF m

\* Clearing: the only field that changes is the entries.
LEMMA ClearIs ==
  ASSUME NEW l \in Ledger
  PROVE  /\ clear_for_rewrite(l) \in Ledger
         /\ clear_for_rewrite(l).entries = <<>>
         /\ clear_for_rewrite(l).next_seq = l.next_seq
         /\ clear_for_rewrite(l).pushes = l.pushes
         /\ clear_for_rewrite(l).turns = l.turns
         /\ clear_for_rewrite(l).generation = l.generation
         /\ clear_for_rewrite(l).seals = l.seals
<1>1. <<>> \in Seq(Entry)
  OBVIOUS
<1>2. clear_for_rewrite(l) = [l EXCEPT !.entries = <<>>]
  BY DEF clear_for_rewrite
<1> QED BY <1>1, <1>2 DEF Ledger

\* Seal, clear, append afresh and seal again, keeps a ledger sound.
LEMMA RegenerateOK ==
  ASSUME NEW l, LedgerOK(l), NEW next \in Seq(Segments), Distinct(next),
         l.generation + 1 < MaxGenerations, l.pushes + Len(next) <= MaxPushes,
         Len(next) = 0 => Len(l.entries) = 0
  PROVE  /\ LedgerOK(Regenerate(l, next))
         /\ Regenerate(l, next).entries = Placed(l.next_seq, next, Len(next))
         /\ Regenerate(l, next).turns = l.turns \cup TurnsIn(next, Len(next))
         /\ Regenerate(l, next).generation = l.generation + 2
<1> DEFINE sealed == seal_generation(l)
           clear  == clear_for_rewrite(sealed)
           n      == Len(next)
           grown  == Grown(clear, next, n)
<1>0. /\ l \in Ledger /\ l.next_seq \in Nat /\ l.pushes \in Nat /\ l.generation \in Int
      /\ l.pushes = l.next_seq /\ l.entries \in Seq(Entry) /\ Len(l.entries) \in Nat
      /\ n \in Nat /\ EntriesOK(l.entries, l.next_seq) /\ l.generation >= -1
  BY LedgerFields DEF LedgerOK
<1>1. l.generation < MaxGenerations
  BY <1>0, LedgerAssumption
<1>2. /\ LedgerOK(sealed) /\ sealed.entries = l.entries /\ sealed.next_seq = l.next_seq
      /\ sealed.pushes = l.pushes /\ sealed.turns = l.turns
      /\ sealed.generation = l.generation + 1
  BY <1>1, SealOK
<1> HIDE DEF sealed
<1>3. /\ clear \in Ledger /\ clear.entries = <<>> /\ clear.next_seq = l.next_seq
      /\ clear.pushes = l.pushes /\ clear.turns = l.turns
      /\ clear.generation = l.generation + 1 /\ clear.seals = sealed.seals
  BY <1>2, ClearIs DEF LedgerOK
<1> HIDE DEF clear
<1>4. append_each(clear, next) = grown
  BY <1>3, EachIs
<1>5. /\ grown.entries = Placed(l.next_seq, next, n) /\ grown.next_seq = l.next_seq + n
      /\ grown.pushes = l.pushes + n /\ grown.turns = l.turns \cup TurnsIn(next, n)
      /\ grown.generation = l.generation + 1 /\ grown.seals = sealed.seals
  BY <1>3 DEF Grown
<1>6. grown \in Ledger
  BY <1>0, <1>3, GrownType
<1> HIDE DEF grown
<1>7. /\ grown.entries \in Seq(Entry) /\ Len(grown.entries) = n
      /\ \A i \in 1..n : /\ grown.entries[i].seq = l.next_seq + i - 1
                         /\ grown.entries[i].segment = next[i]
  <2>1. n \in 0..Len(next)
    BY <1>0
  <2>2. /\ Placed(l.next_seq, next, n) \in Seq(Entry)
        /\ Len(Placed(l.next_seq, next, n)) = n
        /\ \A i \in 1..n : /\ Placed(l.next_seq, next, n)[i].seq = l.next_seq + i - 1
                           /\ Placed(l.next_seq, next, n)[i].segment = next[i]
    BY <1>0, <2>1, PlacedFields
  <2> HIDE DEF n
  <2> QED BY <1>5, <2>2
<1>8. EntriesOK(grown.entries, grown.next_seq)
  <2>1. n <= l.next_seq + n
    BY <1>0
  <2>2. l.next_seq + n > 0 => n > 0
    BY <1>0 DEF EntriesOK
  <2>3. \A i \in 1..n : l.next_seq + i - 1 = l.next_seq + n - n + i - 1
    BY <1>0
  <2>4. \A i, j \in 1..n : next[i].id = next[j].id => i = j
    BY DEF Distinct
  <2> HIDE DEF n
  <2>5. Len(grown.entries) <= grown.next_seq
    BY <1>5, <1>7, <2>1
  <2>6. grown.next_seq > 0 => Len(grown.entries) > 0
    BY <1>5, <1>7, <2>2
  <2>7. \A i \in 1..Len(grown.entries) :
          grown.entries[i].seq = grown.next_seq - Len(grown.entries) + i - 1
    <3> SUFFICES ASSUME NEW i \in 1..n
                 PROVE  grown.entries[i].seq = grown.next_seq - n + i - 1
      BY <1>7
    <3>1. grown.next_seq - n + i - 1 = l.next_seq + i - 1
      BY <1>0, <1>5
    <3> QED BY <1>7, <3>1
  <2>8. \A i, j \in 1..Len(grown.entries) :
          grown.entries[i].segment.id = grown.entries[j].segment.id => i = j
    BY <1>7, <2>4
  <2> QED BY <2>5, <2>6, <2>7, <2>8 DEF EntriesOK
<1>9. SealsFit(grown)
  <2> SUFFICES ASSUME NEW x \in sealed.seals
               PROVE  SealFits(x.seal.prefix_hash, x.pushes, grown.entries, grown.pushes)
    BY <1>5 DEF SealsFit
  <2>1. SealFits(x.seal.prefix_hash, x.pushes, l.entries, l.pushes)
    BY <1>2 DEF LedgerOK, SealsFit
  <2>2. x.pushes \in Nat
    BY <1>2, LedgerFields DEF LedgerOK
  <2>3. x.pushes <= grown.pushes
    BY <1>0, <1>5, <2>1, <2>2 DEF SealFits
  <2>4. CASE n = 0
    <3>1. l.entries = <<>> /\ grown.entries = <<>>
      BY <1>0, <1>7, <2>4, EmptySeq
    <3>2. grown.pushes = l.pushes
      BY <1>0, <1>5, <2>4
    <3> QED BY <2>1, <3>1, <3>2
  <2>5. CASE n > 0
    <3>1. x.pushes # grown.pushes
      BY <1>0, <1>5, <2>1, <2>2, <2>5 DEF SealFits
    <3> QED BY <2>1, <2>3, <3>1 DEF SealFits
  <2> QED BY <1>0, <2>4, <2>5
<1>10. TurnsLive(grown)
  <2> SUFFICES ASSUME grown.next_seq = Len(grown.entries), NEW t \in grown.turns
               PROVE  \E i \in 1..Len(grown.entries) :
                        /\ grown.entries[i].segment.kind = "Turn"
                        /\ grown.entries[i].segment.turn = t
    BY DEF TurnsLive
  <2>1. l.next_seq = 0
    BY <1>0, <1>5, <1>7
  <2>2. Len(l.entries) = 0
    BY <1>0, <2>1 DEF EntriesOK
  <2>3. t \notin l.turns
    BY <2>1, <2>2 DEF LedgerOK, TurnsLive
  <2>4. PICK i \in 1..n : next[i].kind = "Turn" /\ next[i].turn = t
    BY <1>5, <2>3 DEF TurnsIn
  <2> QED BY <1>7, <2>4
<1>11. /\ grown.pushes = grown.next_seq /\ grown.next_seq <= MaxPushes
       /\ grown.generation >= -1 /\ grown.generation < MaxGenerations
       /\ grown.generation <= MaxGenerations
  BY <1>0, <1>5, LedgerAssumption
<1>12. LedgerOK(grown)
  BY <1>6, <1>8, <1>9, <1>10, <1>11 DEF LedgerOK
<1>13. Regenerate(l, next) = seal_generation(grown)
  BY <1>4 DEF Regenerate, clear, sealed
<1>14. grown.generation + 1 = l.generation + 2
  BY <1>0, <1>5
<1> QED BY <1>5, <1>11, <1>12, <1>13, <1>14, SealOK

\* A new ledger is sound, and so is the mark of none.
LEMMA FreshOK == LedgerOK(NewLedger) /\ LedgerOK(NoLedger)
<1>1. NoSeal \in Seals
  BY DEF NoSeal, Seals
<1>2. /\ NewLedger.entries = <<>> /\ NewLedger.next_seq = 0 /\ NewLedger.pushes = 0
      /\ NewLedger.generation = 0 /\ NewLedger.turns = {} /\ NewLedger.seals = {}
  BY DEF NewLedger
<1>3. /\ NoLedger.entries = <<>> /\ NoLedger.next_seq = 0 /\ NoLedger.pushes = 0
      /\ NoLedger.generation = -1 /\ NoLedger.turns = {} /\ NoLedger.seals = {}
  BY DEF NewLedger, NoLedger
<1>4. NewLedger \in Ledger
  BY <1>1 DEF NewLedger, Ledger
<1>5. NoLedger \in Ledger
  BY <1>4 DEF NoLedger, Ledger
<1>6. EntriesOK(<<>>, 0)
  BY DEF EntriesOK
<1>7. 0 <= MaxPushes /\ 0 <= MaxGenerations /\ -1 <= MaxGenerations /\ 0 >= -1 /\ -1 >= -1
  BY LedgerAssumption
<1>8. TurnsLive(NewLedger) /\ TurnsLive(NoLedger) /\ SealsFit(NewLedger) /\ SealsFit(NoLedger)
  BY <1>2, <1>3 DEF TurnsLive, SealsFit
<1> QED BY <1>2, <1>3, <1>4, <1>5, <1>6, <1>7, <1>8 DEF LedgerOK

-----------------------------------------------------------------------------
(***************************************************************************)
(* The invariant of the conversation.                                      *)
(***************************************************************************)
Bodies == {plan_eviction(s) : s \in TurnSegments} \cup {<<>>, <<"damaged">>}

Rows == [stored : BOOLEAN, hash : Bodies, body : Bodies, acked : BOOLEAN, late : BOOLEAN]

\* The row of a turn has the digest of its eviction, and one that has been
\* acknowledged is whole or was damaged since.
RowOK(s, row) ==
  /\ row.stored => row.hash = plan_eviction(s)
  /\ row.acked => row.stored /\ (row.body = row.hash \/ row.late)

RowsOK ==
  /\ evicted \in [TurnIds -> Rows]
  /\ \A s \in TurnSegments : RowOK(s, evicted[s.turn])

\* Every turn of a conversation is live or its eviction acknowledged.
Covered(l, table) ==
  \A s \in TurnSegments : s.turn \in l.turns => Present(l, s.id) \/ table[s.turn].acked

\* The inductive invariant.
LedgerInv ==
  /\ LedgerOK(ledger) /\ LedgerOK(saved)
  /\ RowsOK
  /\ Up => Covered(ledger, evicted)

\* The conversation starts in order.
LEMMA LedgerInitOK == Init => LedgerInv
<1> SUFFICES ASSUME Init PROVE LedgerInv
  OBVIOUS
<1>1. <<>> \in Bodies
  BY DEF Bodies
<1>2. NoRow \in Rows /\ NoRow.stored = FALSE /\ NoRow.acked = FALSE
  BY <1>1 DEF NoRow, Row, Rows
<1>3. RowsOK
  <2>1. evicted \in [TurnIds -> Rows]
    BY <1>2 DEF Init
  <2>2. ASSUME NEW s \in TurnSegments PROVE RowOK(s, evicted[s.turn])
    <3>1. evicted[s.turn] = NoRow
      BY DEF Init, TurnIds
    <3> QED BY <1>2, <3>1 DEF RowOK
  <2> QED BY <2>1, <2>2 DEF RowsOK
<1>4. Covered(ledger, evicted)
  <2>1. ledger.turns = {}
    BY DEF Init, NewLedger
  <2> QED BY <2>1 DEF Covered
<1> QED BY <1>3, <1>4, FreshOK DEF Init, LedgerInv

\* The same turn is the same segment.
LEMMA SameTurn ==
  ASSUME NEW r \in TurnSegments, NEW s \in Segments, s.kind = "Turn", r.turn = s.turn
  PROVE  r = s
  BY LedgerAssumption DEF TurnSegments

\* Appending keeps the invariant: a new turn is live.
LEMMA AppendKeeps ==
  ASSUME LedgerInv, NEW s \in Segments, Append1(s)
  PROVE  LedgerInv'
<1>1. /\ LedgerOK(ledger) /\ ~Present(ledger, s.id) /\ ledger.pushes < MaxPushes
      /\ ledger' = append(ledger, s) /\ saved' = saved /\ evicted' = evicted
      /\ Covered(ledger, evicted)
  BY DEF LedgerInv, Append1
<1>2. /\ LedgerOK(ledger')
      /\ ledger'.turns = IF s.kind = "Turn" THEN ledger.turns \cup {s.turn} ELSE ledger.turns
      /\ Present(ledger', s.id) /\ \A id : Present(ledger, id) => Present(ledger', id)
  BY <1>1, AppendOK
<1>3. ASSUME NEW r \in TurnSegments, r.turn \in ledger'.turns
      PROVE  Present(ledger', r.id) \/ evicted[r.turn].acked
  <2>1. CASE r.turn \in ledger.turns
    BY <1>1, <1>2, <2>1 DEF Covered
  <2>2. CASE r.turn \notin ledger.turns
    <3>1. s.kind = "Turn" /\ r.turn = s.turn
      BY <1>2, <1>3, <2>2
    <3> QED BY <1>2, <3>1, SameTurn
  <2> QED BY <2>1, <2>2
<1>4. Covered(ledger', evicted')
  BY <1>1, <1>3 DEF Covered
<1>5. RowsOK' /\ LedgerOK(saved')
  BY <1>1 DEF LedgerInv, RowsOK
<1> QED BY <1>2, <1>4, <1>5 DEF LedgerInv

\* Sealing keeps the invariant: the entries do not move.
LEMMA SealKeeps ==
  ASSUME LedgerInv, Seal
  PROVE  LedgerInv'
<1>1. /\ LedgerOK(ledger) /\ ledger.generation < MaxGenerations
      /\ ledger' = seal_generation(ledger) /\ saved' = saved /\ evicted' = evicted
      /\ Covered(ledger, evicted)
  BY DEF LedgerInv, Seal
<1>2. LedgerOK(ledger') /\ ledger'.entries = ledger.entries /\ ledger'.turns = ledger.turns
  BY <1>1, SealOK
<1>3. Covered(ledger', evicted')
  BY <1>1, <1>2 DEF Covered, Present
<1>4. RowsOK' /\ LedgerOK(saved')
  BY <1>1 DEF LedgerInv, RowsOK
<1> QED BY <1>2, <1>3, <1>4 DEF LedgerInv

\* A new generation covers the turns if what it leaves out is acknowledged.
LEMMA RegenerateKeeps ==
  ASSUME LedgerInv, Up, NEW next \in Seq(Segments), Distinct(next),
         ledger.generation + 1 < MaxGenerations, ledger.pushes + Len(next) <= MaxPushes,
         Len(next) = 0 => Len(ledger.entries) = 0,
         \A r \in TurnSegments : Present(ledger, r.id) =>
           evicted[r.turn].acked \/ \E i \in 1..Len(next) : next[i] = r,
         ledger' = Regenerate(ledger, next), saved' = saved, evicted' = evicted
  PROVE  LedgerInv'
<1>1. LedgerOK(ledger) /\ Covered(ledger, evicted)
  BY DEF LedgerInv
<1>2. /\ LedgerOK(ledger')
      /\ ledger'.entries = Placed(ledger.next_seq, next, Len(next))
      /\ ledger'.turns = ledger.turns \cup TurnsIn(next, Len(next))
  BY <1>1, RegenerateOK
<1>3. ASSUME NEW i \in 1..Len(next) PROVE Present(ledger', next[i].id)
  <2>1. ledger.next_seq \in Nat /\ Len(next) \in 0..Len(next)
    BY <1>1, LedgerFields DEF LedgerOK
  <2> DEFINE es == Placed(ledger.next_seq, next, Len(next))
  <2>2. es \in Seq(Entry) /\ Len(es) = Len(next) /\ es[i].segment = next[i]
    BY <2>1, PlacedFields
  <2>3. ledger'.entries = es
    BY <1>2
  <2> HIDE DEF es
  <2>4. i \in DOMAIN es
    BY <2>2
  <2> QED BY <2>2, <2>3, <2>4 DEF Present
<1>4. ASSUME NEW r \in TurnSegments, r.turn \in ledger'.turns
      PROVE  Present(ledger', r.id) \/ evicted[r.turn].acked
  <2>1. CASE r.turn \in ledger.turns
    <3>1. CASE Present(ledger, r.id)
      BY <1>3, <3>1
    <3> QED BY <1>1, <2>1, <3>1 DEF Covered
  <2>2. CASE r.turn \in TurnsIn(next, Len(next))
    <3>1. PICK i \in 1..Len(next) : next[i].kind = "Turn" /\ next[i].turn = r.turn
      BY <2>2 DEF TurnsIn
    <3>2. r = next[i]
      BY <3>1, SameTurn
    <3> QED BY <1>3, <3>2
  <2> QED BY <1>2, <1>4, <2>1, <2>2
<1>5. Covered(ledger', evicted')
  BY <1>4 DEF Covered
<1>6. RowsOK' /\ LedgerOK(saved')
  BY DEF LedgerInv, RowsOK
<1> QED BY <1>2, <1>5, <1>6 DEF LedgerInv

\* A rewrite keeps the invariant: it re-appends what was live.
LEMMA rewriteKeeps ==
  ASSUME LedgerInv, rewrite
  PROVE  LedgerInv'
<1> DEFINE next == Contents(ledger)
<1>1. /\ LedgerOK(ledger) /\ ledger \in Ledger /\ Up /\ ledger.generation + 1 < MaxGenerations
      /\ ledger.pushes + Len(ledger.entries) <= MaxPushes
      /\ ledger' = Regenerate(ledger, next) /\ saved' = saved /\ evicted' = evicted
  BY DEF LedgerInv, rewrite, LedgerOK
<1>2. /\ ledger.entries \in Seq(Entry) /\ DOMAIN ledger.entries = 1..Len(ledger.entries)
      /\ Len(ledger.entries) \in Nat
      /\ \A i \in 1..Len(ledger.entries) : ledger.entries[i].segment \in Segments
  BY <1>1, LedgerFields
<1>3. /\ next \in Seq(Segments) /\ Len(next) = Len(ledger.entries)
      /\ \A i \in 1..Len(next) : next[i] = ledger.entries[i].segment
  BY <1>2 DEF Contents
<1>4. Distinct(next)
  BY <1>1, <1>3 DEF LedgerOK, EntriesOK, Distinct
<1>5. ASSUME NEW r \in TurnSegments, Present(ledger, r.id)
      PROVE  \E i \in 1..Len(next) : next[i] = r
  <2>1. PICK i \in 1..Len(next) : next[i].id = r.id
    BY <1>2, <1>3, <1>5 DEF Present
  <2>2. next[i] = r
    BY <1>3, <2>1, LedgerAssumption DEF TurnSegments
  <2> QED BY <2>2
<1> HIDE DEF next
<1> QED BY <1>1, <1>3, <1>4, <1>5, RegenerateKeeps

\* What the caller of a compaction puts together.
LEMMA CompactionIs ==
  ASSUME NEW l \in Ledger, NEW turn, NEW index \in Segments, NEW next \in Compactions(l, turn, index)
  PROVE  /\ next \in Seq(Segments) /\ Len(next) > 0 /\ Distinct(next)
         /\ \A x \in Kept(l, turn, index) : \E i \in 1..Len(next) : next[i] = x
<1> DEFINE live == {l.entries[i].segment : i \in DOMAIN l.entries}
           K == Kept(l, turn, index)
           c == Cardinality(K)
<1>1. /\ DOMAIN l.entries = 1..Len(l.entries) /\ Len(l.entries) \in Nat
      /\ \A i \in 1..Len(l.entries) : l.entries[i].segment \in Segments
  BY LedgerFields
<1>2. IsFiniteSet(live)
  <2> DEFINE f == [i \in 1..Len(l.entries) |-> l.entries[i].segment]
  <2>1. f \in Surjection(1..Len(l.entries), live)
    BY <1>1 DEF Surjection
  <2>2. ExistsSurjection(1..Len(l.entries), live)
    BY <2>1 DEF ExistsSurjection
  <2> QED BY <1>1, <2>2, FS_NatSurjection
<1>3. IsFiniteSet(K) /\ K \in SUBSET Segments /\ K # {}
  <2>1. IsFiniteSet(live \ {turn})
    BY <1>2, FS_RemoveElement
  <2>2. IsFiniteSet((live \ {turn}) \cup {index})
    BY <2>1, FS_AddElement
  <2> QED BY <1>1, <2>2 DEF Kept
<1> HIDE DEF K
<1>4. c \in Nat /\ c # 0
  BY <1>3, FS_CardinalityType, FS_EmptySet
<1>5. next \in [1..c -> K] /\ \A i, j \in 1..c : i # j => next[i] # next[j]
  BY DEF Compactions, SetToSeqs, K
<1> HIDE DEF c
<1>6. next \in Seq(Segments) /\ Len(next) = c
  BY <1>3, <1>4, <1>5
<1>7. Distinct(next)
  BY <1>5, <1>6, LedgerAssumption DEF Distinct
<1>8. next \in Injection(1..c, K)
  BY <1>5 DEF Injection, IsInjective
<1>9. Cardinality(1..c) = Cardinality(K)
  <2>1. Cardinality(1..c) = c
    BY <1>4, FS_Interval
  <2> QED BY <2>1 DEF c
<1>10. next \in Surjection(1..c, K)
  BY <1>3, <1>8, <1>9, FS_Injection
<1>11. \A x \in K : \E i \in 1..Len(next) : next[i] = x
  BY <1>6, <1>10 DEF Surjection
<1> QED BY <1>4, <1>6, <1>7, <1>11 DEF K

\* A compaction keeps the invariant: the turn it leaves out is acknowledged.
LEMMA CompactKeeps ==
  ASSUME LedgerInv, NEW turn \in Segments, NEW index \in Segments, Compact(turn, index)
  PROVE  LedgerInv'
<1>1. /\ ledger \in Ledger /\ Up /\ turn \in TurnSegments /\ evicted[turn.turn].acked
      /\ ledger.generation + 1 < MaxGenerations /\ saved' = saved /\ evicted' = evicted
  BY DEF LedgerInv, LedgerOK, Compact
<1>2. PICK next \in Compactions(ledger, turn, index) :
        ledger.pushes + Len(next) <= MaxPushes /\ ledger' = Regenerate(ledger, next)
  BY DEF Compact
<1>3. /\ next \in Seq(Segments) /\ Len(next) > 0 /\ Distinct(next)
      /\ \A x \in Kept(ledger, turn, index) : \E i \in 1..Len(next) : next[i] = x
  BY <1>1, <1>2, CompactionIs
<1>4. ASSUME NEW r \in TurnSegments, Present(ledger, r.id)
      PROVE  evicted[r.turn].acked \/ \E i \in 1..Len(next) : next[i] = r
  <2>1. PICK i \in 1..Len(ledger.entries) : ledger.entries[i].segment.id = r.id
    BY <1>1, <1>4, LedgerFields DEF Present
  <2>2. ledger.entries[i].segment = r /\ i \in DOMAIN ledger.entries
    <3>1. ledger.entries \in Seq(Entry) /\ ledger.entries[i].segment \in Segments
      BY <1>1, LedgerFields
    <3>2. r \in Segments
      BY DEF TurnSegments
    <3>3. ledger.entries[i].segment = r
      BY <2>1, <3>1, <3>2, LedgerAssumption
    <3>4. i \in DOMAIN ledger.entries
      BY <3>1
    <3> QED BY <3>3, <3>4
  <2>3. CASE r = turn
    BY <1>1, <2>3
  <2>4. CASE r # turn
    <3>1. r \in Kept(ledger, turn, index)
      BY <2>2, <2>4 DEF Kept
    <3> QED BY <1>3, <3>1
  <2> QED BY <2>3, <2>4
<1>5. ~(Len(next) = 0)
  BY <1>3
<1> QED BY <1>1, <1>2, <1>3, <1>4, <1>5, RegenerateKeeps

\* One row is replaced by another that is in order.
LEMMA RowReplaced ==
  ASSUME RowsOK, NEW t \in TurnIds, NEW row \in Rows,
         \A s \in TurnSegments : s.turn = t => RowOK(s, row),
         evicted' = [evicted EXCEPT ![t] = row]
  PROVE  /\ RowsOK' /\ evicted'[t] = row
         /\ \A u \in TurnIds \ {t} : evicted'[u] = evicted[u]
<1>1. evicted \in [TurnIds -> Rows]
  BY DEF RowsOK
<1>2. /\ evicted' \in [TurnIds -> Rows] /\ evicted'[t] = row
      /\ \A u \in TurnIds \ {t} : evicted'[u] = evicted[u]
  BY <1>1
<1>3. ASSUME NEW s \in TurnSegments PROVE RowOK(s, evicted'[s.turn])
  <2>1. s.turn \in TurnIds
    BY DEF TurnIds
  <2>2. CASE s.turn = t
    BY <1>2, <2>2
  <2>3. CASE s.turn # t
    <3>1. evicted'[s.turn] = evicted[s.turn]
      BY <1>2, <2>1, <2>3
    <3> QED BY <3>1 DEF RowsOK
  <2> QED BY <2>2, <2>3
<1> QED BY <1>2, <1>3 DEF RowsOK

\* The fields of a row.
LEMMA RowFields ==
  ASSUME RowsOK, NEW s \in TurnSegments
  PROVE  /\ s.turn \in TurnIds /\ evicted[s.turn] \in Rows /\ RowOK(s, evicted[s.turn])
         /\ evicted[s.turn].stored \in BOOLEAN /\ evicted[s.turn].acked \in BOOLEAN
         /\ evicted[s.turn].late \in BOOLEAN
         /\ evicted[s.turn].hash \in Bodies /\ evicted[s.turn].body \in Bodies
<1>1. s.turn \in TurnIds /\ RowOK(s, evicted[s.turn])
  BY DEF TurnIds, RowsOK
<1>2. evicted[s.turn] \in Rows
  BY <1>1 DEF RowsOK
<1> QED BY <1>1, <1>2 DEF Rows

\* An eviction keeps the invariant: what is acknowledged is whole.
LEMMA EvictKeeps ==
  ASSUME LedgerInv, NEW s \in Segments, evict_turn(s)
  PROVE  LedgerInv'
<1> DEFINE body == plan_eviction(s)
           old  == evicted[s.turn]
           row  == Acknowledged(s.turn, body)
<1>1. /\ s \in TurnSegments /\ RowsOK /\ LedgerOK(ledger) /\ LedgerOK(saved)
      /\ Covered(ledger, evicted) /\ Evictable(s.turn, body)
      /\ evicted' = [evicted EXCEPT ![s.turn] = row] /\ ledger' = ledger /\ saved' = saved
  BY DEF LedgerInv, evict_turn
<1>2. s.turn \in TurnIds /\ old \in Rows /\ RowOK(s, old)
  BY <1>1, RowFields
<1>3. body \in Bodies
  BY <1>1 DEF Bodies
<1>4. row \in Rows /\ RowOK(s, row) /\ row.acked
  <2> HIDE DEF body
  <2>1. CASE ~old.stored
    <3>1. row = Row(body)
      BY <2>1 DEF Acknowledged, Stored
    <3>2. Row(body) \in Rows
      BY <1>3 DEF Row, Rows
    <3>3. Row(body).stored /\ Row(body).acked /\ Row(body).hash = body /\ Row(body).body = body
      BY DEF Row
    <3> QED BY <3>1, <3>2, <3>3 DEF RowOK, body
  <2>2. CASE old.stored
    <3>1. row = [old EXCEPT !.acked = TRUE]
      BY <2>2 DEF Acknowledged, Stored
    <3>2. old.hash = body /\ old.body = old.hash
      BY <1>1, <2>2 DEF Evictable, Stored, Intact
    <3> HIDE DEF old, row
    <3>3. row \in Rows /\ row.stored = old.stored /\ row.hash = old.hash /\ row.body = old.body
      BY <1>2, <3>1 DEF Rows
    <3>4. row.acked = TRUE
      BY <1>2, <3>1 DEF Rows
    <3> QED BY <2>2, <3>2, <3>3, <3>4 DEF RowOK, body
  <2> QED BY <2>1, <2>2
<1> HIDE DEF row
<1>5. \A r \in TurnSegments : r.turn = s.turn => RowOK(r, row)
  BY <1>1, <1>4, SameTurn DEF TurnSegments
<1>6. /\ RowsOK' /\ evicted'[s.turn] = row
      /\ \A u \in TurnIds \ {s.turn} : evicted'[u] = evicted[u]
  BY <1>1, <1>2, <1>4, <1>5, RowReplaced
<1>7. ASSUME NEW r \in TurnSegments, evicted[r.turn].acked
      PROVE  evicted'[r.turn].acked
  <2>1. r.turn \in TurnIds
    BY DEF TurnIds
  <2>2. CASE r.turn = s.turn
    BY <1>4, <1>6, <2>2
  <2>3. CASE r.turn # s.turn
    BY <1>6, <1>7, <2>1, <2>3
  <2> QED BY <2>2, <2>3
<1>8. Covered(ledger', evicted')
  BY <1>1, <1>7 DEF Covered
<1> QED BY <1>1, <1>6, <1>8 DEF LedgerInv

\* Damage keeps the invariant: it is late where the row was acknowledged.
LEMMA DamageKeeps ==
  ASSUME LedgerInv, NEW t \in TurnIds, Damage(t)
  PROVE  LedgerInv'
<1> DEFINE old == evicted[t]
           row == [old EXCEPT !.body = <<"damaged">>, !.late = old.acked]
<1>1. /\ RowsOK /\ LedgerOK(ledger) /\ LedgerOK(saved)
      /\ Up => Covered(ledger, evicted)
      /\ ledger' = ledger /\ saved' = saved /\ old.stored
  BY DEF LedgerInv, Damage, Stored
<1>2. PICK s \in TurnSegments : s.turn = t
  BY DEF TurnIds
<1>3. /\ old \in Rows /\ RowOK(s, old) /\ old.acked \in BOOLEAN
      /\ evicted \in [TurnIds -> Rows]
  <2>1. evicted[s.turn] \in Rows /\ RowOK(s, evicted[s.turn]) /\ evicted[s.turn].acked \in BOOLEAN
    BY <1>1, RowFields
  <2> QED BY <1>1, <1>2, <2>1 DEF RowsOK
<1>4. evicted' = [evicted EXCEPT ![t] = row]
  BY <1>3 DEF Damage
<1>5. <<"damaged">> \in Bodies
  BY DEF Bodies
<1>6. /\ row \in Rows /\ row.stored = old.stored /\ row.hash = old.hash
      /\ row.acked = old.acked /\ row.late = old.acked
  <2> HIDE DEF old
  <2> QED BY <1>3, <1>5 DEF Rows
<1> HIDE DEF row, old
<1>7. RowOK(s, row)
  BY <1>1, <1>3, <1>6 DEF RowOK
<1>8. \A r \in TurnSegments : r.turn = t => RowOK(r, row)
  BY <1>2, <1>7, SameTurn DEF TurnSegments
<1>9. /\ RowsOK' /\ evicted'[t] = row
      /\ \A u \in TurnIds \ {t} : evicted'[u] = evicted[u]
  BY <1>1, <1>4, <1>6, <1>8, RowReplaced
<1>10. ASSUME NEW r \in TurnSegments, evicted[r.turn].acked
       PROVE  evicted'[r.turn].acked
  <2>1. r.turn \in TurnIds
    BY DEF TurnIds
  <2>2. CASE r.turn = t
    BY <1>6, <1>9, <1>10, <2>2 DEF old
  <2>3. CASE r.turn # t
    BY <1>9, <1>10, <2>1, <2>3
  <2> QED BY <2>2, <2>3
<1>11. Up' => Covered(ledger', evicted')
  BY <1>1, <1>10 DEF Covered, Up
<1> QED BY <1>1, <1>9, <1>11 DEF LedgerInv

\* A crash keeps the invariant: nothing is acknowledged to a process that is gone.
LEMMA CrashKeeps ==
  ASSUME LedgerInv, Crash
  PROVE  LedgerInv'
<1>1. /\ RowsOK /\ LedgerOK(saved) /\ ledger' = NoLedger /\ saved' = saved
      /\ evicted' = [t \in TurnIds |-> [evicted[t] EXCEPT !.acked = FALSE, !.late = FALSE]]
  BY DEF LedgerInv, Crash
<1>2. ~Up'
  BY <1>1 DEF Up
<1>3. ASSUME NEW t \in TurnIds
      PROVE  /\ evicted'[t] \in Rows /\ evicted'[t].acked = FALSE
             /\ evicted'[t].stored = evicted[t].stored /\ evicted'[t].hash = evicted[t].hash
  <2> DEFINE old == evicted[t]
  <2>1. old \in Rows
    BY <1>1 DEF RowsOK
  <2>2. evicted'[t] = [old EXCEPT !.acked = FALSE, !.late = FALSE]
    BY <1>1
  <2> HIDE DEF old
  <2>3. /\ [old EXCEPT !.acked = FALSE, !.late = FALSE] \in Rows
        /\ [old EXCEPT !.acked = FALSE, !.late = FALSE].acked = FALSE
        /\ [old EXCEPT !.acked = FALSE, !.late = FALSE].stored = old.stored
        /\ [old EXCEPT !.acked = FALSE, !.late = FALSE].hash = old.hash
    BY <2>1 DEF Rows
  <2> QED BY <2>2, <2>3 DEF old
<1>4. evicted' \in [TurnIds -> Rows]
  BY <1>1, <1>3
<1>5. ASSUME NEW s \in TurnSegments PROVE RowOK(s, evicted'[s.turn])
  <2>1. s.turn \in TurnIds /\ RowOK(s, evicted[s.turn])
    BY <1>1, RowFields
  <2> QED BY <1>3, <2>1 DEF RowOK
<1>6. RowsOK'
  BY <1>4, <1>5 DEF RowsOK
<1> QED BY <1>1, <1>2, <1>6, FreshOK DEF LedgerInv

\* A snapshot that is accepted has never been rewritten, so it holds every
\* turn of its conversation.
LEMMA RestoreKeeps ==
  ASSUME LedgerInv, from_snapshot
  PROVE  LedgerInv'
<1>1. /\ LedgerOK(saved) /\ RowsOK /\ ledger' = saved /\ saved' = saved /\ evicted' = evicted
      /\ saved.next_seq = Len(saved.entries)
  BY DEF LedgerInv, from_snapshot, ValidSnapshot
<1>2. saved \in Ledger /\ TurnsLive(saved)
  BY <1>1 DEF LedgerOK
<1>3. ASSUME NEW s \in TurnSegments, s.turn \in saved.turns
      PROVE  Present(saved, s.id)
  <2>1. PICK i \in 1..Len(saved.entries) :
          saved.entries[i].segment.kind = "Turn" /\ saved.entries[i].segment.turn = s.turn
    BY <1>1, <1>2, <1>3 DEF TurnsLive
  <2>2. saved.entries \in Seq(Entry) /\ saved.entries[i].segment \in Segments
    BY <1>2, LedgerFields
  <2>3. saved.entries[i].segment = s
    BY <2>1, <2>2, SameTurn
  <2>4. i \in DOMAIN saved.entries
    BY <2>2
  <2> QED BY <2>3, <2>4 DEF Present
<1>4. Covered(ledger', evicted')
  BY <1>1, <1>3 DEF Covered
<1>5. RowsOK'
  BY <1>1 DEF RowsOK
<1> QED BY <1>1, <1>4, <1>5 DEF LedgerInv

\* A snapshot is as sound as the ledger it is taken of.
LEMMA SnapshotKeeps ==
  ASSUME LedgerInv, snapshot
  PROVE  LedgerInv'
  BY DEF LedgerInv, snapshot, RowsOK, Up

\* Nothing changes.
LEMMA StutterKeeps ==
  ASSUME LedgerInv, UNCHANGED vars
  PROVE  LedgerInv'
  BY DEF LedgerInv, vars, RowsOK, Up

\* Every step of the conversation keeps the invariant.
LEMMA LedgerStep == LedgerInv /\ [Next]_vars => LedgerInv'
<1> SUFFICES ASSUME LedgerInv, [Next]_vars PROVE LedgerInv'
  OBVIOUS
<1>1. CASE \E s \in Segments : Append1(s) \/ evict_turn(s)
  BY <1>1, AppendKeeps, EvictKeeps
<1>2. CASE \E s, i \in Segments : Compact(s, i)
  BY <1>2, CompactKeeps
<1>3. CASE Seal
  BY <1>3, SealKeeps
<1>4. CASE rewrite
  BY <1>4, rewriteKeeps
<1>5. CASE snapshot
  BY <1>5, SnapshotKeeps
<1>6. CASE Crash
  BY <1>6, CrashKeeps
<1>7. CASE from_snapshot
  BY <1>7, RestoreKeeps
<1>8. CASE \E t \in TurnIds : Damage(t)
  BY <1>8, DamageKeeps
<1>9. CASE UNCHANGED vars
  BY <1>9, StutterKeeps
<1> QED BY <1>1, <1>2, <1>3, <1>4, <1>5, <1>6, <1>7, <1>8, <1>9 DEF Next

\* Every ledger, live or saved, is in order; the rows of the store carry the
\* digests of their turns; and each turn of the conversation is live or its
\* eviction has been acknowledged (append, evict_turn, from_snapshot).
THEOREM LedgerInvariant == Spec => []LedgerInv
  BY LedgerInitOK, LedgerStep, PTL DEF Spec

-----------------------------------------------------------------------------
(***************************************************************************)
(* What the invariant gives.                                               *)
(***************************************************************************)
\* A ledger in order is of its type.
LEMMA LedgerTyped ==
  ASSUME NEW l, LedgerOK(l)
  PROVE  /\ IsInjective(Ids(l.entries))
         /\ \A i \in DOMAIN l.entries :
              /\ l.entries[i].segment \in Segments
              /\ l.entries[i].seq = l.next_seq - Len(l.entries) + i - 1
         /\ l.generation \in -1..MaxGenerations
         /\ l.next_seq \in 0..MaxPushes
<1>1. /\ l \in Ledger /\ l.entries \in Seq(Entry) /\ l.next_seq \in Nat /\ l.generation \in Int
      /\ EntriesOK(l.entries, l.next_seq) /\ l.next_seq <= MaxPushes
      /\ l.generation >= -1 /\ l.generation <= MaxGenerations
      /\ \A i \in 1..Len(l.entries) : l.entries[i].segment \in Segments
  BY LedgerFields DEF LedgerOK
<1>2. DOMAIN l.entries = 1..Len(l.entries)
  BY <1>1
<1>3. IsInjective(Ids(l.entries))
  BY <1>1, <1>2 DEF IsInjective, Ids, EntriesOK
<1>4. \A i \in DOMAIN l.entries : l.entries[i].seq = l.next_seq - Len(l.entries) + i - 1
  BY <1>1, <1>2 DEF EntriesOK
<1>5. l.generation \in -1..MaxGenerations /\ l.next_seq \in 0..MaxPushes
  BY <1>1, LedgerAssumption
<1> QED BY <1>1, <1>2, <1>3, <1>4, <1>5

\* A seal verifies exactly while nothing has been pushed since: two seals taken
\* after different numbers of pushes end in different positions.
LEMMA SealNames ==
  ASSUME NEW l, LedgerOK(l), NEW x \in l.seals
  PROVE  verify_generation(l, x.seal) <=> x.pushes = l.pushes
<1> DEFINE h == x.seal.prefix_hash
           m == x.pushes
           n == l.pushes
           g == prefix_hash(l.entries)
<1>1. /\ l \in Ledger /\ l.entries \in Seq(Entry) /\ n \in Nat /\ m \in Nat
      /\ EntriesOK(l.entries, n)
  <2>1. l \in Ledger /\ l.pushes = l.next_seq /\ EntriesOK(l.entries, l.next_seq)
    BY DEF LedgerOK
  <2> QED BY <2>1, LedgerFields
<1>2. SealFits(h, m, l.entries, n)
  BY DEF LedgerOK, SealsFit
<1>3. SealFits(g, n, l.entries, n)
  BY <1>1, FreshSealFits
<1>4. g \in Seq(Nat \X Segments)
  BY <1>1, HashFields
<1> HIDE DEF h, m, n, g
<1>5. ASSUME h = g PROVE m = n
  <2>1. CASE m = 0
    <3>1. Len(g) = 0
      BY <1>2, <1>5, <2>1 DEF SealFits
    <3> QED BY <1>1, <1>3, <2>1, <3>1 DEF SealFits
  <2>2. CASE m > 0
    <3>1. Len(g) > 0 /\ g[Len(g)][1] = m - 1
      BY <1>2, <1>5, <2>2 DEF SealFits
    <3>2. n > 0
      BY <1>1, <1>2, <2>2 DEF SealFits
    <3>3. g[Len(g)][1] = n - 1
      BY <1>3, <3>2 DEF SealFits
    <3>4. m - 1 = n - 1
      BY <3>1, <3>3
    <3> QED BY <1>1, <3>4
  <2> QED BY <1>1, <2>1, <2>2
<1>6. ASSUME m = n PROVE h = g
  BY <1>2, <1>6 DEF SealFits, g
<1>7. verify_generation(l, x.seal) <=> g = h
  BY DEF verify_generation, g, h
<1> QED BY <1>5, <1>6, <1>7 DEF m, n

\* A set of naturals that is not empty and has a bound has a greatest element.
LEMMA NatMax ==
  ASSUME NEW bound \in Nat, NEW T \in SUBSET (0..bound), T # {}
  PROVE  \E x \in T : \A y \in T : x >= y
<1> DEFINE D == {bound - y : y \in T}
<1>1. D \in SUBSET Nat /\ D # {}
  <2>1. \A y \in T : bound - y \in Nat
    OBVIOUS
  <2>2. D \in SUBSET Nat
    BY <2>1, Zenon
  <2>3. D # {}
    BY Zenon
  <2> QED BY <2>2, <2>3
<1> HIDE DEF D
<1>2. PICK d \in D : \A e \in D : d <= e
  BY <1>1, NatMin
<1>3. PICK x \in T : d = bound - x
  BY DEF D
<1>4. ASSUME NEW y \in T PROVE x >= y
  <2>1. bound - y \in D
    BY DEF D
  <2>2. bound - x <= bound - y
    BY <1>2, <1>3, <2>1
  <2>3. x \in Nat /\ y \in Nat
    OBVIOUS
  <2> QED BY <2>2, <2>3
<1> QED BY <1>4

\* The end of a region: 0, or a segment of the kind; and none comes after it.
LEMMA EndIs ==
  ASSUME NEW es \in Seq(Entry), NEW kind
  PROVE  /\ EndOf(es, kind) \in 0..Len(es)
         /\ EndOf(es, kind) > 0 => KindOf(es, EndOf(es, kind)) = kind
         /\ \A i \in 1..Len(es) : KindOf(es, i) = kind => i <= EndOf(es, kind)
<1> DEFINE S == {0} \cup {i \in DOMAIN es : KindOf(es, i) = kind}
           e == EndOf(es, kind)
<1>1. Len(es) \in Nat /\ DOMAIN es = 1..Len(es)
  OBVIOUS
<1>2. S \in SUBSET (0..Len(es)) /\ S # {}
  BY <1>1
<1>3. \A i \in 1..Len(es) : KindOf(es, i) = kind => i \in S
  BY <1>1
<1>4. \A i \in S : i > 0 => KindOf(es, i) = kind
  BY <1>1
<1>5. e = Max(S)
  BY DEF EndOf
<1> HIDE DEF S, e
<1>6. \E x \in S : \A y \in S : x >= y
  BY <1>1, <1>2, NatMax
<1>7. e \in S /\ \A y \in S : e >= y
  BY <1>5, <1>6 DEF Max
<1>8. e \in 0..Len(es)
  BY <1>2, <1>7
<1>9. e > 0 => KindOf(es, e) = kind
  BY <1>4, <1>7
<1>10. \A i \in 1..Len(es) : KindOf(es, i) = kind => i <= e
  <2> SUFFICES ASSUME NEW i \in 1..Len(es), KindOf(es, i) = kind PROVE i <= e
    OBVIOUS
  <2>1. e >= i
    BY <1>3, <1>7
  <2> QED BY <1>1, <1>8, <2>1
<1> QED BY <1>8, <1>9, <1>10 DEF e

\* In a prefix whose regions are in order, nothing of a later region comes
\* before the end of an earlier one.
LEMMA RegionsApart ==
  ASSUME NEW es \in Seq(Entry), RegionOrder(es), NEW a, NEW b, <<b, a>> \in Reversed,
         NEW i \in 1..EndOf(es, a)
  PROVE  i \in 1..Len(es) /\ KindOf(es, i) # b
<1> DEFINE e == EndOf(es, a)
<1>1. e \in 0..Len(es) /\ (e > 0 => KindOf(es, e) = a)
  BY EndIs
<1>2. Len(es) \in Nat /\ DOMAIN es = 1..Len(es)
  OBVIOUS
<1>3. a # b
  BY DEF Reversed
<1>4. i \in 1..e
  OBVIOUS
<1> HIDE DEF e
<1>5. i \in 1..Len(es) /\ e \in 1..Len(es) /\ KindOf(es, e) = a
  BY <1>1, <1>2, <1>4
<1>6. CASE i = e
  BY <1>3, <1>5, <1>6
<1>7. CASE i < e
  <2>1. <<KindOf(es, i), KindOf(es, e)>> \notin Reversed
    BY <1>2, <1>5, <1>7 DEF RegionOrder
  <2> QED BY <1>5, <2>1
<1> QED BY <1>1, <1>4, <1>6, <1>7

\* A plan that passes both checks freezes whole regions.
LEMMA PlanSound ==
  ASSUME LedgerOK(ledger)
  PROVE  PlanFreezesRegions
<1> DEFINE es == ledger.entries
           T == EndOf(es, "ToolManifest")
           S == EndOf(es, "SystemContract")
           M == EndOf(es, "MemoryIndex")
<1>1. /\ es \in Seq(Entry) /\ Len(es) \in Nat
      /\ \A i \in 1..Len(es) : es[i].segment \in Segments
  BY LedgerFields DEF LedgerOK
<1>2. \A i \in 1..Len(es) : KindOf(es, i) \in {"ToolManifest", "SystemContract", "MemoryIndex", "Turn"}
  BY <1>1, LedgerAssumption DEF KindOf, Kind
<1>3. T \in 0..Len(es) /\ S \in 0..Len(es) /\ M \in 0..Len(es)
  BY <1>1, EndIs
<1>4. /\ \A i \in 1..Len(es) : KindOf(es, i) = "ToolManifest" => i <= T
      /\ \A i \in 1..Len(es) : KindOf(es, i) = "SystemContract" => i <= S
      /\ \A i \in 1..Len(es) : KindOf(es, i) = "MemoryIndex" => i <= M
  BY <1>1, EndIs
<1> SUFFICES ASSUME NEW end \in 0..Len(es), Planned(es, end), validate(Plan(es, end), es)
             PROVE  /\ \A n \in (0 + 1)..T : KindOf(es, n) \in {"ToolManifest", "Turn"}
                    /\ \A n \in (T + 1)..Len(es) : KindOf(es, n) # "ToolManifest"
                    /\ \A n \in (0 + 1)..S : KindOf(es, n) \in {"ToolManifest", "SystemContract", "Turn"}
                    /\ \A n \in (end + 1)..Len(es) : KindOf(es, n) = "Turn"
  BY DEF PlanFreezesRegions, Plan
<1>5. RegionOrder(es) /\ end >= M
  BY DEF Planned
<1>6. T <= S /\ S <= M
  <2>1. ~find_reversal(<<T, S, M, end>>)
    BY DEF validate, Plan
  <2> HIDE DEF T, S, M, es
  <2>2. ~(T > S) /\ ~(S > M)
    BY <2>1 DEF find_reversal
  <2> QED BY <1>1, <1>3, <2>2
<1>7. ASSUME NEW n \in 1..T
      PROVE  n \in 1..Len(es) /\ KindOf(es, n) # "SystemContract" /\ KindOf(es, n) # "MemoryIndex"
  <2>1. <<"SystemContract", "ToolManifest">> \in Reversed /\ <<"MemoryIndex", "ToolManifest">> \in Reversed
    BY DEF Reversed
  <2> QED BY <1>1, <1>5, <2>1, RegionsApart
<1>8. ASSUME NEW n \in 1..S
      PROVE  n \in 1..Len(es) /\ KindOf(es, n) # "MemoryIndex"
  <2>1. <<"MemoryIndex", "SystemContract">> \in Reversed
    BY DEF Reversed
  <2> QED BY <1>1, <1>5, <2>1, RegionsApart
<1> HIDE DEF T, S, M, es
<1>9. \A n \in (0 + 1)..T : KindOf(es, n) \in {"ToolManifest", "Turn"}
  BY <1>2, <1>7
<1>10. ASSUME NEW n \in (T + 1)..Len(es) PROVE KindOf(es, n) # "ToolManifest"
  <2>1. n \in 1..Len(es) /\ ~(n <= T)
    BY <1>1, <1>3
  <2> QED BY <1>4, <2>1
<1>11. \A n \in (0 + 1)..S : KindOf(es, n) \in {"ToolManifest", "SystemContract", "Turn"}
  BY <1>2, <1>8
<1>12. ASSUME NEW n \in (end + 1)..Len(es) PROVE KindOf(es, n) = "Turn"
  <2>1. n \in 1..Len(es) /\ ~(n <= T) /\ ~(n <= S) /\ ~(n <= M)
    BY <1>1, <1>3, <1>5, <1>6
  <2> QED BY <1>2, <1>4, <2>1
<1> QED BY <1>9, <1>10, <1>11, <1>12

\* The live prefix is a run of positions with each segment once, a seal
\* verifies exactly while the prefix it froze has not moved, and a plan that
\* would be sent freezes whole regions, in every reachable state, whatever the
\* segments and the bounds (append, rewrite, verify_generation,
\* plan_breakpoints_at).
THEOREM PrefixIsSound == Spec => []PrefixSound
<1>1. LedgerInv => PrefixSound
  <2> SUFFICES ASSUME LedgerInv PROVE PrefixSound
    OBVIOUS
  <2>1. LedgerOK(ledger) /\ LedgerOK(saved) /\ DOMAIN evicted = TurnIds
    BY DEF LedgerInv, RowsOK
  <2>2. TypeOK
    BY <2>1, LedgerTyped DEF TypeOK
  <2>3. SealNamesPrefix
    BY <2>1, SealNames DEF SealNamesPrefix
  <2> QED BY <2>1, <2>2, <2>3, PlanSound DEF PrefixSound
<1> QED BY <1>1, LedgerInvariant, PTL

\* No turn is lost: each turn of the conversation is live, or can be recalled,
\* or was damaged after its eviction had been acknowledged, over rewrites,
\* compactions, crashes and restored snapshots (Store::evict_turn).
THEOREM TurnsSurvive == Spec => []NoTurnLost
<1>1. LedgerInv => NoTurnLost
  <2> SUFFICES ASSUME LedgerInv, Up, NEW s \in TurnSegments, s.turn \in ledger.turns,
                      ~Present(ledger, s.id), ~evicted[s.turn].late
               PROVE  recall_turn(s.turn).ok
    BY DEF NoTurnLost
  <2>1. evicted[s.turn].acked
    BY DEF LedgerInv, Covered
  <2>2. RowOK(s, evicted[s.turn])
    BY RowFields DEF LedgerInv
  <2>3. Stored(s.turn) /\ Intact(s.turn)
    BY <2>1, <2>2 DEF RowOK, Stored, Intact
  <2>4. recall_turn(s.turn) = [ok |-> TRUE, bytes |-> evicted[s.turn].body]
    BY <2>3 DEF recall_turn
  <2> QED BY <2>4
<1> QED BY <1>1, LedgerInvariant, PTL

\* What recall returns is the turn: whole when it calls a tool, otherwise
\* short of unsigned thinking only, and listed under its digest, whatever has
\* been damaged (decide, render_body, recall_turn, evicted_turns).
THEOREM RecallIsVerbatim == Spec => []RecallVerbatim
<1>1. LedgerInv => RecallVerbatim
  <2> SUFFICES ASSUME LedgerInv, NEW s \in TurnSegments, recall_turn(s.turn).ok
               PROVE  /\ \/ recall_turn(s.turn).bytes = s.blocks
                         \/ /\ ~Contains(s.blocks, "ToolUse")
                            /\ recall_turn(s.turn).bytes = SelectSeq(s.blocks, LAMBDA b : b # "Thinking")
                      /\ [turn |-> s.turn, digest |-> recall_turn(s.turn).bytes] \in evicted_turns
    BY DEF RecallVerbatim
  <2>1. Stored(s.turn) /\ Intact(s.turn)
    BY DEF recall_turn
  <2>2. recall_turn(s.turn).bytes = evicted[s.turn].body
    BY <2>1 DEF recall_turn
  <2>3. RowOK(s, evicted[s.turn]) /\ s.turn \in TurnIds
    BY RowFields DEF LedgerInv
  <2>4. /\ recall_turn(s.turn).bytes = evicted[s.turn].hash
        /\ recall_turn(s.turn).bytes = plan_eviction(s)
    BY <2>1, <2>2, <2>3 DEF Stored, Intact, RowOK
  <2>5. [turn |-> s.turn, digest |-> recall_turn(s.turn).bytes] \in evicted_turns
    BY <2>1, <2>3, <2>4 DEF evicted_turns, turn_metadata
  <2>6. DOMAIN s.blocks = 1..Len(s.blocks)
    BY LedgerAssumption DEF TurnSegments
  <2>7. CASE Contains(s.blocks, "ToolUse")
    <3>1. plan_eviction(s) = s.blocks
      BY <2>6, <2>7 DEF plan_eviction, decide, render_body, Contains
    <3> QED BY <2>4, <2>5, <3>1
  <2>8. CASE ~Contains(s.blocks, "ToolUse")
    <3>1. decide(s.blocks) = "Drop"
      BY <2>6, <2>8 DEF decide, Contains
    <3>2. plan_eviction(s) = SelectSeq(s.blocks, LAMBDA b : b # "Thinking")
      BY <3>1 DEF plan_eviction, render_body
    <3> QED BY <2>4, <2>5, <2>8, <3>2
  <2> QED BY <2>7, <2>8
<1> QED BY <1>1, LedgerInvariant, PTL

=============================================================================
