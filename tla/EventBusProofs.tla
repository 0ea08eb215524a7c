--------------------------- MODULE EventBusProofs ---------------------------
(***************************************************************************)
(* What TLAPS proves of the event bus, for any publishers, subscriptions,  *)
(* filters, capacities and number of events.                               *)
(*                                                                         *)
(* The state of one subscription's stream moves in three ways: an event is *)
(* lost before it is buffered, the oldest delivery is evicted, a delivery  *)
(* is pushed or taken.  Each is a lemma on values (Lose, Evict, Push,      *)
(* Take1); the invariant of the bus then follows action by action.         *)
(***************************************************************************)
EXTENDS EventBus, TLAPS

-----------------------------------------------------------------------------
(***************************************************************************)
(* The invariant.                                                          *)
(***************************************************************************)
Prior(r, l, i) == IF i = 1 THEN l ELSE r[i - 1]
Final(r, l)    == IF r = <<>> THEN l ELSE r[Len(r)]

\* One stream: ring r, last delivery taken l, and the counters offered, taken,
\* told, missed_total and pending_missed.  Sequence numbers ascend...
Ordered(r, l) == \A i \in 1..Len(r) : Prior(r, l, i).seq < r[i].seq

\* ... every gap is exact ...
Gapped(r, l) ==
  \A i \in 1..Len(r) : r[i].missed_before = r[i].nth - Prior(r, l, i).nth - 1

\* ... the numbers of the events are as far apart as their places ...
Spread(r, l, off) ==
  /\ \A i \in 1..Len(r) : l.nth + i <= r[i].nth /\ r[i].nth <= off
  /\ \A i, j \in 1..Len(r) : i <= j => j - i <= r[j].nth - r[i].nth

\* ... and the counters agree.
Counted(r, l, off, tk, td, ms, pd) ==
  /\ l.nth <= off
  /\ pd = off - Final(r, l).nth
  /\ off = tk + Len(r) + ms
  /\ td = l.nth - tk

StreamOK(r, l, off, tk, td, ms, pd) ==
  /\ Ordered(r, l) /\ Gapped(r, l)
  /\ Spread(r, l, off) /\ Counted(r, l, off, tk, td, ms, pd)

StreamsOK ==
  \A s \in Sub : StreamOK(ring[s], last[s], offered[s], taken[s], told[s],
                          missed_total[s], pending_missed[s])

\* One publisher at a time is past the registry lock, and it owes at most one
\* notification.
Serial ==
  /\ \A p, q \in Publisher : pub[p] # Idle /\ pub[q] # Idle => p = q
  /\ \A p \in Publisher : pub[p] # Idle =>
       \A s \in pub[p].notify : pub[p].notify = {s}

\* Sequence numbers: what is buffered is older than what is being fanned out.
SeqsOK ==
  /\ \A s \in Sub : Final(ring[s], last[s]).seq < next_seq
  /\ \A p \in Publisher : pub[p] # Idle =>
       /\ pub[p].seq < next_seq
       /\ \A s \in pub[p].todo : Final(ring[s], last[s]).seq < pub[p].seq

\* What holds in each phase of the bus, and of a consumer.
PhasesOK ==
  /\ bus # "open" => RegistryFree
  /\ bus = "open" => closing = {} /\ \A s \in Sub : ~closed[s]
  /\ \A s \in Sub : consumer[s] # "idle" => handle[s] = "live"
  /\ \A s \in Sub : reply[s] = "Closed" => closed[s] /\ ring[s] = <<>>

BusInv ==
  /\ TypeOK /\ StreamsOK /\ Serial /\ SeqsOK /\ PhasesOK
  /\ LiveListed /\ NoLostWakeup

-----------------------------------------------------------------------------
(***************************************************************************)
(* One stream.                                                             *)
(***************************************************************************)

\* The fields of a delivery.
LEMMA Fields ==
  ASSUME NEW d \in Delivery
  PROVE d.seq \in Int /\ d.missed_before \in Nat /\ d.nth \in Nat
BY DEF Delivery

\* The fields of what is buffered, of the last delivery and of the newest.
LEMMA RingFields ==
  ASSUME NEW r \in Seq(Delivery), NEW l \in Delivery
  PROVE  /\ Len(r) \in Nat
         /\ r = <<>> <=> Len(r) = 0
         /\ \A i \in 1..Len(r) :
              /\ r[i] \in Delivery
              /\ r[i].seq \in Int /\ r[i].missed_before \in Nat /\ r[i].nth \in Nat
         /\ l.seq \in Int /\ l.missed_before \in Nat /\ l.nth \in Nat
         /\ Final(r, l) \in Delivery /\ Final(r, l).seq \in Int /\ Final(r, l).nth \in Nat
<1>1. /\ Len(r) \in Nat /\ (r = <<>> <=> Len(r) = 0)
      /\ \A i \in 1..Len(r) : r[i] \in Delivery
  OBVIOUS
<1>2. Final(r, l) \in Delivery
  BY <1>1 DEF Final
<1> QED
  BY <1>1, <1>2, Fields

\* An event lost before it is buffered is one more offered, missed and pending.
LEMMA Lose ==
  ASSUME NEW r \in Seq(Delivery), NEW l \in Delivery, NEW off \in Nat, NEW tk \in Nat,
         NEW td \in Nat, NEW ms \in Nat, NEW pd \in Nat,
         StreamOK(r, l, off, tk, td, ms, pd)
  PROVE  StreamOK(r, l, off + 1, tk, td, ms + 1, pd + 1)
<1>1. Spread(r, l, off + 1)
  BY RingFields DEF StreamOK, Spread
<1>2. Counted(r, l, off + 1, tk, td, ms + 1, pd + 1)
  BY RingFields DEF StreamOK, Counted
<1> QED
  BY <1>1, <1>2 DEF StreamOK

\* A ring is empty when its length is 0.
LEMMA EmptyLen ==
  ASSUME NEW q \in Seq(Delivery)
  PROVE  q = <<>> <=> Len(q) = 0
OBVIOUS

\* What taking the oldest delivery leaves.
LEMMA TailFields ==
  ASSUME NEW r \in Seq(Delivery), r # <<>>
  PROVE  /\ Tail(r) \in Seq(Delivery) /\ Len(Tail(r)) = Len(r) - 1 /\ Len(r) >= 1
         /\ Head(r) = r[1] /\ Head(r) \in Delivery
         /\ \A i \in 1..Len(Tail(r)) : Tail(r)[i] = r[i + 1]
         /\ Tail(r) = <<>> <=> Len(r) = 1
<1>1. Len(r) \in Nat /\ Len(r) >= 1
  OBVIOUS
<1>2. Tail(r) \in Seq(Delivery) /\ Len(Tail(r)) = Len(r) - 1
  OBVIOUS
<1>3. Head(r) = r[1] /\ Head(r) \in Delivery
  OBVIOUS
<1>4. \A i \in 1..Len(Tail(r)) : Tail(r)[i] = r[i + 1]
  OBVIOUS
<1>5. Tail(r) = <<>> <=> Len(r) = 1
  <2>1. Tail(r) = <<>> <=> Len(Tail(r)) = 0
    BY <1>2, EmptyLen
  <2> QED
    BY <2>1, <1>1, <1>2
<1> QED
  BY <1>1, <1>2, <1>3, <1>4, <1>5

\* A delivery taken from the front: its gap is told.
LEMMA Take1 ==
  ASSUME NEW r \in Seq(Delivery), NEW l \in Delivery, NEW off \in Nat, NEW tk \in Nat,
         NEW td \in Nat, NEW ms \in Nat, NEW pd \in Nat,
         StreamOK(r, l, off, tk, td, ms, pd), r # <<>>
  PROVE  /\ StreamOK(Tail(r), Head(r), off, tk + 1, td + Head(r).missed_before, ms, pd)
         /\ Final(Tail(r), Head(r)) = Final(r, l)
<1> DEFINE t == Tail(r)
           h == Head(r)
<1>1. /\ t \in Seq(Delivery) /\ Len(t) = Len(r) - 1 /\ Len(r) >= 1
      /\ h = r[1] /\ h \in Delivery
      /\ \A i \in 1..Len(t) : t[i] = r[i + 1]
      /\ t = <<>> <=> Len(r) = 1
  BY TailFields
<1>2. /\ Len(r) \in Nat /\ l.nth \in Nat /\ l.seq \in Int
      /\ \A i \in 1..Len(r) : r[i].seq \in Int /\ r[i].missed_before \in Nat /\ r[i].nth \in Nat
  BY RingFields
<1> HIDE DEF t, h
<1>3. Final(t, h) = Final(r, l)
  BY <1>1, <1>2 DEF Final
<1>4. \A i \in 1..Len(t) : /\ Prior(t, h, i) = r[i] /\ Prior(r, l, i + 1) = r[i]
                           /\ i + 1 \in 1..Len(r)
  BY <1>1, <1>2 DEF Prior
<1>5. Ordered(t, h)
  BY <1>1, <1>2, <1>4 DEF StreamOK, Ordered
<1>6. Gapped(t, h)
  BY <1>1, <1>2, <1>4 DEF StreamOK, Gapped
<1>7. Spread(t, h, off)
  <2>1. \A i \in 1..Len(t) : 1 \in 1..Len(r) /\ i + 1 \in 1..Len(r) /\ 1 <= i + 1
    BY <1>1, <1>2
  <2>2. \A i \in 1..Len(t) : i <= r[i + 1].nth - r[1].nth /\ r[i + 1].nth <= off
    <3> SUFFICES ASSUME NEW i \in 1..Len(t)
                 PROVE  i <= r[i + 1].nth - r[1].nth /\ r[i + 1].nth <= off
      OBVIOUS
    <3>1. (i + 1) - 1 <= r[i + 1].nth - r[1].nth /\ r[i + 1].nth <= off
      BY <2>1 DEF StreamOK, Spread
    <3> QED
      BY <3>1, <1>1, <1>2
  <2>3. \A i \in 1..Len(t) : h.nth + i <= t[i].nth /\ t[i].nth <= off
    <3> SUFFICES ASSUME NEW i \in 1..Len(t)
                 PROVE  r[1].nth + i <= r[i + 1].nth /\ r[i + 1].nth <= off
      BY <1>1
    <3>1. r[1].nth \in Nat /\ r[i + 1].nth \in Nat /\ i \in Int
      BY <2>1, <1>1, <1>2
    <3>2. i <= r[i + 1].nth - r[1].nth /\ r[i + 1].nth <= off
      BY <2>2
    <3> QED
      BY <3>1, <3>2
  <2>4. \A i, j \in 1..Len(t) : i <= j => j - i <= t[j].nth - t[i].nth
    <3> SUFFICES ASSUME NEW i \in 1..Len(t), NEW j \in 1..Len(t), i <= j
                 PROVE  j - i <= r[j + 1].nth - r[i + 1].nth
      BY <1>1
    <3>1. i + 1 \in 1..Len(r) /\ j + 1 \in 1..Len(r) /\ i + 1 <= j + 1
      BY <1>1, <1>2
    <3>2. (j + 1) - (i + 1) <= r[j + 1].nth - r[i + 1].nth
      BY <3>1 DEF StreamOK, Spread
    <3> QED
      BY <3>1, <3>2, <1>2
  <2> QED
    BY <2>3, <2>4 DEF Spread
<1>8. Counted(t, h, off, tk + 1, td + h.missed_before, ms, pd)
  <2>1. 1 \in 1..Len(r) /\ Prior(r, l, 1) = l
    BY <1>1, <1>2 DEF Prior
  <2>2. h.nth <= off /\ h.missed_before = h.nth - l.nth - 1
    BY <1>1, <2>1 DEF StreamOK, Spread, Gapped
  <2>3. h.nth \in Nat /\ h.missed_before \in Nat
    BY <1>1, <1>2, <2>1
  <2>4. td + h.missed_before = h.nth - (tk + 1)
    <3>1. td = l.nth - tk
      BY DEF StreamOK, Counted
    <3>2. \A hm, hn, ln \in Nat : hm = hn - ln - 1 /\ td = ln - tk => td + hm = hn - (tk + 1)
      OBVIOUS
    <3> QED
      BY <3>1, <3>2, <2>2, <2>3, <1>2, Zenon
  <2> QED
    BY <2>2, <2>4, <1>1, <1>2, <1>3 DEF StreamOK, Counted
<1> QED
  BY <1>3, <1>5, <1>6, <1>7, <1>8 DEF StreamOK, t, h

\* What appending a delivery leaves.
LEMMA AppendFields ==
  ASSUME NEW r \in Seq(Delivery), NEW d \in Delivery
  PROVE  /\ Append(r, d) \in Seq(Delivery) /\ Len(Append(r, d)) = Len(r) + 1
         /\ Append(r, d) # <<>>
         /\ \A i \in 1..Len(r) : Append(r, d)[i] = r[i]
         /\ Append(r, d)[Len(r) + 1] = d
OBVIOUS

\* d comes after e, which is the newest so far.
Follows(d, e, off, pd) ==
  e.seq < d.seq /\ d.missed_before = pd /\ d.nth = off + 1

\* A delivery pushed at the end carries what was pending.
LEMMA Push ==
  ASSUME NEW r \in Seq(Delivery), NEW l \in Delivery, NEW off \in Nat, NEW tk \in Nat,
         NEW td \in Nat, NEW ms \in Nat, NEW pd \in Nat, NEW d \in Delivery,
         StreamOK(r, l, off, tk, td, ms, pd), Follows(d, Final(r, l), off, pd)
  PROVE  /\ StreamOK(Append(r, d), l, off + 1, tk, td, ms, 0)
         /\ Final(Append(r, d), l) = d
<1> DEFINE a == Append(r, d)
           n == Len(r)
<1>0. Final(r, l).seq < d.seq /\ d.missed_before = pd /\ d.nth = off + 1
  BY DEF Follows
<1>1. /\ n \in Nat /\ l.nth \in Nat /\ l.seq \in Int
      /\ r = <<>> <=> n = 0
      /\ \A i \in 1..n : r[i].seq \in Int /\ r[i].missed_before \in Nat /\ r[i].nth \in Nat
      /\ Final(r, l).seq \in Int /\ Final(r, l).nth \in Nat
      /\ d.seq \in Int /\ d.missed_before \in Nat /\ d.nth \in Nat
  BY RingFields, Fields
<1>2. /\ a \in Seq(Delivery) /\ Len(a) = n + 1 /\ a # <<>>
      /\ \A i \in 1..n : a[i] = r[i]
      /\ a[n + 1] = d
  BY AppendFields
<1> HIDE DEF a, n
<1>3. Final(a, l) = d
  BY <1>2 DEF Final
<1>4. Prior(a, l, n + 1) = Final(r, l)
  BY <1>1, <1>2 DEF Prior, Final, n
<1>5. \A i \in 1..n : Prior(a, l, i) = Prior(r, l, i)
  BY <1>1, <1>2 DEF Prior
<1>6. \A i \in 1..Len(a) : i \in 1..n \/ i = n + 1
  BY <1>1, <1>2
<1>7. Final(r, l).nth = off - pd /\ Final(r, l).nth <= off
  <2>1. pd = off - Final(r, l).nth
    BY DEF StreamOK, Counted
  <2> QED
    BY <2>1, <1>1
<1>8. Ordered(a, l)
  BY <1>0, <1>2, <1>4, <1>5, <1>6 DEF StreamOK, Ordered, n
<1>9. Gapped(a, l)
  <2> SUFFICES ASSUME NEW i \in 1..Len(a)
               PROVE  a[i].missed_before = a[i].nth - Prior(a, l, i).nth - 1
    BY DEF Gapped
  <2>1. CASE i \in 1..n
    BY <2>1, <1>2, <1>5 DEF StreamOK, Gapped, n
  <2>2. CASE i = n + 1
    <3>1. pd = (off + 1) - Final(r, l).nth - 1
      BY <1>1, <1>7
    <3> QED
      BY <1>0, <2>2, <3>1, <1>2, <1>4
  <2> QED
    BY <2>1, <2>2, <1>6
<1>10. l.nth + n <= off
  <2>1. off = tk + n + ms /\ td = l.nth - tk
    BY DEF StreamOK, Counted, n
  <2>2. CASE n = 0
    <3>1. l.nth <= off
      BY DEF StreamOK, Counted
    <3> QED
      BY <3>1, <2>2, <1>1
  <2>3. CASE n # 0
    <3>1. n \in 1..n
      BY <2>3, <1>1
    <3>2. l.nth + n <= r[n].nth /\ r[n].nth <= off
      BY <3>1 DEF StreamOK, Spread, n
    <3> QED
      BY <3>1, <3>2, <1>1
  <2> QED
    BY <2>2, <2>3
<1>11. Spread(a, l, off + 1)
  <2>1. ASSUME NEW i \in 1..Len(a)
        PROVE  l.nth + i <= a[i].nth /\ a[i].nth <= off + 1
    <3>1. CASE i \in 1..n
      <4>1. l.nth + i <= r[i].nth /\ r[i].nth <= off /\ a[i] = r[i] /\ r[i].nth \in Nat
        BY <3>1, <1>1, <1>2 DEF StreamOK, Spread, n
      <4> QED
        BY <4>1
    <3>2. CASE i = n + 1
      BY <1>0, <3>2, <1>1, <1>2, <1>10
    <3> QED
      BY <3>1, <3>2, <1>6
  <2>2. ASSUME NEW i \in 1..Len(a), NEW j \in 1..Len(a), i <= j
        PROVE  j - i <= a[j].nth - a[i].nth
    <3>1. CASE j \in 1..n
      <4>1. i \in 1..n
        BY <3>1, <2>2, <1>1, <1>6
      <4> QED
        BY <4>1, <3>1, <2>2, <1>2 DEF StreamOK, Spread, n
    <3>2. CASE j = n + 1 /\ i \in 1..n
      <4>1. n \in 1..n /\ i <= n
        BY <3>2, <1>1
      <4>2. n - i <= r[n].nth - r[i].nth /\ r[n].nth <= off /\ a[i] = r[i]
        BY <4>1, <3>2, <1>2 DEF StreamOK, Spread, n
      <4>3. r[n].nth \in Nat /\ r[i].nth \in Nat
        BY <4>1, <3>2, <1>1
      <4>4. (n + 1) - i <= (off + 1) - r[i].nth
        <5>1. \A x, y \in Nat : n - i <= x - y /\ x <= off => (n + 1) - i <= (off + 1) - y
          BY <1>1
        <5> QED
          BY <5>1, <4>2, <4>3
      <4> QED
        BY <1>0, <4>2, <4>4, <3>2, <1>2
    <3>3. CASE j = n + 1 /\ i = n + 1
      BY <1>0, <3>3, <1>1, <1>2
    <3> QED
      BY <3>1, <3>2, <3>3, <1>6
  <2> QED
    BY <2>1, <2>2 DEF Spread
<1>12. Counted(a, l, off + 1, tk, td, ms, 0)
  <2>1. l.nth <= off /\ off = tk + n + ms /\ td = l.nth - tk
    BY DEF StreamOK, Counted, n
  <2>2. l.nth <= off + 1 /\ off + 1 = tk + Len(a) + ms
    BY <2>1, <1>1, <1>2
  <2>3. 0 = (off + 1) - Final(a, l).nth
    BY <1>0, <1>3
  <2> QED
    BY <2>1, <2>2, <2>3 DEF Counted
<1> QED
  BY <1>3, <1>8, <1>9, <1>11, <1>12 DEF StreamOK, a

\* What Buffer makes of a full ring before it appends: the oldest delivery goes,
\* and the gap in front of it and itself go to the next, or to what is pending.
Evicted(r) ==
  IF Tail(r) = <<>> THEN Tail(r)
  ELSE [Tail(r) EXCEPT ![1].missed_before = @ + (Head(r).missed_before + 1)]
EvictedGap(r) == IF Tail(r) = <<>> THEN Head(r).missed_before + 1 ELSE 0

\* A delivery whose gap is widened keeps its other fields.
LEMMA Widened ==
  ASSUME NEW d \in Delivery, NEW g \in Nat
  PROVE  /\ [d EXCEPT !.missed_before = g] \in Delivery
         /\ [d EXCEPT !.missed_before = g].seq = d.seq
         /\ [d EXCEPT !.missed_before = g].nth = d.nth
         /\ [d EXCEPT !.missed_before = g].missed_before = g
BY DEF Delivery

\* The ring after an eviction: places move up, the gap in front is widened.
LEMMA EvictedFields ==
  ASSUME NEW r \in Seq(Delivery), Len(r) > 1
  PROVE  /\ EvictedGap(r) = 0
         /\ Evicted(r) \in Seq(Delivery) /\ Len(Evicted(r)) = Len(r) - 1
         /\ \A i \in 2..(Len(r) - 1) : Evicted(r)[i] = r[i + 1]
         /\ Evicted(r)[1].seq = r[2].seq /\ Evicted(r)[1].nth = r[2].nth
         /\ Evicted(r)[1].missed_before = r[2].missed_before + r[1].missed_before + 1
<1> DEFINE n == Len(r)
           g == r[2].missed_before + (r[1].missed_before + 1)
           f == [r[2] EXCEPT !.missed_before = g]
           t == Tail(r)
<1>1. /\ n \in Nat /\ r # <<>> /\ 1 \in 1..n /\ 2 \in 1..n
  OBVIOUS
<1>2. /\ t \in Seq(Delivery) /\ Len(t) = n - 1 /\ Head(r) = r[1] /\ t # <<>>
      /\ \A i \in 1..(n - 1) : t[i] = r[i + 1]
  <2>1. Len(r) # 1
    <3>1. \A k \in Nat : k > 1 => k # 1
      OBVIOUS
    <3> QED
      BY <3>1, <1>1, Zenon
  <2> QED
    BY <2>1, <1>1, TailFields
<1>3. /\ r[1] \in Delivery /\ r[2] \in Delivery
      /\ r[1].missed_before \in Nat /\ r[2].missed_before \in Nat
  BY <1>1, Fields
<1>4. 1 \in 1..Len(t) /\ t[1] = r[2]
  BY <1>1, <1>2
<1>5. /\ f \in Delivery /\ f.seq = r[2].seq /\ f.nth = r[2].nth /\ f.missed_before = g
  <2>1. g \in Nat
    BY <1>3
  <2> HIDE DEF g
  <2> QED
    BY <2>1, <1>3, Widened
<1> HIDE DEF f, t
<1>6. Evicted(r) = [t EXCEPT ![1] = f]
  BY <1>2, <1>4 DEF Evicted, f, t
<1>7. /\ [t EXCEPT ![1] = f] \in Seq(Delivery) /\ Len([t EXCEPT ![1] = f]) = n - 1
      /\ [t EXCEPT ![1] = f][1] = f
      /\ \A i \in 2..(n - 1) : [t EXCEPT ![1] = f][i] = t[i]
  BY <1>1, <1>2, <1>4, <1>5
<1>8. EvictedGap(r) = 0
  BY <1>2 DEF EvictedGap, t
<1> QED
  BY <1>1, <1>2, <1>3, <1>5, <1>6, <1>7, <1>8

\* A full ring that drops its oldest delivery stays exact: one more missed, and the
\* dropped gap is carried by the next delivery or by what is pending.
LEMMA Evict ==
  ASSUME NEW r \in Seq(Delivery), NEW l \in Delivery, NEW off \in Nat, NEW tk \in Nat,
         NEW td \in Nat, NEW ms \in Nat, NEW pd \in Nat,
         StreamOK(r, l, off, tk, td, ms, pd), r # <<>>
  PROVE  /\ Evicted(r) \in Seq(Delivery) /\ Len(Evicted(r)) = Len(r) - 1
         /\ EvictedGap(r) \in Nat
         /\ StreamOK(Evicted(r), l, off, tk, td, ms + 1, pd + EvictedGap(r))
         /\ Final(Evicted(r), l).seq <= Final(r, l).seq
<1> DEFINE e == Evicted(r)
           n == Len(r)
<1>1. /\ n \in Nat /\ n >= 1 /\ 1 \in 1..n /\ n \in 1..n
      /\ l.nth \in Nat /\ l.seq \in Int
      /\ \A i \in 1..n : r[i].seq \in Int /\ r[i].missed_before \in Nat /\ r[i].nth \in Nat
  BY RingFields, TailFields
<1>2. /\ r[1].missed_before = r[1].nth - l.nth - 1 /\ l.seq < r[1].seq
      /\ Final(r, l) = r[n] /\ pd = off - r[n].nth
      /\ off = tk + n + ms /\ td = l.nth - tk /\ l.nth <= off
  BY <1>1 DEF StreamOK, Ordered, Gapped, Counted, Prior, Final
<1>3. CASE n = 1
  <2>1. e = <<>> /\ EvictedGap(r) = r[1].missed_before + 1
    BY <1>3, TailFields DEF Evicted, EvictedGap
  <2>2. Final(e, l) = l /\ Len(e) = 0 /\ e \in Seq(Delivery) /\ EvictedGap(r) \in Nat
    BY <2>1, <1>1 DEF Final
  <2>3. pd + EvictedGap(r) = off - l.nth
    <3>1. \A x, y, m \in Nat : m = x - y - 1 /\ pd = off - x => pd + (m + 1) = off - y
      OBVIOUS
    <3> QED
      BY <3>1, <2>1, <1>1, <1>2, <1>3
  <2>4. Ordered(e, l) /\ Gapped(e, l) /\ Spread(e, l, off)
    BY <2>2 DEF Ordered, Gapped, Spread
  <2>5. Counted(e, l, off, tk, td, ms + 1, pd + EvictedGap(r))
    BY <2>2, <2>3, <1>1, <1>2, <1>3 DEF Counted
  <2>6. Final(e, l).seq <= Final(r, l).seq
    <3>1. /\ Final(e, l) = l /\ Final(r, l) = r[1] /\ l.seq < r[1].seq
          /\ l.seq \in Int /\ r[1].seq \in Int
      BY <2>2, <1>1, <1>2, <1>3
    <3>2. \A x, y \in Int : x < y => x <= y
      OBVIOUS
    <3> QED
      BY <3>1, <3>2, Zenon
  <2> QED
    BY <2>2, <2>4, <2>5, <2>6, <1>3 DEF StreamOK
<1>4. CASE n > 1
  <2>1. /\ EvictedGap(r) = 0
        /\ e \in Seq(Delivery) /\ Len(e) = n - 1
        /\ \A i \in 2..(n - 1) : e[i] = r[i + 1]
        /\ e[1].seq = r[2].seq /\ e[1].nth = r[2].nth
        /\ e[1].missed_before = r[2].missed_before + r[1].missed_before + 1
    BY <1>4, EvictedFields
  <2>2. e # <<>> /\ 1 \in 1..(n - 1) /\ 2 \in 1..n
    BY <2>1, <1>1, <1>4, EmptyLen
  <2> HIDE DEF e, n
  <2>3. \A i \in 1..(n - 1) :
          /\ i + 1 \in 1..n /\ i \in 1..n
          /\ i = 1 \/ (i \in 2..(n - 1) /\ i - 1 \in 1..(n - 1))
    <3> SUFFICES ASSUME NEW i \in 1..(n - 1)
                 PROVE  /\ i + 1 \in 1..n /\ i \in 1..n
                        /\ i = 1 \/ (i \in 2..(n - 1) /\ i - 1 \in 1..(n - 1))
      OBVIOUS
    <3>1. i \in Int /\ 1 <= i /\ i <= n - 1
      BY <1>1
    <3> QED
      BY <3>1, <1>1
  <2>4. \A i \in 1..(n - 1) : e[i].seq = r[i + 1].seq /\ e[i].nth = r[i + 1].nth
    BY <2>1, <2>3
  <2>5. Final(e, l).seq = r[n].seq /\ Final(e, l).nth = r[n].nth
    <3>1. Final(e, l) = e[n - 1] /\ n - 1 \in 1..(n - 1) /\ (n - 1) + 1 = n
      BY <2>1, <2>2, <1>1, <1>4 DEF Final
    <3> QED
      BY <3>1, <2>4
  <2>6. \A i \in 1..(n - 1) : i # 1 => /\ Prior(e, l, i).seq = r[i].seq
                                       /\ Prior(e, l, i).nth = r[i].nth
    <3> SUFFICES ASSUME NEW i \in 1..(n - 1), i # 1
                 PROVE  Prior(e, l, i).seq = r[i].seq /\ Prior(e, l, i).nth = r[i].nth
      OBVIOUS
    <3>1. i - 1 \in 1..(n - 1) /\ (i - 1) + 1 = i
      BY <2>3
    <3>2. e[i - 1].seq = r[i].seq /\ e[i - 1].nth = r[i].nth
      BY <3>1, <2>4
    <3> QED
      BY <3>2 DEF Prior
  <2>7. \A i \in 1..(n - 1) : /\ r[i].seq < r[i + 1].seq
                              /\ r[i + 1].missed_before = r[i + 1].nth - r[i].nth - 1
    <3> SUFFICES ASSUME NEW i \in 1..(n - 1)
                 PROVE  /\ r[i].seq < r[i + 1].seq
                        /\ r[i + 1].missed_before = r[i + 1].nth - r[i].nth - 1
      OBVIOUS
    <3>1. i + 1 \in 1..n /\ Prior(r, l, i + 1) = r[i]
      BY <2>3 DEF Prior
    <3> QED
      BY <3>1 DEF StreamOK, Ordered, Gapped, n
  <2>8. Ordered(e, l)
    <3> SUFFICES ASSUME NEW i \in 1..(n - 1)
                 PROVE  Prior(e, l, i).seq < e[i].seq
      BY <2>1 DEF Ordered
    <3>1. CASE i = 1
      <4>1. Prior(e, l, i) = l /\ l.seq < r[1].seq /\ r[1].seq < r[2].seq /\ e[i].seq = r[2].seq
        BY <3>1, <2>1, <2>2, <2>7, <1>2 DEF Prior
      <4> QED
        BY <4>1, <2>2, <1>1
    <3>2. CASE i # 1
      BY <3>2, <2>4, <2>6, <2>7
    <3> QED
      BY <3>1, <3>2
  <2>9. Gapped(e, l)
    <3> SUFFICES ASSUME NEW i \in 1..(n - 1)
                 PROVE  e[i].missed_before = e[i].nth - Prior(e, l, i).nth - 1
      BY <2>1 DEF Gapped
    <3>1. CASE i = 1
      <4>1. /\ Prior(e, l, i) = l /\ e[i].nth = r[2].nth
            /\ e[i].missed_before = r[2].missed_before + r[1].missed_before + 1
            /\ r[2].missed_before = r[2].nth - r[1].nth - 1
        BY <3>1, <2>1, <2>2, <2>7 DEF Prior
      <4>3. /\ r[1].nth \in Nat /\ r[2].nth \in Nat
            /\ r[1].missed_before \in Nat /\ r[2].missed_before \in Nat
        BY <2>2, <1>1
      <4>4. r[2].missed_before + r[1].missed_before + 1 = r[2].nth - l.nth - 1
        <5> DEFINE x == r[2].nth
                   y == r[1].nth
                   z == l.nth
                   a == r[2].missed_before
                   b == r[1].missed_before
        <5>1. /\ x \in Nat /\ y \in Nat /\ z \in Nat /\ a = x - y - 1 /\ b = y - z - 1
          BY <4>1, <4>3, <1>1, <1>2
        <5> HIDE DEF x, y, z, a, b
        <5>2. a + b + 1 = x - z - 1
          BY <5>1
        <5> QED
          BY <5>2 DEF x, y, z, a, b
      <4> QED
        BY <4>1, <4>4
    <3>2. CASE i # 1
      BY <3>2, <2>1, <2>3, <2>4, <2>6, <2>7
    <3> QED
      BY <3>1, <3>2
  <2>10. Spread(e, l, off)
    <3>1. ASSUME NEW i \in 1..(n - 1)
          PROVE  l.nth + i <= e[i].nth /\ e[i].nth <= off
      <4>1. l.nth + (i + 1) <= r[i + 1].nth /\ r[i + 1].nth <= off /\ r[i + 1].nth \in Nat
        BY <2>3, <1>1 DEF StreamOK, Spread, n
      <4> QED
        BY <4>1, <2>4, <1>1
    <3>2. ASSUME NEW i \in 1..(n - 1), NEW j \in 1..(n - 1), i <= j
          PROVE  j - i <= e[j].nth - e[i].nth
      <4>1. (j + 1) - (i + 1) <= r[j + 1].nth - r[i + 1].nth
        <5>1. i + 1 \in 1..n /\ j + 1 \in 1..n /\ i + 1 <= j + 1
          BY <3>2, <2>3
        <5> QED
          BY <5>1 DEF StreamOK, Spread, n
      <4>2. (j + 1) - (i + 1) = j - i
        BY <1>1
      <4> QED
        BY <4>1, <4>2, <2>4
    <3> QED
      BY <3>1, <3>2, <2>1 DEF Spread
  <2>11. Counted(e, l, off, tk, td, ms + 1, pd + 0)
    <3>1. pd + 0 = off - Final(e, l).nth
      BY <2>5, <1>1, <1>2
    <3>2. off = tk + Len(e) + (ms + 1)
      BY <2>1, <1>1, <1>2
    <3> QED
      BY <3>1, <3>2, <1>2 DEF Counted
  <2>12. Final(e, l).seq <= Final(r, l).seq
    BY <2>5, <1>1, <1>2
  <2> QED
    BY <2>1, <2>8, <2>9, <2>10, <2>11, <2>12 DEF StreamOK, e, n
<1> HIDE DEF n
<1>5. n = 1 \/ n > 1
  <2>1. n \in Nat /\ n >= 1
    BY <1>1
  <2> QED
    BY <2>1
<1> QED
  BY <1>3, <1>4, <1>5

-----------------------------------------------------------------------------
(***************************************************************************)
(* The steps of a publisher at a slot, and of a consumer, on the stream.   *)
(***************************************************************************)
\* The parts of the type invariant that the streams need.
LEMMA SlotTypes ==
  ASSUME TypeOK, NEW s \in Sub
  PROVE  /\ ring[s] \in Seq(Delivery) /\ last[s] \in Delivery
         /\ offered[s] \in Nat /\ taken[s] \in Nat /\ told[s] \in Nat
         /\ missed_total[s] \in Nat /\ pending_missed[s] \in Nat
         /\ Capacity[s] \in Nat /\ Len(ring[s]) <= Capacity[s]
BY BusAssumption DEF TypeOK

\* Buffer, in the terms of Evict and Push: a ring within its capacity has one
\* delivery to drop when it is full.
LEMMA BufferShape ==
  ASSUME TypeOK, NEW s \in Sub, NEW q \in Nat, Capacity[s] # 0, Buffer(s, q)
  PROVE  LET full == Len(ring[s]) >= Capacity[s]
             r == IF full THEN Evicted(ring[s]) ELSE ring[s]
             m == IF full THEN pending_missed[s] + EvictedGap(ring[s])
                          ELSE pending_missed[s]
         IN  /\ full => ring[s] # <<>>
             /\ ring' = [ring EXCEPT ![s] =
                           Append(r, [seq |-> q, missed_before |-> m,
                                      nth |-> offered[s] + 1])]
             /\ pending_missed' = [pending_missed EXCEPT ![s] = 0]
             /\ missed_total' = [missed_total EXCEPT ![s] =
                                   IF full THEN missed_total[s] + 1 ELSE missed_total[s]]
<1>1. /\ ring[s] \in Seq(Delivery) /\ Capacity[s] \in Nat /\ pending_missed[s] \in Nat
      /\ missed_total[s] \in Nat
  BY SlotTypes
<1>2. CASE Len(ring[s]) >= Capacity[s]
  <2>1. ring[s] # <<>>
    BY <1>1, <1>2
  <2>2. Head(ring[s]) \in Delivery /\ Head(ring[s]).missed_before \in Nat
    BY <2>1, <1>1, TailFields, Fields
  <2>3. Head(ring[s]).missed_before + 1 > 0
    BY <2>2
  <2>4. CASE Tail(ring[s]) = <<>>
    BY <1>2, <2>1, <2>4 DEF Buffer, Evicted, EvictedGap
  <2>5. CASE Tail(ring[s]) # <<>>
    BY <1>1, <1>2, <2>1, <2>3, <2>5 DEF Buffer, Evicted, EvictedGap
  <2> QED
    BY <2>4, <2>5
<1>3. CASE ~(Len(ring[s]) >= Capacity[s])
  <2>1. ~(0 > 0)
    OBVIOUS
  <2>2. pending_missed[s] + 0 = pending_missed[s] /\ missed_total[s] + 0 = missed_total[s]
    BY <1>1
  <2> QED
    BY <1>3, <2>1, <2>2, Zenon DEF Buffer
<1> QED
  BY <1>2, <1>3

\* What the buffering of an event does to its stream, and to no other.
LEMMA Buffered ==
  ASSUME TypeOK, StreamsOK, NEW s \in Sub, NEW q \in Nat, Capacity[s] # 0,
         Buffer(s, q), Final(ring[s], last[s]).seq < q
  PROVE  /\ ring' \in [Sub -> Seq(Delivery)] /\ Len(ring'[s]) <= Capacity[s]
         /\ pending_missed' \in [Sub -> Nat] /\ missed_total' \in [Sub -> Nat]
         /\ missed_total'[s] \in {missed_total[s], missed_total[s] + 1}
         /\ Final(ring'[s], last[s]).seq = q
         /\ StreamOK(ring'[s], last[s], offered[s] + 1, taken[s], told[s],
                     missed_total'[s], pending_missed'[s])
         /\ \A t \in Sub \ {s} : /\ ring'[t] = ring[t]
                                 /\ pending_missed'[t] = pending_missed[t]
                                 /\ missed_total'[t] = missed_total[t]
<1> DEFINE full == Len(ring[s]) >= Capacity[s]
           r == IF full THEN Evicted(ring[s]) ELSE ring[s]
           m == IF full THEN pending_missed[s] + EvictedGap(ring[s])
                        ELSE pending_missed[s]
           ms == IF full THEN missed_total[s] + 1 ELSE missed_total[s]
           d == [seq |-> q, missed_before |-> m, nth |-> offered[s] + 1]
<1>1. /\ ring[s] \in Seq(Delivery) /\ last[s] \in Delivery
      /\ offered[s] \in Nat /\ taken[s] \in Nat /\ told[s] \in Nat
      /\ missed_total[s] \in Nat /\ pending_missed[s] \in Nat
      /\ Capacity[s] \in Nat /\ Len(ring[s]) <= Capacity[s] /\ Len(ring[s]) \in Nat
      /\ Final(ring[s], last[s]).seq \in Int
  BY SlotTypes, RingFields
<1>2. StreamOK(ring[s], last[s], offered[s], taken[s], told[s], missed_total[s],
               pending_missed[s])
  BY DEF StreamsOK
<1>3. /\ full => ring[s] # <<>>
      /\ ring' = [ring EXCEPT ![s] = Append(r, d)]
      /\ pending_missed' = [pending_missed EXCEPT ![s] = 0]
      /\ missed_total' = [missed_total EXCEPT ![s] = ms]
  BY BufferShape
<1>4. /\ r \in Seq(Delivery) /\ m \in Nat /\ ms \in Nat
      /\ StreamOK(r, last[s], offered[s], taken[s], told[s], ms, m)
      /\ Final(r, last[s]).seq < q /\ Len(r) + 1 <= Capacity[s]
  <2>1. CASE full
    <3>1. /\ r = Evicted(ring[s]) /\ m = pending_missed[s] + EvictedGap(ring[s])
          /\ ms = missed_total[s] + 1
      BY <2>1
    <3>2. /\ Evicted(ring[s]) \in Seq(Delivery)
          /\ Len(Evicted(ring[s])) = Len(ring[s]) - 1
          /\ EvictedGap(ring[s]) \in Nat
          /\ StreamOK(Evicted(ring[s]), last[s], offered[s], taken[s], told[s],
                      missed_total[s] + 1, pending_missed[s] + EvictedGap(ring[s]))
          /\ Final(Evicted(ring[s]), last[s]).seq <= Final(ring[s], last[s]).seq
      BY <1>1, <1>2, <1>3, <2>1, Evict
    <3>3. Final(Evicted(ring[s]), last[s]).seq < q
      <4>1. Final(Evicted(ring[s]), last[s]).seq \in Int
        BY <3>2, <1>1, RingFields
      <4>2. \A x, y \in Int : x <= y /\ y < q => x < q
        OBVIOUS
      <4> QED
        BY <4>1, <4>2, <3>2, <1>1
    <3>4. Len(Evicted(ring[s])) + 1 <= Capacity[s]
      BY <3>2, <1>1
    <3>5. pending_missed[s] + EvictedGap(ring[s]) \in Nat /\ missed_total[s] + 1 \in Nat
      BY <3>2, <1>1
    <3> HIDE DEF r, m, ms
    <3> QED
      BY <3>1, <3>2, <3>3, <3>4, <3>5
  <2>2. CASE ~full
    <3>1. r = ring[s] /\ m = pending_missed[s] /\ ms = missed_total[s]
      BY <2>2
    <3>2. Len(ring[s]) + 1 <= Capacity[s]
      BY <2>2, <1>1
    <3> HIDE DEF r, m, ms, full
    <3> QED
      BY <3>1, <3>2, <1>1, <1>2
  <2> QED
    BY <2>1, <2>2
<1>5. ms \in {missed_total[s], missed_total[s] + 1}
  OBVIOUS
<1> HIDE DEF r, m, ms, full
<1>6. d \in Delivery /\ d.seq = q /\ d.missed_before = m /\ d.nth = offered[s] + 1
  BY <1>1, <1>4 DEF Delivery
<1> HIDE DEF d
<1>7. Follows(d, Final(r, last[s]), offered[s], m)
  BY <1>4, <1>6 DEF Follows
<1>8. /\ StreamOK(Append(r, d), last[s], offered[s] + 1, taken[s], told[s], ms, 0)
      /\ Final(Append(r, d), last[s]) = d
  <2>1. /\ last[s] \in Delivery /\ offered[s] \in Nat /\ taken[s] \in Nat /\ told[s] \in Nat
    BY <1>1
  <2>2. r \in Seq(Delivery) /\ m \in Nat /\ ms \in Nat /\ d \in Delivery
    BY <1>4, <1>6
  <2>3. StreamOK(r, last[s], offered[s], taken[s], told[s], ms, m)
    BY <1>4
  <2>4. StreamOK(Append(r, d), last[s], offered[s] + 1, taken[s], told[s], ms, 0)
    BY <2>1, <2>2, <2>3, <1>7, Push
  <2>5. Final(Append(r, d), last[s]) = d
    BY <2>2, AppendFields DEF Final
  <2> QED
    BY <2>4, <2>5
<1>9. Append(r, d) \in Seq(Delivery) /\ Len(Append(r, d)) = Len(r) + 1
  BY <1>4, <1>6, AppendFields
<1>10. /\ ring \in [Sub -> Seq(Delivery)] /\ pending_missed \in [Sub -> Nat]
       /\ missed_total \in [Sub -> Nat]
  BY DEF TypeOK
<1>11. /\ ring'[s] = Append(r, d) /\ pending_missed'[s] = 0 /\ missed_total'[s] = ms
       /\ ring' \in [Sub -> Seq(Delivery)]
       /\ pending_missed' \in [Sub -> Nat] /\ missed_total' \in [Sub -> Nat]
       /\ \A t \in Sub \ {s} : /\ ring'[t] = ring[t]
                               /\ pending_missed'[t] = pending_missed[t]
                               /\ missed_total'[t] = missed_total[t]
  BY <1>3, <1>4, <1>9, <1>10
<1> QED
  BY <1>4, <1>5, <1>6, <1>8, <1>9, <1>11

\* What the loss of an event does to its stream, and to no other.
LEMMA Lost ==
  ASSUME TypeOK, StreamsOK, NEW s \in Sub, CountLoss(s)
  PROVE  /\ ring' = ring
         /\ pending_missed' \in [Sub -> Nat] /\ missed_total' \in [Sub -> Nat]
         /\ missed_total'[s] = missed_total[s] + 1
         /\ StreamOK(ring'[s], last[s], offered[s] + 1, taken[s], told[s],
                     missed_total'[s], pending_missed'[s])
         /\ \A t \in Sub \ {s} : /\ pending_missed'[t] = pending_missed[t]
                                 /\ missed_total'[t] = missed_total[t]
<1>1. /\ ring' = ring
      /\ pending_missed'[s] = pending_missed[s] + 1
      /\ missed_total'[s] = missed_total[s] + 1
      /\ pending_missed' \in [Sub -> Nat] /\ missed_total' \in [Sub -> Nat]
      /\ \A t \in Sub \ {s} : /\ pending_missed'[t] = pending_missed[t]
                              /\ missed_total'[t] = missed_total[t]
  BY DEF CountLoss, TypeOK
<1>2. StreamOK(ring[s], last[s], offered[s] + 1, taken[s], told[s],
               missed_total[s] + 1, pending_missed[s] + 1)
  BY SlotTypes, Lose DEF StreamsOK
<1> QED
  BY <1>1, <1>2

\* A publisher past the registry lock.
LEMMA Publishing ==
  ASSUME TypeOK, NEW p \in Publisher, pub[p] # Idle
  PROVE  /\ pub[p] \in FanOut
         /\ pub[p].at = "fanout" /\ pub[p].topic \in Topic /\ pub[p].seq \in Nat
         /\ pub[p].todo \subseteq Sub /\ pub[p].notify \subseteq Sub
<1>1. pub[p] \in FanOut
  BY DEF TypeOK
<1> QED
  BY <1>1 DEF FanOut

\* A fan-out with t left to do and n to notify.
Advanced(f, t, n) == [f EXCEPT !.todo = t, !.notify = n]

\* The record of a fan-out after a step of it.
LEMMA FanOutUpdate ==
  ASSUME NEW f \in FanOut, NEW t \in SUBSET Sub, NEW n \in SUBSET Sub
  PROVE  /\ Advanced(f, t, n) \in FanOut /\ Advanced(f, t, n) # Idle
         /\ Advanced(f, t, n).todo = t /\ Advanced(f, t, n).notify = n
         /\ Advanced(f, t, n).seq = f.seq
<1> DEFINE g == Advanced(f, t, n)
<1>1. g \in FanOut
  BY DEF FanOut, Advanced
<1>2. g.todo = t /\ g.notify = n /\ g.seq = f.seq
  BY DEF FanOut, Advanced
<1>3. g.at = "fanout"
  BY DEF FanOut, Advanced
<1>4. Idle.at = "idle"
  BY DEF Idle
<1> QED
  BY <1>1, <1>2, <1>3, <1>4

\* One step of a fan-out changes what is left to do and to notify, and no more.
LEMMA FanOutStep ==
  ASSUME TypeOK, NEW p \in Publisher, pub[p] # Idle,
         NEW t \in SUBSET Sub, NEW n \in SUBSET Sub,
         pub' = [pub EXCEPT ![p] = Advanced(pub[p], t, n)]
  PROVE  /\ pub' \in [Publisher -> {Idle} \cup FanOut]
         /\ pub'[p] # Idle
         /\ pub'[p].todo = t /\ pub'[p].notify = n /\ pub'[p].seq = pub[p].seq
         /\ \A q \in Publisher \ {p} : pub'[q] = pub[q]
<1> DEFINE g == Advanced(pub[p], t, n)
<1>1. /\ g \in FanOut /\ g # Idle
      /\ g.todo = t /\ g.notify = n /\ g.seq = pub[p].seq
  <2>1. pub[p] \in FanOut
    BY Publishing
  <2> QED
    BY <2>1, FanOutUpdate
<1> HIDE DEF g
<1>2. pub' = [pub EXCEPT ![p] = g]
  BY DEF g
<1>3. pub \in [Publisher -> {Idle} \cup FanOut]
  BY DEF TypeOK
<1> QED
  BY <1>1, <1>2, <1>3

\* The updates of Offer, Skip and Notify are such steps.
LEMMA TodoShape ==
  ASSUME TypeOK, NEW p \in Publisher, pub[p] # Idle, NEW s \in Sub
  PROVE  /\ [pub EXCEPT ![p].todo = @ \ {s}] =
              [pub EXCEPT ![p] = Advanced(pub[p], pub[p].todo \ {s}, pub[p].notify)]
         /\ [pub EXCEPT ![p].todo = @ \ {s}, ![p].notify = {s}] =
              [pub EXCEPT ![p] = Advanced(pub[p], pub[p].todo \ {s}, {s})]
         /\ [pub EXCEPT ![p].notify = {}] =
              [pub EXCEPT ![p] = Advanced(pub[p], pub[p].todo, {})]
<1>1. pub \in [Publisher -> {Idle} \cup FanOut] /\ pub[p] \in FanOut
  BY Publishing DEF TypeOK
<1>2. [pub[p] EXCEPT !.todo = @ \ {s}] =
        [pub[p] EXCEPT !.todo = pub[p].todo \ {s}, !.notify = pub[p].notify]
  BY <1>1 DEF FanOut
<1>3. [pub[p] EXCEPT !.notify = {}] =
        [pub[p] EXCEPT !.todo = pub[p].todo, !.notify = {}]
  BY <1>1 DEF FanOut
<1>4. [pub EXCEPT ![p].todo = @ \ {s}] =
        [pub EXCEPT ![p] = [pub[p] EXCEPT !.todo = @ \ {s}]]
  BY <1>1
<1>5. [pub EXCEPT ![p].notify = {}] = [pub EXCEPT ![p] = [pub[p] EXCEPT !.notify = {}]]
  BY <1>1
<1>6. [pub EXCEPT ![p].todo = @ \ {s}, ![p].notify = {s}] =
        [pub EXCEPT ![p] = [pub[p] EXCEPT !.todo = pub[p].todo \ {s}, !.notify = {s}]]
  BY <1>1 DEF FanOut
<1> QED
  BY <1>2, <1>3, <1>4, <1>5, <1>6 DEF Advanced

-----------------------------------------------------------------------------
(***************************************************************************)
(* The invariant is inductive.                                             *)
(***************************************************************************)

\* The invariant holds at the start.
LEMMA InitInv == Init => BusInv
<1> SUFFICES ASSUME Init
             PROVE  BusInv
  OBVIOUS
<1>1. NoDelivery \in Delivery /\ NoDelivery.seq = -1 /\ NoDelivery.nth = 0
  BY DEF NoDelivery, Delivery
<1>2. \A s \in Sub : /\ ring[s] = <<>> /\ last[s] = NoDelivery
                     /\ Final(ring[s], last[s]) = NoDelivery
                     /\ offered[s] = 0 /\ taken[s] = 0 /\ told[s] = 0
                     /\ missed_total[s] = 0 /\ pending_missed[s] = 0
  BY DEF Init, Final
<1>3. TypeOK
  BY <1>1, BusAssumption DEF Init, TypeOK, ConsumerState, Holding, Reply
<1>4. StreamsOK
  <2> SUFFICES ASSUME NEW s \in Sub
               PROVE  StreamOK(ring[s], last[s], offered[s], taken[s], told[s],
                               missed_total[s], pending_missed[s])
    BY DEF StreamsOK
  <2>1. Len(ring[s]) = 0 /\ 1..Len(ring[s]) = {}
    BY <1>2
  <2>2. Counted(ring[s], last[s], offered[s], taken[s], told[s], missed_total[s],
                pending_missed[s])
    BY <1>1, <1>2, <2>1 DEF Counted
  <2> QED
    BY <2>1, <2>2 DEF StreamOK, Ordered, Gapped, Spread
<1>5. Serial
  BY DEF Init, Serial
<1>6. SeqsOK
  BY <1>1, <1>2 DEF Init, SeqsOK
<1>7. PhasesOK /\ LiveListed /\ NoLostWakeup
  BY DEF Init, PhasesOK, LiveListed, Live, NoLostWakeup
<1> QED
  BY <1>3, <1>4, <1>5, <1>6, <1>7 DEF BusInv

\* While a publisher is past the registry lock the bus is open, nobody is
\* closed, and nobody else publishes.
LEMMA Alone ==
  ASSUME BusInv, NEW p \in Publisher, pub[p] # Idle
  PROVE  /\ bus = "open" /\ closing = {}
         /\ \A s \in Sub : ~closed[s] /\ reply[s] # "Closed"
         /\ \A q \in Publisher \ {p} : pub[q] = Idle
<1>1. bus = "open"
  BY DEF BusInv, PhasesOK, RegistryFree
<1>2. closing = {} /\ \A s \in Sub : ~closed[s]
  BY <1>1 DEF BusInv, PhasesOK
<1>3. \A s \in Sub : reply[s] # "Closed"
  BY <1>2 DEF BusInv, PhasesOK
<1>4. \A q \in Publisher \ {p} : pub[q] = Idle
  BY DEF BusInv, Serial
<1> QED
  BY <1>1, <1>2, <1>3, <1>4

\* What Offer does, whether the event is lost or buffered.
LEMMA OfferEffect ==
  ASSUME BusInv, NEW p \in Publisher, NEW s \in Sub, Offer(p, s)
  PROVE  /\ pub[p] # Idle /\ s \in pub[p].todo /\ pub[p].notify = {}
         /\ ring' \in [Sub -> Seq(Delivery)] /\ Len(ring'[s]) <= Capacity[s]
         /\ pending_missed' \in [Sub -> Nat] /\ missed_total' \in [Sub -> Nat]
         /\ missed_total'[s] \in {missed_total[s], missed_total[s] + 1}
         /\ offered' = [offered EXCEPT ![s] = offered[s] + 1]
         /\ StreamOK(ring'[s], last[s], offered[s] + 1, taken[s], told[s],
                     missed_total'[s], pending_missed'[s])
         /\ \A t \in Sub \ {s} : /\ ring'[t] = ring[t]
                                 /\ pending_missed'[t] = pending_missed[t]
                                 /\ missed_total'[t] = missed_total[t]
         /\ Final(ring'[s], last[s]).seq < next_seq
         /\ pub' \in [Publisher -> {Idle} \cup FanOut] /\ pub'[p] # Idle
         /\ pub'[p].todo = pub[p].todo \ {s} /\ pub'[p].seq = pub[p].seq
         /\ \A q \in Publisher \ {p} : pub'[q] = pub[q]
         /\ \/ ring'[s] = ring[s] /\ pub'[p].notify = {}
            \/ pub'[p].notify = {s}
<1>1. /\ pub[p] # Idle /\ s \in pub[p].todo /\ pub[p].notify = {}
      /\ offered' = [offered EXCEPT ![s] = offered[s] + 1]
  BY DEF Offer
<1>2. TypeOK /\ StreamsOK /\ SeqsOK
  BY DEF BusInv
<1>3. /\ pub[p].seq \in Nat /\ pub[p].todo \ {s} \in SUBSET Sub
      /\ {} \in SUBSET Sub /\ {s} \in SUBSET Sub
  BY <1>1, <1>2, Publishing
<1>4. /\ pub[p].seq < next_seq /\ Final(ring[s], last[s]).seq < pub[p].seq
      /\ Final(ring[s], last[s]).seq < next_seq
  BY <1>1, <1>2 DEF SeqsOK
<1>5. CASE CountLoss(s) /\ pub' = [pub EXCEPT ![p].todo = @ \ {s}]
  <2>1. pub' = [pub EXCEPT ![p] = Advanced(pub[p], pub[p].todo \ {s}, {})]
    BY <1>1, <1>2, <1>5, TodoShape
  <2>2. /\ pub' \in [Publisher -> {Idle} \cup FanOut] /\ pub'[p] # Idle
        /\ pub'[p].todo = pub[p].todo \ {s} /\ pub'[p].notify = {}
        /\ pub'[p].seq = pub[p].seq
        /\ \A q \in Publisher \ {p} : pub'[q] = pub[q]
    BY <2>1, <1>1, <1>2, <1>3, FanOutStep
  <2>3. /\ ring' = ring
        /\ pending_missed' \in [Sub -> Nat] /\ missed_total' \in [Sub -> Nat]
        /\ missed_total'[s] = missed_total[s] + 1
        /\ StreamOK(ring'[s], last[s], offered[s] + 1, taken[s], told[s],
                    missed_total'[s], pending_missed'[s])
        /\ \A t \in Sub \ {s} : /\ pending_missed'[t] = pending_missed[t]
                                /\ missed_total'[t] = missed_total[t]
    BY <1>2, <1>5, Lost
  <2>4. ring' \in [Sub -> Seq(Delivery)] /\ Len(ring'[s]) <= Capacity[s]
    BY <2>3, <1>2 DEF TypeOK
  <2> QED
    BY <1>1, <1>4, <2>2, <2>3, <2>4
<1>6. CASE /\ Capacity[s] # 0 /\ Buffer(s, pub[p].seq)
           /\ pub' = [pub EXCEPT ![p].todo = @ \ {s}, ![p].notify = {s}]
  <2>1. pub' = [pub EXCEPT ![p] = Advanced(pub[p], pub[p].todo \ {s}, {s})]
    BY <1>1, <1>2, <1>6, TodoShape
  <2>2. /\ pub' \in [Publisher -> {Idle} \cup FanOut] /\ pub'[p] # Idle
        /\ pub'[p].todo = pub[p].todo \ {s} /\ pub'[p].notify = {s}
        /\ pub'[p].seq = pub[p].seq
        /\ \A q \in Publisher \ {p} : pub'[q] = pub[q]
    BY <2>1, <1>1, <1>2, <1>3, FanOutStep
  <2>3. /\ ring' \in [Sub -> Seq(Delivery)] /\ Len(ring'[s]) <= Capacity[s]
        /\ pending_missed' \in [Sub -> Nat] /\ missed_total' \in [Sub -> Nat]
        /\ missed_total'[s] \in {missed_total[s], missed_total[s] + 1}
        /\ Final(ring'[s], last[s]).seq = pub[p].seq
        /\ StreamOK(ring'[s], last[s], offered[s] + 1, taken[s], told[s],
                    missed_total'[s], pending_missed'[s])
        /\ \A t \in Sub \ {s} : /\ ring'[t] = ring[t]
                                /\ pending_missed'[t] = pending_missed[t]
                                /\ missed_total'[t] = missed_total[t]
    BY <1>2, <1>3, <1>4, <1>6, Buffered
  <2> QED
    BY <1>1, <1>4, <2>2, <2>3
<1> QED
  BY <1>5, <1>6 DEF Offer

\* offer keeps the invariant.
LEMMA OfferStep ==
  ASSUME BusInv, NEW p \in Publisher, NEW s \in Sub, Offer(p, s)
  PROVE  BusInv'
<1>1. /\ pub[p] # Idle /\ s \in pub[p].todo /\ pub[p].notify = {}
      /\ ring' \in [Sub -> Seq(Delivery)] /\ Len(ring'[s]) <= Capacity[s]
      /\ pending_missed' \in [Sub -> Nat] /\ missed_total' \in [Sub -> Nat]
      /\ offered' = [offered EXCEPT ![s] = offered[s] + 1]
      /\ StreamOK(ring'[s], last[s], offered[s] + 1, taken[s], told[s],
                  missed_total'[s], pending_missed'[s])
      /\ \A t \in Sub \ {s} : /\ ring'[t] = ring[t]
                              /\ pending_missed'[t] = pending_missed[t]
                              /\ missed_total'[t] = missed_total[t]
      /\ Final(ring'[s], last[s]).seq < next_seq
      /\ pub' \in [Publisher -> {Idle} \cup FanOut] /\ pub'[p] # Idle
      /\ pub'[p].todo = pub[p].todo \ {s} /\ pub'[p].seq = pub[p].seq
      /\ \A q \in Publisher \ {p} : pub'[q] = pub[q]
      /\ \/ ring'[s] = ring[s] /\ pub'[p].notify = {}
         \/ pub'[p].notify = {s}
  BY OfferEffect
<1>2. /\ bus = "open" /\ closing = {}
      /\ \A t \in Sub : ~closed[t] /\ reply[t] # "Closed"
      /\ \A q \in Publisher \ {p} : pub[q] = Idle
  BY <1>1, Alone
<1>3. UNCHANGED <<bus, handle, subscriptions, next_seq, closing, closed, consumer,
                  reply, taken, told, last>>
  BY DEF Offer, recvVars
<1>4. TypeOK /\ StreamsOK /\ SeqsOK /\ Serial /\ PhasesOK /\ LiveListed /\ NoLostWakeup
  BY DEF BusInv
<1>5. offered' \in [Sub -> Nat] /\ offered'[s] = offered[s] + 1
      /\ \A t \in Sub \ {s} : offered'[t] = offered[t]
  BY <1>1, <1>4 DEF TypeOK
<1>6. TypeOK'
  <2>1. \A t \in Sub : Len(ring'[t]) <= Capacity[t]
    BY <1>1, <1>4 DEF TypeOK
  <2> QED
    BY <1>1, <1>3, <1>4, <1>5, <2>1 DEF TypeOK
<1>7. StreamsOK'
  BY <1>1, <1>3, <1>4, <1>5 DEF StreamsOK
<1>8. Serial'
  <2>1. \A q \in Publisher : pub'[q] # Idle => q = p
    BY <1>1, <1>2
  <2>2. \A t \in pub'[p].notify : pub'[p].notify = {t}
    BY <1>1
  <2> QED
    BY <2>1, <2>2 DEF Serial
<1>9. SeqsOK'
  <2>1. \A t \in Sub : Final(ring'[t], last'[t]).seq < next_seq'
    BY <1>1, <1>3, <1>4 DEF SeqsOK
  <2>2. pub'[p].seq < next_seq'
    BY <1>1, <1>3, <1>4 DEF SeqsOK
  <2>3. \A t \in pub'[p].todo : Final(ring'[t], last'[t]).seq < pub'[p].seq
    <3>1. \A t \in pub'[p].todo : t \in Sub \ {s} /\ t \in pub[p].todo
      BY <1>1, <1>4, Publishing
    <3> QED
      BY <3>1, <1>1, <1>3, <1>4 DEF SeqsOK
  <2> QED
    BY <2>1, <2>2, <2>3, <1>1, <1>2 DEF SeqsOK
<1>10. PhasesOK'
  BY <1>2, <1>3, <1>4 DEF PhasesOK
<1>11. LiveListed'
  BY <1>3, <1>4 DEF LiveListed, Live
<1>12. NoLostWakeup'
  <2>1. \A t \in Sub : consumer[t] = "waiting" => ring[t] = <<>>
    BY <1>1, <1>2, <1>4 DEF NoLostWakeup
  <2> SUFFICES ASSUME NEW t \in Sub, consumer'[t] = "waiting", ring'[t] # <<>> \/ closed'[t]
               PROVE  t \in pub'[p].notify
    BY <1>1 DEF NoLostWakeup
  <2>2. ring'[t] # ring[t]
    BY <2>1, <1>2, <1>3
  <2> QED
    BY <2>2, <1>1
<1> QED
  BY <1>6, <1>7, <1>8, <1>9, <1>10, <1>11, <1>12 DEF BusInv

\* Passing over a slot keeps the invariant.
LEMMA SkipStep ==
  ASSUME BusInv, NEW p \in Publisher, NEW s \in Sub, Skip(p, s)
  PROVE  BusInv'
<1>1. pub[p] # Idle /\ s \in pub[p].todo /\ pub[p].notify = {}
  BY DEF Skip
<1>2. TypeOK /\ StreamsOK /\ SeqsOK /\ Serial /\ PhasesOK /\ LiveListed /\ NoLostWakeup
  BY DEF BusInv
<1>3. /\ bus = "open" /\ closing = {}
      /\ \A t \in Sub : ~closed[t] /\ reply[t] # "Closed"
      /\ \A q \in Publisher \ {p} : pub[q] = Idle
  BY <1>1, Alone
<1>4. /\ pub' \in [Publisher -> {Idle} \cup FanOut] /\ pub'[p] # Idle
      /\ pub'[p].todo = pub[p].todo \ {s} /\ pub'[p].notify = {}
      /\ pub'[p].seq = pub[p].seq
      /\ \A q \in Publisher \ {p} : pub'[q] = pub[q]
  <2>1. pub' = [pub EXCEPT ![p] = Advanced(pub[p], pub[p].todo \ {s}, {})]
    <3>1. pub' = [pub EXCEPT ![p].todo = @ \ {s}]
      BY DEF Skip
    <3> QED
      BY <3>1, <1>1, <1>2, TodoShape
  <2>2. pub[p].todo \ {s} \in SUBSET Sub /\ {} \in SUBSET Sub
    BY <1>1, <1>2, Publishing
  <2> QED
    BY <2>1, <2>2, <1>1, <1>2, FanOutStep
<1>5. UNCHANGED <<bus, handle, next_seq, closing, closed, consumer, ring, pending_missed,
                  missed_total, offered, reply, taken, told, last>>
  BY DEF Skip, slotVars, recvVars
<1>6. \/ subscriptions' = subscriptions
      \/ handle[s] # "live" /\ subscriptions' = subscriptions \ {s}
  BY DEF Skip
<1>7. TypeOK'
  BY <1>2, <1>4, <1>5, <1>6 DEF TypeOK
<1>8. StreamsOK'
  BY <1>2, <1>5 DEF StreamsOK
<1>9. Serial'
  BY <1>3, <1>4 DEF Serial
<1>10. SeqsOK'
  BY <1>1, <1>2, <1>3, <1>4, <1>5 DEF SeqsOK
<1>11. PhasesOK'
  BY <1>2, <1>3, <1>5 DEF PhasesOK
<1>12. LiveListed'
  BY <1>2, <1>5, <1>6 DEF LiveListed, Live
<1>13. NoLostWakeup'
  BY <1>1, <1>2, <1>3, <1>4, <1>5 DEF NoLostWakeup
<1> QED
  BY <1>7, <1>8, <1>9, <1>10, <1>11, <1>12, <1>13 DEF BusInv

\* notify_all keeps the invariant: the one notification owed is given.
LEMMA NotifyStep ==
  ASSUME BusInv, NEW p \in Publisher, NEW s \in Sub, Notify(p, s)
  PROVE  BusInv'
<1>1. pub[p] # Idle /\ s \in pub[p].notify /\ consumer' = [consumer EXCEPT ![s] = Wake(s)]
  BY DEF Notify
<1>2. TypeOK /\ StreamsOK /\ SeqsOK /\ Serial /\ PhasesOK /\ LiveListed /\ NoLostWakeup
  BY DEF BusInv
<1>3. /\ bus = "open" /\ closing = {}
      /\ \A t \in Sub : ~closed[t] /\ reply[t] # "Closed"
      /\ \A q \in Publisher \ {p} : pub[q] = Idle
  BY <1>1, Alone
<1>4. /\ pub' \in [Publisher -> {Idle} \cup FanOut] /\ pub'[p] # Idle
      /\ pub'[p].todo = pub[p].todo /\ pub'[p].notify = {}
      /\ pub'[p].seq = pub[p].seq
      /\ \A q \in Publisher \ {p} : pub'[q] = pub[q]
  <2>1. pub' = [pub EXCEPT ![p] = Advanced(pub[p], pub[p].todo, {})]
    <3>1. pub' = [pub EXCEPT ![p].notify = {}]
      BY DEF Notify
    <3> QED
      BY <3>1, <1>1, <1>2, TodoShape
  <2> DEFINE g == Advanced(pub[p], pub[p].todo, {})
  <2>2. /\ g \in FanOut /\ g # Idle
        /\ g.todo = pub[p].todo /\ g.notify = {} /\ g.seq = pub[p].seq
    <3>1. pub[p] \in FanOut /\ pub[p].todo \in SUBSET Sub /\ {} \in SUBSET Sub
      BY <1>1, <1>2, Publishing
    <3> QED
      BY <3>1, FanOutUpdate
  <2>3. pub \in [Publisher -> {Idle} \cup FanOut]
    BY <1>2 DEF TypeOK
  <2> HIDE DEF g
  <2>4. pub' = [pub EXCEPT ![p] = g]
    BY <2>1 DEF g
  <2> QED
    BY <2>2, <2>3, <2>4
<1>5. UNCHANGED <<bus, handle, subscriptions, next_seq, closing, closed, ring, pending_missed,
                  missed_total, offered, reply, taken, told, last>>
  BY DEF Notify, slotVars, recvVars
<1>6. /\ consumer' \in [Sub -> ConsumerState] /\ consumer'[s] # "waiting"
      /\ consumer'[s] # "idle" => consumer[s] # "idle"
      /\ \A t \in Sub \ {s} : consumer'[t] = consumer[t]
  BY <1>1, <1>2 DEF TypeOK, Wake, ConsumerState, Holding
<1>7. TypeOK'
  BY <1>2, <1>4, <1>5, <1>6 DEF TypeOK
<1>8. StreamsOK'
  BY <1>2, <1>5 DEF StreamsOK
<1>9. Serial'
  BY <1>3, <1>4 DEF Serial
<1>10. SeqsOK'
  BY <1>1, <1>2, <1>3, <1>4, <1>5 DEF SeqsOK
<1>11. PhasesOK'
  BY <1>2, <1>3, <1>5, <1>6 DEF PhasesOK
<1>12. LiveListed'
  BY <1>2, <1>5 DEF LiveListed, Live
<1>13. NoLostWakeup'
  <2>1. pub[p].notify = {s}
    BY <1>1, <1>2 DEF Serial
  <2>2. \A t \in Sub \ {s} : consumer[t] = "waiting" => ring[t] = <<>>
    BY <2>1, <1>1, <1>2, <1>3 DEF NoLostWakeup
  <2> QED
    BY <2>2, <1>3, <1>5, <1>6 DEF NoLostWakeup
<1> QED
  BY <1>7, <1>8, <1>9, <1>10, <1>11, <1>12, <1>13 DEF BusInv

\* A step that leaves publishers, rings and counters alone leaves three parts of
\* the invariant alone.
LEMMA Quiet ==
  ASSUME BusInv, UNCHANGED <<next_seq, pub, ring, pending_missed, missed_total, offered,
                             taken, told, last>>
  PROVE  StreamsOK' /\ Serial' /\ SeqsOK'
BY DEF BusInv, StreamsOK, Serial, SeqsOK

\* Taking the registry lock and a sequence number keeps the invariant.
LEMMA PublishBeginStep ==
  ASSUME BusInv, NEW p \in Publisher, NEW topic \in Topic, PublishBegin(p, topic)
  PROVE  BusInv'
<1> DEFINE f == [at |-> "fanout", topic |-> topic, seq |-> next_seq,
                 todo |-> subscriptions, notify |-> {}]
<1>1. /\ bus = "open" /\ \A q \in Publisher : pub[q] = Idle
      /\ pub' = [pub EXCEPT ![p] = f] /\ next_seq' = next_seq + 1
      /\ UNCHANGED <<bus, handle, subscriptions, closing, closed, consumer, ring,
                     pending_missed, missed_total, offered, reply, taken, told, last>>
  BY DEF PublishBegin, RegistryFree, slotVars, recvVars
<1>2. TypeOK /\ StreamsOK /\ SeqsOK /\ Serial /\ PhasesOK /\ LiveListed /\ NoLostWakeup
  BY DEF BusInv
<1>3. next_seq \in Nat /\ subscriptions \subseteq Sub
      /\ pub \in [Publisher -> {Idle} \cup FanOut]
  BY <1>2 DEF TypeOK
<1>4. f \in FanOut /\ f.seq = next_seq /\ f.todo = subscriptions /\ f.notify = {}
  BY <1>3 DEF FanOut
<1> HIDE DEF f
<1>5. /\ pub' \in [Publisher -> {Idle} \cup FanOut] /\ pub'[p] = f
      /\ \A q \in Publisher \ {p} : pub'[q] = Idle
  BY <1>1, <1>3, <1>4
<1>6. TypeOK'
  BY <1>1, <1>2, <1>5 DEF TypeOK
<1>7. StreamsOK'
  BY <1>1, <1>2 DEF StreamsOK
<1>8. Serial'
  BY <1>4, <1>5 DEF Serial
<1>9. SeqsOK'
  <2>1. \A s \in Sub : /\ Final(ring[s], last[s]).seq \in Int
                       /\ Final(ring[s], last[s]).seq < next_seq
    BY <1>2, SlotTypes, RingFields DEF SeqsOK
  <2>2. \A x \in Int : x < next_seq => x < next_seq + 1
    BY <1>3
  <2>3. \A s \in Sub : Final(ring'[s], last'[s]).seq < next_seq'
    BY <2>1, <2>2, <1>1
  <2>4. next_seq < next_seq + 1
    BY <1>3
  <2>5. f.seq < next_seq' /\ \A s \in f.todo : Final(ring'[s], last'[s]).seq < f.seq
    BY <2>1, <2>4, <1>1, <1>3, <1>4
  <2> QED
    BY <2>3, <2>5, <1>5 DEF SeqsOK
<1>10. PhasesOK'
  BY <1>1, <1>2 DEF PhasesOK
<1>11. LiveListed'
  BY <1>1, <1>2 DEF LiveListed, Live
<1>12. NoLostWakeup'
  BY <1>1, <1>2, <1>5 DEF NoLostWakeup
<1> QED
  BY <1>6, <1>7, <1>8, <1>9, <1>10, <1>11, <1>12 DEF BusInv

\* The return of publish keeps the invariant.
LEMMA PublishEndStep ==
  ASSUME BusInv, NEW p \in Publisher, PublishEnd(p)
  PROVE  BusInv'
<1>1. /\ pub[p] # Idle /\ pub[p].todo = {} /\ pub[p].notify = {}
      /\ pub' = [pub EXCEPT ![p] = Idle]
      /\ UNCHANGED <<bus, handle, subscriptions, next_seq, closing, closed, consumer, ring,
                     pending_missed, missed_total, offered, reply, taken, told, last>>
  BY DEF PublishEnd, slotVars, recvVars
<1>2. TypeOK /\ StreamsOK /\ SeqsOK /\ Serial /\ PhasesOK /\ LiveListed /\ NoLostWakeup
  BY DEF BusInv
<1>3. \A q \in Publisher : q # p => pub[q] = Idle
  BY <1>1, Alone
<1>4. /\ pub' \in [Publisher -> {Idle} \cup FanOut]
      /\ \A q \in Publisher : pub'[q] = Idle
  <2>1. pub \in [Publisher -> {Idle} \cup FanOut]
    BY <1>2 DEF TypeOK
  <2> QED
    BY <2>1, <1>1, <1>3
<1>5. TypeOK'
  BY <1>1, <1>2, <1>4 DEF TypeOK
<1>6. StreamsOK'
  BY <1>1, <1>2 DEF StreamsOK
<1>7. Serial' /\ SeqsOK'
  BY <1>1, <1>2, <1>4 DEF Serial, SeqsOK
<1>8. PhasesOK'
  BY <1>1, <1>2, <1>4 DEF PhasesOK, RegistryFree
<1>9. LiveListed'
  BY <1>1, <1>2 DEF LiveListed, Live
<1>10. NoLostWakeup'
  BY <1>1, <1>2, <1>3 DEF NoLostWakeup
<1> QED
  BY <1>5, <1>6, <1>7, <1>8, <1>9, <1>10 DEF BusInv

\* subscribe_with_capacity keeps the invariant.
LEMMA SubscribeStep ==
  ASSUME BusInv, NEW s \in Sub, Subscribe(s)
  PROVE  BusInv'
<1>1. /\ bus = "open" /\ handle[s] = "unmade"
      /\ handle' = [handle EXCEPT ![s] = "live"]
      /\ subscriptions' = (subscriptions \cap Live) \cup {s}
      /\ UNCHANGED <<bus, next_seq, pub, closing, closed, consumer, ring,
                     pending_missed, missed_total, offered, reply, taken, told, last>>
  BY DEF Subscribe, slotVars, recvVars
<1>2. TypeOK /\ PhasesOK /\ LiveListed /\ NoLostWakeup
  BY DEF BusInv
<1>3. StreamsOK' /\ Serial' /\ SeqsOK'
  BY <1>1, Quiet
<1>4. TypeOK'
  BY <1>1, <1>2 DEF TypeOK, Live
<1>5. PhasesOK'
  BY <1>1, <1>2 DEF PhasesOK, RegistryFree, TypeOK
<1>6. LiveListed'
  BY <1>1, <1>2 DEF LiveListed, Live, TypeOK
<1>7. NoLostWakeup'
  BY <1>1, <1>2 DEF NoLostWakeup
<1> QED
  BY <1>3, <1>4, <1>5, <1>6, <1>7 DEF BusInv

\* Dropping a Subscription keeps the invariant.
LEMMA DropSubscriptionStep ==
  ASSUME BusInv, NEW s \in Sub, DropSubscription(s)
  PROVE  BusInv'
<1>1. /\ handle[s] = "live" /\ consumer[s] = "idle"
      /\ handle' = [handle EXCEPT ![s] = "dropped"]
      /\ UNCHANGED <<bus, subscriptions, next_seq, pub, closing, closed, consumer, ring,
                     pending_missed, missed_total, offered, reply, taken, told, last>>
  BY DEF DropSubscription, slotVars, recvVars
<1>2. TypeOK /\ PhasesOK /\ LiveListed /\ NoLostWakeup
  BY DEF BusInv
<1>3. StreamsOK' /\ Serial' /\ SeqsOK'
  BY <1>1, Quiet
<1>4. TypeOK'
  BY <1>1, <1>2 DEF TypeOK
<1>5. PhasesOK'
  BY <1>1, <1>2 DEF PhasesOK, RegistryFree, TypeOK
<1>6. LiveListed'
  BY <1>1, <1>2 DEF LiveListed, Live, TypeOK
<1>7. NoLostWakeup'
  BY <1>1, <1>2 DEF NoLostWakeup
<1> QED
  BY <1>3, <1>4, <1>5, <1>6, <1>7 DEF BusInv

\* subscriber_count prunes only dead slots.
LEMMA SubscriberCountStep ==
  ASSUME BusInv, SubscriberCount
  PROVE  BusInv'
<1>1. /\ subscriptions' = subscriptions \cap Live
      /\ UNCHANGED <<bus, handle, next_seq, pub, closing, closed, consumer, ring,
                     pending_missed, missed_total, offered, reply, taken, told, last>>
  BY DEF SubscriberCount, slotVars, recvVars
<1>2. TypeOK /\ PhasesOK /\ LiveListed /\ NoLostWakeup
  BY DEF BusInv
<1>3. StreamsOK' /\ Serial' /\ SeqsOK'
  BY <1>1, Quiet
<1>4. TypeOK'
  BY <1>1, <1>2 DEF TypeOK
<1>5. PhasesOK'
  BY <1>1, <1>2 DEF PhasesOK, RegistryFree
<1>6. LiveListed'
  BY <1>1, <1>2 DEF LiveListed, Live
<1>7. NoLostWakeup'
  BY <1>1, <1>2 DEF NoLostWakeup
<1> QED
  BY <1>3, <1>4, <1>5, <1>6, <1>7 DEF BusInv

\* The start of Drop for Bus keeps the invariant.
LEMMA DropBusStep ==
  ASSUME BusInv, DropBus
  PROVE  BusInv'
<1>1. /\ bus = "open" /\ RegistryFree /\ bus' = "closing" /\ closing' = subscriptions
      /\ UNCHANGED <<handle, subscriptions, next_seq, pub, closed, consumer, ring,
                     pending_missed, missed_total, offered, reply, taken, told, last>>
  BY DEF DropBus, slotVars, recvVars
<1>2. TypeOK /\ PhasesOK /\ LiveListed /\ NoLostWakeup
  BY DEF BusInv
<1>3. StreamsOK' /\ Serial' /\ SeqsOK'
  BY <1>1, Quiet
<1>4. TypeOK'
  BY <1>1, <1>2 DEF TypeOK
<1>5. PhasesOK'
  BY <1>1, <1>2 DEF PhasesOK, RegistryFree
<1>6. LiveListed'
  BY <1>1 DEF LiveListed
<1>7. NoLostWakeup'
  BY <1>1, <1>2 DEF NoLostWakeup, PhasesOK
<1> QED
  BY <1>3, <1>4, <1>5, <1>6, <1>7 DEF BusInv

\* Closing a queue keeps the invariant: its notification is still to come.
LEMMA CloseStep ==
  ASSUME BusInv, NEW s \in Sub, Close(s)
  PROVE  BusInv'
<1>1. /\ bus = "closing" /\ s \in closing
      /\ closed' = [closed EXCEPT ![s] = TRUE]
      /\ UNCHANGED <<bus, handle, subscriptions, next_seq, pub, closing, consumer, ring,
                     pending_missed, missed_total, offered, reply, taken, told, last>>
  BY DEF Close, slotVars, recvVars
<1>2. TypeOK /\ PhasesOK /\ LiveListed /\ NoLostWakeup
  BY DEF BusInv
<1>3. StreamsOK' /\ Serial' /\ SeqsOK'
  BY <1>1, Quiet
<1>4. closed \in [Sub -> BOOLEAN]
  BY <1>2 DEF TypeOK
<1>5. TypeOK'
  BY <1>1, <1>2 DEF TypeOK
<1>6. PhasesOK'
  BY <1>1, <1>2, <1>4 DEF PhasesOK, RegistryFree
<1>7. LiveListed'
  BY <1>1 DEF LiveListed
<1>8. NoLostWakeup'
  BY <1>1, <1>2, <1>4 DEF NoLostWakeup
<1> QED
  BY <1>3, <1>5, <1>6, <1>7, <1>8 DEF BusInv

\* Drop's notify_all keeps the invariant.
LEMMA CloseNotifyStep ==
  ASSUME BusInv, NEW s \in Sub, CloseNotify(s)
  PROVE  BusInv'
<1>1. /\ bus = "closing" /\ s \in closing
      /\ consumer' = [consumer EXCEPT ![s] = Wake(s)] /\ closing' = closing \ {s}
      /\ UNCHANGED <<bus, handle, subscriptions, next_seq, pub, closed, ring,
                     pending_missed, missed_total, offered, reply, taken, told, last>>
  BY DEF CloseNotify, slotVars, recvVars
<1>2. TypeOK /\ PhasesOK /\ LiveListed /\ NoLostWakeup
  BY DEF BusInv
<1>3. StreamsOK' /\ Serial' /\ SeqsOK'
  BY <1>1, Quiet
<1>4. /\ consumer' \in [Sub -> ConsumerState] /\ consumer'[s] # "waiting"
      /\ consumer'[s] # "idle" => consumer[s] # "idle"
      /\ \A t \in Sub \ {s} : consumer'[t] = consumer[t]
  BY <1>1, <1>2 DEF TypeOK, Wake, ConsumerState, Holding
<1>5. TypeOK'
  BY <1>1, <1>2, <1>4 DEF TypeOK
<1>6. PhasesOK'
  BY <1>1, <1>2, <1>4 DEF PhasesOK, RegistryFree
<1>7. LiveListed'
  BY <1>1 DEF LiveListed
<1>8. NoLostWakeup'
  BY <1>1, <1>2, <1>4 DEF NoLostWakeup
<1> QED
  BY <1>3, <1>5, <1>6, <1>7, <1>8 DEF BusInv

\* The end of Drop keeps the invariant: no live slot is left unnotified.
LEMMA DropEndStep ==
  ASSUME BusInv, DropEnd
  PROVE  BusInv'
<1>1. /\ bus = "closing" /\ bus' = "gone" /\ closing' = {}
      /\ \A s \in closing : handle[s] # "live" /\ ~closed[s]
      /\ UNCHANGED <<handle, subscriptions, next_seq, pub, closed, consumer, ring,
                     pending_missed, missed_total, offered, reply, taken, told, last>>
  BY DEF DropEnd, slotVars, recvVars
<1>2. TypeOK /\ PhasesOK /\ LiveListed /\ NoLostWakeup
  BY DEF BusInv
<1>3. StreamsOK' /\ Serial' /\ SeqsOK'
  BY <1>1, Quiet
<1>4. TypeOK'
  BY <1>1, <1>2 DEF TypeOK
<1>5. PhasesOK'
  BY <1>1, <1>2 DEF PhasesOK, RegistryFree
<1>6. LiveListed'
  BY <1>1 DEF LiveListed
<1>7. NoLostWakeup'
  <2> SUFFICES ASSUME NEW s \in Sub, consumer[s] = "waiting", ring[s] # <<>> \/ closed[s]
               PROVE  \E p \in Publisher : pub[p] # Idle /\ s \in pub[p].notify
    BY <1>1 DEF NoLostWakeup
  <2>1. handle[s] = "live"
    BY <1>2 DEF PhasesOK
  <2>2. s \notin closing
    BY <2>1, <1>1
  <2> QED
    BY <2>2, <1>2 DEF NoLostWakeup
<1> QED
  BY <1>3, <1>4, <1>5, <1>6, <1>7 DEF BusInv

\* A consumer that moves on, and perhaps answers, without touching its ring:
\* it goes to sleep only on an empty ring of an open queue, and answers Closed
\* only on an empty ring of a closed one.
LEMMA ConsumerMoves ==
  ASSUME BusInv, NEW s \in Sub, NEW c \in ConsumerState, NEW r \in Reply,
         consumer' = [consumer EXCEPT ![s] = c], reply' = [reply EXCEPT ![s] = r],
         UNCHANGED <<busVars, slotVars, taken, told, last>>,
         handle[s] = "live",
         c = "waiting" => ring[s] = <<>> /\ ~closed[s],
         r = "Closed" => reply[s] = "Closed" \/ (closed[s] /\ ring[s] = <<>>)
  PROVE  BusInv'
<1>1. UNCHANGED <<bus, handle, subscriptions, next_seq, pub, closing, closed, ring,
                  pending_missed, missed_total, offered, taken, told, last>>
  BY DEF busVars, slotVars
<1>2. TypeOK /\ PhasesOK /\ LiveListed /\ NoLostWakeup
  BY DEF BusInv
<1>3. StreamsOK' /\ Serial' /\ SeqsOK'
  BY <1>1, Quiet
<1>4. /\ consumer' \in [Sub -> ConsumerState] /\ reply' \in [Sub -> Reply]
      /\ consumer'[s] = c /\ reply'[s] = r
      /\ \A t \in Sub \ {s} : consumer'[t] = consumer[t] /\ reply'[t] = reply[t]
  BY <1>2 DEF TypeOK
<1>5. TypeOK'
  BY <1>1, <1>2, <1>4 DEF TypeOK
<1>6. PhasesOK'
  <2>1. bus' # "open" => RegistryFree'
    BY <1>1, <1>2 DEF PhasesOK, RegistryFree
  <2>2. bus' = "open" => closing' = {} /\ \A t \in Sub : ~closed'[t]
    BY <1>1, <1>2 DEF PhasesOK
  <2>3. \A t \in Sub : consumer'[t] # "idle" => handle'[t] = "live"
    BY <1>1, <1>2, <1>4 DEF PhasesOK
  <2>4. \A t \in Sub : reply'[t] = "Closed" => closed'[t] /\ ring'[t] = <<>>
    BY <1>1, <1>2, <1>4 DEF PhasesOK
  <2> QED
    BY <2>1, <2>2, <2>3, <2>4 DEF PhasesOK
<1>7. LiveListed'
  BY <1>1, <1>2 DEF LiveListed, Live
<1>8. NoLostWakeup'
  BY <1>1, <1>2, <1>4 DEF NoLostWakeup
<1> QED
  BY <1>3, <1>5, <1>6, <1>7, <1>8 DEF BusInv

\* The same for a consumer that answers nothing.
LEMMA ConsumerMovesOn ==
  ASSUME BusInv, NEW s \in Sub, NEW c \in ConsumerState,
         consumer' = [consumer EXCEPT ![s] = c],
         UNCHANGED <<busVars, slotVars, recvVars>>,
         handle[s] = "live",
         c = "waiting" => ring[s] = <<>> /\ ~closed[s]
  PROVE  BusInv'
<1>1. reply \in [Sub -> Reply]
  BY DEF BusInv, TypeOK
<1>2. reply[s] \in Reply /\ reply' = [reply EXCEPT ![s] = reply[s]]
      /\ UNCHANGED <<busVars, slotVars, taken, told, last>>
  BY <1>1 DEF recvVars
<1> QED
  BY <1>2, ConsumerMoves

\* Every step of a receive that takes nothing keeps the invariant.
LEMMA CallStep ==
  ASSUME BusInv, NEW s \in Sub,
         \/ \E op \in Holding : Lock(s, op)
         \/ Wait(s) \/ WaitEnds(s) \/ Relock(s) \/ Unlock(s)
         \/ AnswerClosed(s) \/ AnswerNothing(s)
  PROVE  BusInv'
<1>1. consumer[s] # "idle" => handle[s] = "live"
  BY DEF BusInv, PhasesOK
<1>2. CASE \E op \in Holding : Lock(s, op)
  <2>1. PICK op \in Holding : Lock(s, op)
    BY <1>2
  <2>2. /\ op \in ConsumerState /\ op # "waiting" /\ handle[s] = "live"
        /\ consumer' = [consumer EXCEPT ![s] = op] /\ UNCHANGED <<busVars, slotVars, recvVars>>
    BY <2>1 DEF Lock, Holding, ConsumerState
  <2> QED
    BY <2>2, ConsumerMovesOn
<1>3. CASE Wait(s)
  <2>1. /\ "waiting" \in ConsumerState /\ consumer[s] # "idle"
        /\ ring[s] = <<>> /\ ~closed[s]
        /\ consumer' = [consumer EXCEPT ![s] = "waiting"]
        /\ UNCHANGED <<busVars, slotVars, recvVars>>
    BY <1>3 DEF Wait, ConsumerState
  <2> QED
    BY <2>1, <1>1, ConsumerMovesOn
<1>4. CASE WaitEnds(s) \/ Relock(s) \/ Unlock(s)
  <2>1. PICK c \in {"timed_out", "woken", "recheck", "expired", "idle"} :
          consumer' = [consumer EXCEPT ![s] = c]
    BY <1>4 DEF WaitEnds, Relock, Unlock
  <2>2. /\ c \in ConsumerState /\ c # "waiting" /\ consumer[s] # "idle"
        /\ UNCHANGED <<busVars, slotVars, recvVars>>
    BY <1>4 DEF WaitEnds, Relock, Unlock, ConsumerState, Holding
  <2> QED
    BY <2>1, <2>2, <1>1, ConsumerMovesOn
<1>5. CASE AnswerClosed(s)
  <2>1. /\ "idle" \in ConsumerState /\ "Closed" \in Reply /\ consumer[s] # "idle"
        /\ closed[s] /\ ring[s] = <<>>
        /\ consumer' = [consumer EXCEPT ![s] = "idle"]
        /\ reply' = [reply EXCEPT ![s] = "Closed"]
        /\ UNCHANGED <<busVars, slotVars, taken, told, last>>
    BY <1>5 DEF AnswerClosed, Answer, ConsumerState, Reply
  <2> QED
    BY <2>1, <1>1, ConsumerMoves
<1>6. CASE AnswerNothing(s)
  <2>1. PICK r \in {"Empty", "Timeout"} : Answer(s, r)
    BY <1>6 DEF AnswerNothing
  <2>2. /\ "idle" \in ConsumerState /\ r \in Reply /\ r # "Closed" /\ consumer[s] # "idle"
        /\ consumer' = [consumer EXCEPT ![s] = "idle"]
        /\ reply' = [reply EXCEPT ![s] = r]
        /\ UNCHANGED <<busVars, slotVars, taken, told, last>>
    BY <2>1, <1>6 DEF AnswerNothing, Answer, ConsumerState, Reply
  <2> QED
    BY <2>2, <1>1, ConsumerMoves
<1> QED
  BY <1>2, <1>3, <1>4, <1>5, <1>6

\* What Take does to its stream, and to no other.
LEMMA TakeEffect ==
  ASSUME BusInv, NEW s \in Sub, Take(s)
  PROVE  /\ handle[s] = "live" /\ consumer[s] # "idle" /\ reply[s] # "Closed"
         /\ ring[s] # <<>> /\ Head(ring[s]) = ring[s][1]
         /\ Head(ring[s]) \in Delivery /\ Tail(ring[s]) \in Seq(Delivery)
         /\ Len(Tail(ring[s])) <= Capacity[s]
         /\ StreamOK(Tail(ring[s]), Head(ring[s]), offered[s], taken[s] + 1,
                     told[s] + Head(ring[s]).missed_before, missed_total[s],
                     pending_missed[s])
         /\ Final(Tail(ring[s]), Head(ring[s])) = Final(ring[s], last[s])
<1>1. TypeOK /\ StreamsOK /\ PhasesOK
  BY DEF BusInv
<1>2. ring[s] # <<>> /\ consumer[s] # "idle"
  BY DEF Take, Holding
<1>3. handle[s] = "live" /\ reply[s] # "Closed"
  BY <1>1, <1>2 DEF PhasesOK
<1>4. /\ ring[s] \in Seq(Delivery) /\ last[s] \in Delivery
      /\ offered[s] \in Nat /\ taken[s] \in Nat /\ told[s] \in Nat
      /\ missed_total[s] \in Nat /\ pending_missed[s] \in Nat
      /\ Capacity[s] \in Nat /\ Len(ring[s]) <= Capacity[s]
  BY <1>1, SlotTypes
<1>5. /\ Tail(ring[s]) \in Seq(Delivery) /\ Len(Tail(ring[s])) = Len(ring[s]) - 1
      /\ Len(ring[s]) \in Nat /\ Head(ring[s]) = ring[s][1] /\ Head(ring[s]) \in Delivery
  BY <1>2, <1>4, TailFields
<1>6. Len(Tail(ring[s])) <= Capacity[s]
  BY <1>4, <1>5
<1>7. StreamOK(ring[s], last[s], offered[s], taken[s], told[s], missed_total[s],
               pending_missed[s])
  BY <1>1 DEF StreamsOK
<1>8. /\ StreamOK(Tail(ring[s]), Head(ring[s]), offered[s], taken[s] + 1,
                  told[s] + Head(ring[s]).missed_before, missed_total[s],
                  pending_missed[s])
      /\ Final(Tail(ring[s]), Head(ring[s])) = Final(ring[s], last[s])
  BY <1>2, <1>4, <1>7, Take1
<1> QED
  BY <1>2, <1>3, <1>5, <1>6, <1>8

\* Taking a delivery keeps the invariant.
LEMMA TakeStep ==
  ASSUME BusInv, NEW s \in Sub, Take(s)
  PROVE  BusInv'
<1>1. /\ handle[s] = "live" /\ consumer[s] # "idle" /\ reply[s] # "Closed"
      /\ ring[s] # <<>>
      /\ Head(ring[s]) \in Delivery /\ Tail(ring[s]) \in Seq(Delivery)
      /\ Len(Tail(ring[s])) <= Capacity[s]
      /\ StreamOK(Tail(ring[s]), Head(ring[s]), offered[s], taken[s] + 1,
                  told[s] + Head(ring[s]).missed_before, missed_total[s],
                  pending_missed[s])
      /\ Final(Tail(ring[s]), Head(ring[s])) = Final(ring[s], last[s])
  BY TakeEffect
<1>2. TypeOK /\ StreamsOK /\ SeqsOK /\ Serial /\ PhasesOK /\ LiveListed /\ NoLostWakeup
  BY DEF BusInv
<1>3. UNCHANGED <<bus, handle, subscriptions, next_seq, pub, closing, closed,
                  pending_missed, missed_total, offered>>
  BY DEF Take, busVars
<1> DEFINE c == IF consumer[s] = "drain" THEN "drain" ELSE "idle"
           m == Head(ring[s]).missed_before
<1>4. m \in Nat /\ c \in {"drain", "idle"}
  BY <1>1, Fields
<1>5. /\ ring' = [ring EXCEPT ![s] = Tail(ring[s])]
      /\ taken' = [taken EXCEPT ![s] = taken[s] + 1]
      /\ told' = [told EXCEPT ![s] = told[s] + m]
      /\ last' = [last EXCEPT ![s] = Head(ring[s])]
      /\ reply' = [reply EXCEPT ![s] = "Delivered"]
      /\ consumer' = [consumer EXCEPT ![s] = c]
  BY DEF Take
<1> HIDE DEF c
<1>6. /\ ring' \in [Sub -> Seq(Delivery)] /\ ring'[s] = Tail(ring[s])
      /\ taken' \in [Sub -> Nat] /\ taken'[s] = taken[s] + 1
      /\ told' \in [Sub -> Nat] /\ told'[s] = told[s] + m
      /\ last' \in [Sub -> Delivery] /\ last'[s] = Head(ring[s])
      /\ \A t \in Sub \ {s} : /\ ring'[t] = ring[t] /\ taken'[t] = taken[t]
                              /\ told'[t] = told[t] /\ last'[t] = last[t]
  <2>1. /\ ring \in [Sub -> Seq(Delivery)] /\ taken \in [Sub -> Nat]
        /\ told \in [Sub -> Nat] /\ last \in [Sub -> Delivery]
    BY <1>2 DEF TypeOK
  <2>2. taken[s] + 1 \in Nat /\ told[s] + m \in Nat
    BY <2>1, <1>4
  <2> HIDE DEF m
  <2> QED
    BY <2>1, <2>2, <1>1, <1>5
<1>7. /\ reply' \in [Sub -> Reply] /\ consumer' \in [Sub -> ConsumerState]
      /\ reply'[s] = "Delivered" /\ consumer'[s] # "waiting"
      /\ \A t \in Sub \ {s} : reply'[t] = reply[t] /\ consumer'[t] = consumer[t]
  BY <1>2, <1>4, <1>5 DEF TypeOK, Reply, ConsumerState, Holding
<1>8. TypeOK'
  <2>1. \A t \in Sub : Len(ring'[t]) <= Capacity[t]
    BY <1>1, <1>2, <1>6 DEF TypeOK
  <2> QED
    BY <2>1, <1>2, <1>3, <1>6, <1>7 DEF TypeOK
<1>9. StreamsOK'
  BY <1>1, <1>2, <1>3, <1>6 DEF StreamsOK
<1>10. Serial'
  BY <1>2, <1>3 DEF Serial
<1>11. SeqsOK'
  <2>1. \A t \in Sub : Final(ring'[t], last'[t]) = Final(ring[t], last[t])
    BY <1>1, <1>6
  <2>2. \A p \in Publisher : pub[p] # Idle => pub[p].todo \subseteq Sub
    BY <1>2, Publishing
  <2> QED
    BY <2>1, <2>2, <1>2, <1>3 DEF SeqsOK
<1>12. PhasesOK'
  <2>1. bus' # "open" => RegistryFree'
    BY <1>3, <1>2 DEF PhasesOK, RegistryFree
  <2>2. bus' = "open" => closing' = {} /\ \A t \in Sub : ~closed'[t]
    BY <1>3, <1>2 DEF PhasesOK
  <2>3. \A t \in Sub : consumer'[t] # "idle" => handle'[t] = "live"
    BY <1>1, <1>2, <1>3, <1>7 DEF PhasesOK
  <2>4. \A t \in Sub : reply'[t] = "Closed" => closed'[t] /\ ring'[t] = <<>>
    BY <1>2, <1>3, <1>6, <1>7 DEF PhasesOK
  <2> QED
    BY <2>1, <2>2, <2>3, <2>4 DEF PhasesOK
<1>13. LiveListed'
  BY <1>2, <1>3 DEF LiveListed, Live
<1>14. NoLostWakeup'
  BY <1>2, <1>3, <1>6, <1>7 DEF NoLostWakeup
<1> QED
  BY <1>8, <1>9, <1>10, <1>11, <1>12, <1>13, <1>14 DEF BusInv

\* Every step of publishers, consumers and Drop keeps the invariant.
LEMMA StepInv == BusInv /\ [Next]_vars => BusInv'
<1> SUFFICES ASSUME BusInv, [Next]_vars
             PROVE  BusInv'
  OBVIOUS
<1>1. CASE UNCHANGED vars
  BY <1>1 DEF vars, BusInv, TypeOK, StreamsOK, Serial, SeqsOK, PhasesOK, RegistryFree,
              LiveListed, Live, NoLostWakeup
<1>2. ASSUME NEW p \in Publisher, PublisherStep(p)
      PROVE  BusInv'
  BY <1>2, OfferStep, SkipStep, NotifyStep, PublishEndStep DEF PublisherStep
<1>3. ASSUME NEW p \in Publisher, NEW topic \in Topic, PublishBegin(p, topic)
      PROVE  BusInv'
  BY <1>3, PublishBeginStep
<1>4. ASSUME NEW s \in Sub,
             Subscribe(s) \/ DropSubscription(s) \/ Close(s) \/ CloseNotify(s)
      PROVE  BusInv'
  BY <1>4, SubscribeStep, DropSubscriptionStep, CloseStep, CloseNotifyStep
<1>5. ASSUME NEW s \in Sub,
             (\E op \in Holding : Lock(s, op)) \/ WaitEnds(s) \/ ConsumerStep(s)
      PROVE  BusInv'
  BY <1>5, CallStep, TakeStep DEF ConsumerStep
<1>6. CASE SubscriberCount \/ DropBus \/ DropEnd
  BY <1>6, SubscriberCountStep, DropBusStep, DropEndStep
<1> QED
  BY <1>1, <1>2, <1>3, <1>4, <1>5, <1>6 DEF Next, DropStep

\* BusInv is an invariant of the bus, for any publishers, subscriptions,
\* filters, capacities and number of events.
THEOREM BusInvariant == Spec => []BusInv
BY InitInv, StepInv, PTL DEF Spec

-----------------------------------------------------------------------------
(***************************************************************************)
(* What follows from the invariant.                                        *)
(***************************************************************************)
\* The variables keep their shapes and no ring outgrows its capacity (offer
\* makes room before it pushes).
THEOREM TypeCorrect == Spec => []TypeOK
<1>1. BusInv => TypeOK
  BY DEF BusInv
<1> QED
  BY <1>1, BusInvariant, PTL

\* A consumer never sleeps on something to do (notify_all after every push and
\* after Drop's closing of the queue).
THEOREM WakeupsKept == Spec => []NoLostWakeup
<1>1. BusInv => NoLostWakeup
  BY DEF BusInv
<1> QED
  BY <1>1, BusInvariant, PTL

\* The counters of one stream: nothing is lost uncounted.
Tallied(r, l, off, tk, td, ms, pd) ==
  /\ off = tk + Len(r) + ms
  /\ td <= ms
  /\ r = <<>> => ms = td + pd /\ td + (off - l.nth) = ms

\* They follow from what StreamOK says of it.
LEMMA StreamCounts ==
  ASSUME NEW r \in Seq(Delivery), NEW l \in Delivery, NEW off \in Nat, NEW tk \in Nat,
         NEW td \in Nat, NEW ms \in Nat, NEW pd \in Nat,
         StreamOK(r, l, off, tk, td, ms, pd)
  PROVE  Tallied(r, l, off, tk, td, ms, pd)
<1>1. Len(r) \in Nat /\ l.nth \in Nat /\ (r = <<>> <=> Len(r) = 0)
  BY RingFields
<1>2. off = tk + Len(r) + ms /\ td = l.nth - tk /\ l.nth <= off
  BY DEF StreamOK, Counted
<1>3. l.nth + Len(r) <= off
  <2>1. CASE Len(r) = 0
    BY <2>1, <1>1, <1>2
  <2>2. CASE Len(r) # 0
    <3>1. Len(r) \in 1..Len(r) /\ r[Len(r)].nth \in Nat
      BY <2>2, <1>1, RingFields
    <3>2. l.nth + Len(r) <= r[Len(r)].nth /\ r[Len(r)].nth <= off
      BY <3>1 DEF StreamOK, Spread
    <3> QED
      BY <3>1, <3>2, <1>1
  <2> QED
    BY <2>1, <2>2
<1>4. td <= ms
  BY <1>1, <1>2, <1>3
<1>5. ASSUME r = <<>>
      PROVE  ms = td + pd /\ td + (off - l.nth) = ms
  <2>1. pd = off - l.nth /\ Len(r) = 0
    BY <1>5, <1>1 DEF StreamOK, Counted, Final
  <2> QED
    BY <2>1, <1>1, <1>2
<1> QED
  BY <1>2, <1>4, <1>5 DEF Tallied

\* Delivery is exact: order, gaps, losses, capacity and the registry.
LEMMA InvDelivers == BusInv => DeliveryExact
<1> SUFFICES ASSUME BusInv
             PROVE  DeliveryExact
  OBVIOUS
<1>1. TypeOK /\ StreamsOK /\ LiveListed
  BY DEF BusInv
<1>2. ASSUME NEW s \in Sub
      PROVE  /\ StreamOK(ring[s], last[s], offered[s], taken[s], told[s],
                         missed_total[s], pending_missed[s])
             /\ \A i \in 1..Len(ring[s]) : Before(s, i) = Prior(ring[s], last[s], i)
             /\ Newest(s) = Final(ring[s], last[s])
  BY <1>1 DEF StreamsOK, Before, Newest, Prior, Final
<1>3. InOrder
  BY <1>2 DEF InOrder, StreamOK, Ordered
<1>4. GapsExact
  BY <1>2 DEF GapsExact, StreamOK, Gapped, Counted
<1>5. LossAccounted
  <2> SUFFICES ASSUME NEW s \in Sub
               PROVE  /\ offered[s] = taken[s] + Len(ring[s]) + missed_total[s]
                      /\ told[s] <= missed_total[s]
                      /\ ring[s] = <<>> => missed_total[s] = told[s] + pending_missed[s]
    BY DEF LossAccounted
  <2>1. /\ ring[s] \in Seq(Delivery) /\ last[s] \in Delivery
        /\ offered[s] \in Nat /\ taken[s] \in Nat /\ told[s] \in Nat
        /\ missed_total[s] \in Nat /\ pending_missed[s] \in Nat
    BY <1>1, SlotTypes
  <2>2. StreamOK(ring[s], last[s], offered[s], taken[s], told[s], missed_total[s],
                 pending_missed[s])
    BY <1>2
  <2>3. Tallied(ring[s], last[s], offered[s], taken[s], told[s], missed_total[s],
                pending_missed[s])
    BY <2>1, <2>2, StreamCounts
  <2> QED
    BY <2>3 DEF Tallied
<1>6. \A s \in Sub : Len(ring[s]) <= Capacity[s]
  BY <1>1 DEF TypeOK
<1> QED
  BY <1>1, <1>3, <1>4, <1>5, <1>6 DEF DeliveryExact

\* What a subscriber receives is what was published, in order, with every loss
\* counted once and told of in its place (publish, offer, recv).
THEOREM DeliveryCorrect == Spec => []DeliveryExact
BY InvDelivers, BusInvariant, PTL

-----------------------------------------------------------------------------
(***************************************************************************)
(* Every subscription implements LossyStream.                              *)
(***************************************************************************)

\* At the start every stream is at its start.
LEMMA StreamInit == Init => \A s \in Sub : Stream(s)!Init
BY DEF Init, Stream!Init, NoDelivery

\* A step that shows nothing of a stream is a stutter of it.
LEMMA StreamStutter ==
  ASSUME NEW s \in Sub, offered'[s] = offered[s], last'[s] = last[s], told'[s] = told[s],
         missed_total'[s] = missed_total[s], (reply'[s] = "Closed") = (reply[s] = "Closed")
  PROVE  [Stream(s)!Next]_(Stream(s)!vars)
BY DEF Stream!vars

\* offer is a Send of its stream.
LEMMA OfferSends ==
  ASSUME BusInv, NEW p \in Publisher, NEW s \in Sub, Offer(p, s), NEW t \in Sub
  PROVE  [Stream(t)!Next]_(Stream(t)!vars)
<1>1. /\ pub[p] # Idle
      /\ missed_total'[s] \in {missed_total[s], missed_total[s] + 1}
      /\ offered' = [offered EXCEPT ![s] = offered[s] + 1]
      /\ \A u \in Sub \ {s} : missed_total'[u] = missed_total[u]
  BY OfferEffect
<1>2. UNCHANGED <<reply, told, last>>
  BY DEF Offer, recvVars
<1>3. offered \in [Sub -> Nat]
  BY DEF BusInv, TypeOK
<1>4. CASE t = s
  <2>1. reply[s] # "Closed"
    BY <1>1, Alone
  <2>2. offered'[s] = offered[s] + 1
    BY <1>1, <1>3
  <2>3. Stream(s)!Send
    BY <2>1, <2>2, <1>1, <1>2 DEF Stream!Send
  <2> QED
    BY <2>3, <1>4 DEF Stream!Next
<1>5. CASE t # s
  BY <1>1, <1>2, <1>3, <1>5, StreamStutter
<1> QED
  BY <1>4, <1>5

\* Taking a delivery is a Receive of its stream.
LEMMA TakeReceives ==
  ASSUME BusInv, NEW s \in Sub, Take(s), NEW t \in Sub
  PROVE  [Stream(t)!Next]_(Stream(t)!vars)
<1> DEFINE h == Head(ring[s])
<1>1. /\ reply[s] # "Closed" /\ h \in Delivery /\ Tail(ring[s]) \in Seq(Delivery)
      /\ ring[s] # <<>> /\ h = ring[s][1]
      /\ StreamOK(Tail(ring[s]), h, offered[s], taken[s] + 1, told[s] + h.missed_before,
                  missed_total[s], pending_missed[s])
  BY TakeEffect
<1>2. TypeOK /\ StreamsOK
  BY DEF BusInv
<1>3. /\ told' = [told EXCEPT ![s] = told[s] + h.missed_before]
      /\ last' = [last EXCEPT ![s] = h]
      /\ reply' = [reply EXCEPT ![s] = "Delivered"]
      /\ UNCHANGED <<missed_total, offered>>
  BY DEF Take
<1>4. told \in [Sub -> Nat] /\ last \in [Sub -> Delivery] /\ reply \in [Sub -> Reply]
  BY <1>2 DEF TypeOK
<1>5. /\ ring[s] \in Seq(Delivery) /\ last[s] \in Delivery
      /\ offered[s] \in Nat /\ taken[s] \in Nat /\ told[s] \in Nat
      /\ missed_total[s] \in Nat /\ pending_missed[s] \in Nat
  BY <1>2, SlotTypes
<1>6. CASE t = s
  <2>1. h.nth \in Nat /\ h.missed_before \in Nat /\ last[s].nth \in Nat
    BY <1>1, <1>5, Fields
  <2>2. told[s] + h.missed_before <= missed_total[s]
    <3> DEFINE td == told[s] + h.missed_before
               tk == taken[s] + 1
    <3>1. td \in Nat /\ tk \in Nat
      BY <2>1, <1>5
    <3>2. StreamOK(Tail(ring[s]), h, offered[s], tk, td, missed_total[s], pending_missed[s])
      BY <1>1
    <3> HIDE DEF td, tk, h
    <3>3. Tallied(Tail(ring[s]), h, offered[s], tk, td, missed_total[s],
                  pending_missed[s])
      BY <3>1, <3>2, <1>1, <1>5, StreamCounts
    <3> QED
      BY <3>3 DEF Tallied, td
  <2>3. h.missed_before = h.nth - last[s].nth - 1 /\ h.nth <= offered[s]
    <3>1. StreamOK(ring[s], last[s], offered[s], taken[s], told[s], missed_total[s],
                   pending_missed[s])
      BY <1>2 DEF StreamsOK
    <3>2. 1 \in 1..Len(ring[s]) /\ Prior(ring[s], last[s], 1) = last[s]
      BY <1>1, <1>5, TailFields DEF Prior
    <3> QED
      BY <3>1, <3>2, <1>1 DEF StreamOK, Gapped, Spread
  <2>4. /\ last'[s].nth = h.nth /\ told'[s] = told[s] + h.missed_before
        /\ reply'[s] # "Closed"
    BY <1>3, <1>4
  <2> HIDE DEF h
  <2>5. h.nth \in (last[s].nth + 1)..offered[s]
    BY <2>1, <2>3, <1>5
  <2>6. told'[s] = told[s] + (h.nth - last[s].nth - 1)
    BY <2>3, <2>4
  <2>7. told'[s] <= missed_total[s]
    BY <2>2, <2>4
  <2>8. Stream(s)!Receive
    BY <2>4, <2>5, <2>6, <2>7, <1>1, <1>3 DEF Stream!Receive
  <2> QED
    BY <2>8, <1>6 DEF Stream!Next
<1>7. CASE t # s
  BY <1>3, <1>4, <1>7, StreamStutter
<1> QED
  BY <1>6, <1>7

\* Answering Closed is the End of the stream, or the same answer again; any other
\* answer is not given after it.
LEMMA AnswerEnds ==
  ASSUME BusInv, NEW s \in Sub, AnswerClosed(s) \/ AnswerNothing(s), NEW t \in Sub
  PROVE  [Stream(t)!Next]_(Stream(t)!vars)
<1>1. TypeOK /\ StreamsOK /\ PhasesOK
  BY DEF BusInv
<1>2. /\ UNCHANGED <<offered, last, told, missed_total>>
      /\ \A u \in Sub \ {s} : reply'[u] = reply[u]
  BY <1>1 DEF AnswerClosed, AnswerNothing, Answer, slotVars, TypeOK
<1>3. CASE t # s
  BY <1>2, <1>3, StreamStutter
<1>4. CASE t = s /\ AnswerNothing(s)
  <2>1. ~closed[s] /\ reply'[s] # "Closed"
    BY <1>1, <1>4 DEF AnswerNothing, Answer, TypeOK
  <2>2. reply[s] # "Closed"
    BY <2>1, <1>1 DEF PhasesOK
  <2> QED
    BY <2>1, <2>2, <1>2, <1>4, StreamStutter
<1>5. CASE t = s /\ AnswerClosed(s)
  <2>1. reply'[s] = "Closed" /\ ring[s] = <<>>
    BY <1>1, <1>5 DEF AnswerClosed, Answer, TypeOK
  <2>2. CASE reply[s] = "Closed"
    BY <2>1, <2>2, <1>2, <1>5, StreamStutter
  <2>3. CASE reply[s] # "Closed"
    <3>1. /\ ring[s] \in Seq(Delivery) /\ last[s] \in Delivery
          /\ offered[s] \in Nat /\ taken[s] \in Nat /\ told[s] \in Nat
          /\ missed_total[s] \in Nat /\ pending_missed[s] \in Nat
      BY <1>1, SlotTypes
    <3>2. StreamOK(ring[s], last[s], offered[s], taken[s], told[s], missed_total[s],
                   pending_missed[s])
      BY <1>1 DEF StreamsOK
    <3>3. told[s] + (offered[s] - last[s].nth) = missed_total[s]
      <4>1. Tallied(ring[s], last[s], offered[s], taken[s], told[s], missed_total[s],
                    pending_missed[s])
        BY <3>1, <3>2, StreamCounts
      <4> QED
        BY <4>1, <2>1 DEF Tallied
    <3>4. Stream(s)!End
      BY <3>3, <2>1, <2>3, <1>2 DEF Stream!End
    <3> QED
      BY <3>4, <1>5 DEF Stream!Next
  <2> QED
    BY <2>2, <2>3
<1> QED
  BY <1>3, <1>4, <1>5

\* Every step of the bus is a step of the contract of each stream, or shows
\* nothing of it.
LEMMA StreamStep ==
  ASSUME BusInv, [Next]_vars, NEW t \in Sub
  PROVE  [Stream(t)!Next]_(Stream(t)!vars)
<1>1. CASE UNCHANGED <<offered, last, told, missed_total, reply>>
  BY <1>1, StreamStutter
<1>2. ASSUME NEW p \in Publisher, PublisherStep(p)
      PROVE  [Stream(t)!Next]_(Stream(t)!vars)
  <2>1. CASE \E s \in Sub : Offer(p, s)
    BY <2>1, OfferSends
  <2>2. CASE PublishEnd(p) \/ \E s \in Sub : Skip(p, s) \/ Notify(p, s)
    <3>1. UNCHANGED <<offered, last, told, missed_total, reply>>
      BY <2>2 DEF PublishEnd, Skip, Notify, slotVars, recvVars
    <3> QED
      BY <3>1, <1>1
  <2> QED
    BY <2>1, <2>2, <1>2 DEF PublisherStep
<1>3. ASSUME NEW s \in Sub, ConsumerStep(s)
      PROVE  [Stream(t)!Next]_(Stream(t)!vars)
  <2>1. CASE Take(s)
    BY <2>1, TakeReceives
  <2>2. CASE AnswerClosed(s) \/ AnswerNothing(s)
    BY <2>2, AnswerEnds
  <2>3. CASE Wait(s) \/ Relock(s) \/ Unlock(s)
    <3>1. UNCHANGED <<offered, last, told, missed_total, reply>>
      BY <2>3 DEF Wait, Relock, Unlock, slotVars, recvVars
    <3> QED
      BY <3>1, <1>1
  <2> QED
    BY <2>1, <2>2, <2>3, <1>3 DEF ConsumerStep
<1>4. CASE \/ \E p \in Publisher : \E topic \in Topic : PublishBegin(p, topic)
           \/ \E s \in Sub : \/ Subscribe(s) \/ DropSubscription(s) \/ WaitEnds(s)
                             \/ Close(s) \/ CloseNotify(s)
                             \/ \E op \in Holding : Lock(s, op)
           \/ SubscriberCount \/ DropBus \/ DropEnd
  <2>1. UNCHANGED <<offered, last, told, missed_total, reply>>
    BY <1>4 DEF PublishBegin, Subscribe, DropSubscription, WaitEnds, Close, CloseNotify,
                Lock, SubscriberCount, DropBus, DropEnd, slotVars, recvVars
  <2> QED
    BY <2>1, <1>1
<1>5. CASE UNCHANGED vars
  BY <1>1, <1>5 DEF vars
<1> QED
  BY <1>2, <1>3, <1>4, <1>5 DEF Next, DropStep

\* Every subscription is a lossy stream that hides nothing, and Closed is final
\* (publish, offer, the receives and Drop, seen by one subscriber).
THEOREM StreamRefinement == Spec => ImplementsStream
<1>1. BusInv /\ [Next]_vars => [\A s \in Sub : [Stream(s)!Next]_(Stream(s)!vars)]_vars
  BY StreamStep
<1> QED
  BY <1>1, StreamInit, BusInvariant, PTL DEF Spec, ImplementsStream
=============================================================================
