------------------------------ MODULE EventBus ------------------------------
(***************************************************************************)
(* The event bus (supra_eventbus::bus): publishers fan events out to       *)
(* bounded rings, one per subscription, without ever waiting for a         *)
(* consumer; a full ring drops its oldest delivery, and the consumer is    *)
(* told exactly how much it lost and where.                                *)
(*                                                                         *)
(* Threads: any publishers, and one consumer per subscription.  A          *)
(* publisher holds the registry lock from the assignment of its sequence   *)
(* number to the end of its fan-out and only tries each queue lock.  A     *)
(* consumer takes its queue lock in one step and acts in later ones, so a  *)
(* publisher can find the lock taken, and the consumer can stop for ever   *)
(* while it holds it.  What a publisher does under a queue lock is one     *)
(* step: nobody else can look.  Of an event only its topic is kept.        *)
(***************************************************************************)
EXTENDS Integers, Sequences

CONSTANTS
  Publisher,  \* threads that publish
  Sub,        \* subscriptions that can be made
  Topic,      \* topics an event can have
  Topics,     \* Sub -> SUBSET Topic: each subscription's filter
  Capacity,   \* Sub -> Nat: each ring's size
  MaxEvents   \* bound: the events published in a behaviour

ASSUME BusAssumption ==
  /\ Topics \in [Sub -> SUBSET Topic]
  /\ Capacity \in [Sub -> Nat]
  /\ MaxEvents \in Nat

VARIABLES
  bus,             \* "open"; "closing" while Drop runs; "gone"
  handle,          \* Sub -> "unmade", "live" or "dropped": the Subscription
  subscriptions,   \* the registry: the slots whose Weak is listed
  next_seq,        \* the next sequence number
  pub,             \* Publisher -> what the thread is doing
  closing,         \* slots Drop has still to close or to notify
  ring,            \* Sub -> sequence of deliveries
  closed,          \* Sub -> the queue's closed flag
  pending_missed,  \* Sub -> losses since the newest buffered delivery
  missed_total,    \* Sub -> losses over the subscription's life
  consumer,        \* Sub -> what the consumer thread is doing
  reply,           \* Sub -> what its last receive answered
  offered,         \* history: Sub -> matching events fanned out to it so far
  taken,           \* history: Sub -> deliveries received so far
  told,            \* history: Sub -> sum of missed_before over those
  last             \* history: Sub -> the last delivery received

slotVars == <<ring, pending_missed, missed_total, offered>>
recvVars == <<reply, taken, told, last>>
busVars  == <<bus, handle, subscriptions, next_seq, pub, closing, closed>>
vars     == <<bus, handle, subscriptions, next_seq, pub, closing, ring, closed,
              pending_missed, missed_total, consumer, reply, offered, taken,
              told, last>>

\* nth is history: the delivery's number among the events offered to its
\* subscription, counted from 1.
Delivery == [seq : Int, missed_before : Nat, nth : Nat]

NoDelivery == [seq |-> -1, missed_before |-> 0, nth |-> 0]

Idle == [at |-> "idle"]

FanOut == [at : {"fanout"}, topic : Topic, seq : Nat,
           todo : SUBSET Sub, notify : SUBSET Sub]

\* The states in which a consumer thread holds its queue lock...
Holding == {"try_recv", "recv", "recheck", "expired", "drain", "peek"}

\* ... and the others: outside, blocked on the condition variable, and on the
\* way back to the lock after a wake-up or after the deadline.
ConsumerState == Holding \cup {"idle", "waiting", "woken", "timed_out"}

Reply == {"none", "Delivered", "Empty", "Timeout", "Closed"}

Init ==
  /\ bus = "open"
  /\ handle = [s \in Sub |-> "unmade"]
  /\ subscriptions = {}
  /\ next_seq = 0
  /\ pub = [p \in Publisher |-> Idle]
  /\ closing = {}
  /\ ring = [s \in Sub |-> <<>>]
  /\ closed = [s \in Sub |-> FALSE]
  /\ pending_missed = [s \in Sub |-> 0]
  /\ missed_total = [s \in Sub |-> 0]
  /\ consumer = [s \in Sub |-> "idle"]
  /\ reply = [s \in Sub |-> "none"]
  /\ offered = [s \in Sub |-> 0]
  /\ taken = [s \in Sub |-> 0]
  /\ told = [s \in Sub |-> 0]
  /\ last = [s \in Sub |-> NoDelivery]

-----------------------------------------------------------------------------
(***************************************************************************)
(* The registry.                                                           *)
(***************************************************************************)
\* Fault: the registry lock does not cover the fan-out.
RegistryFree_Always == TRUE

RegistryFree == \A p \in Publisher : pub[p] = Idle

Live == {s \in Sub : handle[s] = "live"}

\* subscribe_with_capacity: prune the dead, list the new slot.
Subscribe(s) ==
  /\ bus = "open" /\ RegistryFree
  /\ handle[s] = "unmade"
  /\ handle' = [handle EXCEPT ![s] = "live"]
  /\ subscriptions' = (subscriptions \cap Live) \cup {s}
  /\ UNCHANGED <<bus, next_seq, pub, closing, closed, consumer, slotVars, recvVars>>

\* subscriber_count prunes as it counts.
SubscriberCount ==
  /\ bus = "open" /\ RegistryFree
  /\ subscriptions' = subscriptions \cap Live
  /\ UNCHANGED <<bus, handle, next_seq, pub, closing, closed, consumer,
                 slotVars, recvVars>>

\* The consumer drops its handle; the Weak in the registry goes dead.
DropSubscription(s) ==
  /\ handle[s] = "live" /\ consumer[s] = "idle"
  /\ handle' = [handle EXCEPT ![s] = "dropped"]
  /\ UNCHANGED <<bus, subscriptions, next_seq, pub, closing, closed, consumer,
                 slotVars, recvVars>>

-----------------------------------------------------------------------------
(***************************************************************************)
(* publish.                                                                *)
(***************************************************************************)
\* Take the registry lock and the next sequence number.
PublishBegin(p, topic) ==
  /\ bus = "open" /\ RegistryFree /\ pub[p] = Idle
  /\ next_seq < MaxEvents
  /\ next_seq' = next_seq + 1
  /\ pub' = [pub EXCEPT ![p] = [at |-> "fanout", topic |-> topic, seq |-> next_seq,
                                todo |-> subscriptions, notify |-> {}]]
  /\ UNCHANGED <<bus, handle, subscriptions, closing, closed, consumer,
                 slotVars, recvVars>>

\* Fault: the loss is announced with the next delivery but not totalled.
CountLoss_NoTotal(s) ==
  /\ pending_missed' = [pending_missed EXCEPT ![s] = @ + 1]
  /\ UNCHANGED <<missed_total, ring>>

\* Fault: the loss is totalled but no delivery will announce it.
CountLoss_NoGap(s) ==
  /\ missed_total' = [missed_total EXCEPT ![s] = @ + 1]
  /\ UNCHANGED <<pending_missed, ring>>

\* The event is lost before it is buffered: the two counters, no lock.
CountLoss(s) ==
  /\ pending_missed' = [pending_missed EXCEPT ![s] = @ + 1]
  /\ missed_total' = [missed_total EXCEPT ![s] = @ + 1]
  /\ UNCHANGED ring

\* Fault: a full ring drops nothing.
Buffer_Grows(s, seq) ==
  /\ ring' = [ring EXCEPT ![s] =
                Append(@, [seq |-> seq, missed_before |-> pending_missed[s],
                           nth |-> offered[s] + 1])]
  /\ pending_missed' = [pending_missed EXCEPT ![s] = 0]
  /\ UNCHANGED missed_total

\* Fault: the gap in front of the dropped delivery is dropped with it.
Buffer_GapLost(s, seq) ==
  LET full    == Len(ring[s]) >= Capacity[s]
      kept    == IF full THEN Tail(ring[s]) ELSE ring[s]
      loss    == IF full THEN 1 ELSE 0
      carried == IF loss > 0 /\ kept # <<>>
                   THEN [kept EXCEPT ![1].missed_before = @ + loss]
                   ELSE kept
      missed  == pending_missed[s] + (IF kept = <<>> THEN loss ELSE 0)
  IN  /\ ring' = [ring EXCEPT ![s] =
                    Append(carried, [seq |-> seq, missed_before |-> missed,
                                     nth |-> offered[s] + 1])]
      /\ pending_missed' = [pending_missed EXCEPT ![s] = 0]
      /\ missed_total' = [missed_total EXCEPT ![s] = @ + (IF full THEN 1 ELSE 0)]

\* The event is buffered.  A full ring first drops its oldest delivery, whose
\* own gap and itself go to the next oldest, or to the newcomer if none is left.
\* (The loop of the code runs once: a ring never exceeds its capacity.)
Buffer(s, seq) ==
  LET full    == Len(ring[s]) >= Capacity[s]
      kept    == IF full THEN Tail(ring[s]) ELSE ring[s]
      loss    == IF full THEN Head(ring[s]).missed_before + 1 ELSE 0
      carried == IF loss > 0 /\ kept # <<>>
                   THEN [kept EXCEPT ![1].missed_before = @ + loss]
                   ELSE kept
      missed  == pending_missed[s] + (IF kept = <<>> THEN loss ELSE 0)
  IN  /\ ring' = [ring EXCEPT ![s] =
                    Append(carried, [seq |-> seq, missed_before |-> missed,
                                     nth |-> offered[s] + 1])]
      /\ pending_missed' = [pending_missed EXCEPT ![s] = 0]
      /\ missed_total' = [missed_total EXCEPT ![s] = @ + (IF full THEN 1 ELSE 0)]

\* try_lock fails exactly while the consumer holds the queue lock.
Contended(s) == consumer[s] \in Holding

\* Fault: the waiting consumer is not notified.
Offer_Silent(p, s) ==
  /\ pub[p] # Idle
  /\ s \in pub[p].todo /\ pub[p].notify = {}
  /\ handle[s] = "live" /\ pub[p].topic \in Topics[s]
  /\ offered' = [offered EXCEPT ![s] = @ + 1]
  /\ \/ (Contended(s) \/ Capacity[s] = 0) /\ CountLoss(s)
     \/ ~Contended(s) /\ Capacity[s] # 0 /\ Buffer(s, pub[p].seq)
  /\ pub' = [pub EXCEPT ![p].todo = @ \ {s}]
  /\ UNCHANGED <<bus, handle, subscriptions, next_seq, closing, closed, consumer,
                 recvVars>>

\* Fault: offer waits for the queue lock.
Offer_Waits(p, s) ==
  /\ pub[p] # Idle
  /\ s \in pub[p].todo /\ pub[p].notify = {}
  /\ handle[s] = "live" /\ pub[p].topic \in Topics[s]
  /\ ~Contended(s)
  /\ offered' = [offered EXCEPT ![s] = @ + 1]
  /\ Buffer(s, pub[p].seq)
  /\ pub' = [pub EXCEPT ![p].todo = @ \ {s}, ![p].notify = {s}]
  /\ UNCHANGED <<bus, handle, subscriptions, next_seq, closing, closed, consumer,
                 recvVars>>

\* offer, up to its drop of the queue lock.
Offer(p, s) ==
  /\ pub[p] # Idle
  /\ s \in pub[p].todo /\ pub[p].notify = {}
  /\ handle[s] = "live" /\ pub[p].topic \in Topics[s]
  /\ offered' = [offered EXCEPT ![s] = @ + 1]
  /\ \/ /\ Contended(s) \/ Capacity[s] = 0
        /\ CountLoss(s)
        /\ pub' = [pub EXCEPT ![p].todo = @ \ {s}]
     \/ /\ ~Contended(s) /\ Capacity[s] # 0
        /\ Buffer(s, pub[p].seq)
        /\ pub' = [pub EXCEPT ![p].todo = @ \ {s}, ![p].notify = {s}]
  /\ UNCHANGED <<bus, handle, subscriptions, next_seq, closing, closed, consumer,
                 recvVars>>

\* Fault: a slot whose filter does not match is unlisted too.
Skip_Unlists(p, s) ==
  /\ pub[p] # Idle
  /\ s \in pub[p].todo /\ pub[p].notify = {}
  /\ handle[s] = "live" => pub[p].topic \notin Topics[s]
  /\ subscriptions' = subscriptions \ {s}
  /\ pub' = [pub EXCEPT ![p].todo = @ \ {s}]
  /\ UNCHANGED <<bus, handle, next_seq, closing, closed, consumer, slotVars,
                 recvVars>>

\* A slot whose filter does not match is skipped; a dead one is unlisted.
Skip(p, s) ==
  /\ pub[p] # Idle
  /\ s \in pub[p].todo /\ pub[p].notify = {}
  /\ \/ handle[s] = "live" /\ pub[p].topic \notin Topics[s]
        /\ UNCHANGED subscriptions
     \/ handle[s] # "live" /\ subscriptions' = subscriptions \ {s}
  /\ pub' = [pub EXCEPT ![p].todo = @ \ {s}]
  /\ UNCHANGED <<bus, handle, next_seq, closing, closed, consumer, slotVars,
                 recvVars>>

Wake(s) == IF consumer[s] = "waiting" THEN "woken" ELSE consumer[s]

\* offer's notify_all, after the queue lock is released.
Notify(p, s) ==
  /\ pub[p] # Idle
  /\ s \in pub[p].notify
  /\ consumer' = [consumer EXCEPT ![s] = Wake(s)]
  /\ pub' = [pub EXCEPT ![p].notify = {}]
  /\ UNCHANGED <<bus, handle, subscriptions, next_seq, closing, closed, slotVars,
                 recvVars>>

\* publish returns and the registry lock is released.
PublishEnd(p) ==
  /\ pub[p] # Idle
  /\ pub[p].todo = {} /\ pub[p].notify = {}
  /\ pub' = [pub EXCEPT ![p] = Idle]
  /\ UNCHANGED <<bus, handle, subscriptions, next_seq, closing, closed, consumer,
                 slotVars, recvVars>>

-----------------------------------------------------------------------------
(***************************************************************************)
(* Drop of the last handle: every listed slot is closed under its lock,    *)
(* for which Drop waits, and notified.  No publisher can be running.       *)
(***************************************************************************)
DropBus ==
  /\ bus = "open" /\ RegistryFree
  /\ bus' = "closing"
  /\ closing' = subscriptions
  /\ UNCHANGED <<handle, subscriptions, next_seq, pub, closed, consumer, slotVars,
                 recvVars>>

Close(s) ==
  /\ bus = "closing" /\ s \in closing
  /\ handle[s] = "live" /\ ~closed[s]
  /\ ~Contended(s)
  /\ closed' = [closed EXCEPT ![s] = TRUE]
  /\ UNCHANGED <<bus, handle, subscriptions, next_seq, pub, closing, consumer,
                 slotVars, recvVars>>

\* Fault: closing a queue wakes nobody.
CloseNotify_Silent(s) ==
  /\ bus = "closing" /\ s \in closing
  /\ closed[s]
  /\ closing' = closing \ {s}
  /\ UNCHANGED <<bus, handle, subscriptions, next_seq, pub, closed, consumer,
                 slotVars, recvVars>>

CloseNotify(s) ==
  /\ bus = "closing" /\ s \in closing
  /\ closed[s]
  /\ consumer' = [consumer EXCEPT ![s] = Wake(s)]
  /\ closing' = closing \ {s}
  /\ UNCHANGED <<bus, handle, subscriptions, next_seq, pub, closed, slotVars,
                 recvVars>>

DropEnd ==
  /\ bus = "closing"
  /\ \A s \in closing : handle[s] # "live" /\ ~closed[s]
  /\ bus' = "gone"
  /\ closing' = {}
  /\ UNCHANGED <<handle, subscriptions, next_seq, pub, closed, consumer, slotVars,
                 recvVars>>

-----------------------------------------------------------------------------
(***************************************************************************)
(* The consumer: try_recv, recv_timeout, drain and the accessors that take *)
(* the queue lock (len, is_empty, capacity, is_closed).                    *)
(***************************************************************************)
Lock(s, op) ==
  /\ handle[s] = "live" /\ consumer[s] = "idle"
  /\ op \in {"try_recv", "recv", "drain", "peek"}
  /\ consumer' = [consumer EXCEPT ![s] = op]
  /\ UNCHANGED <<busVars, slotVars, recvVars>>

\* The oldest delivery is taken.  drain keeps the lock and goes on.
Take(s) ==
  /\ consumer[s] \in Holding \ {"peek"} /\ ring[s] # <<>>
  /\ ring' = [ring EXCEPT ![s] = Tail(@)]
  /\ taken' = [taken EXCEPT ![s] = @ + 1]
  /\ told' = [told EXCEPT ![s] = @ + Head(ring[s]).missed_before]
  /\ last' = [last EXCEPT ![s] = Head(ring[s])]
  /\ reply' = [reply EXCEPT ![s] = "Delivered"]
  /\ consumer' = [consumer EXCEPT ![s] = IF @ = "drain" THEN "drain" ELSE "idle"]
  /\ UNCHANGED <<busVars, pending_missed, missed_total, offered>>

Answer(s, r) ==
  /\ reply' = [reply EXCEPT ![s] = r]
  /\ consumer' = [consumer EXCEPT ![s] = "idle"]
  /\ UNCHANGED <<busVars, slotVars, taken, told, last>>

\* Fault: the closed flag is looked at before the ring.
AnswerClosed_Undrained(s) ==
  /\ consumer[s] \in {"try_recv", "recv", "recheck", "expired"}
  /\ closed[s]
  /\ Answer(s, "Closed")

\* Nothing buffered and the bus is gone.
AnswerClosed(s) ==
  /\ consumer[s] \in {"try_recv", "recv", "recheck", "expired"}
  /\ ring[s] = <<>> /\ closed[s]
  /\ Answer(s, "Closed")

\* Nothing buffered and the bus is alive: try_recv answers at once, and
\* recv_timeout when its deadline has passed.
AnswerNothing(s) ==
  /\ ring[s] = <<>> /\ ~closed[s]
  /\ \/ consumer[s] = "try_recv" /\ Answer(s, "Empty")
     \/ consumer[s] = "expired" /\ Answer(s, "Timeout")

\* recv_timeout releases the lock and blocks on the condition variable.
Wait(s) ==
  /\ consumer[s] \in {"recv", "recheck"}
  /\ ring[s] = <<>> /\ ~closed[s]
  /\ consumer' = [consumer EXCEPT ![s] = "waiting"]
  /\ UNCHANGED <<busVars, slotVars, recvVars>>

\* The deadline passes, or the wait ends for no reason.
WaitEnds(s) ==
  /\ consumer[s] = "waiting"
  /\ \E how \in {"timed_out", "woken"} : consumer' = [consumer EXCEPT ![s] = how]
  /\ UNCHANGED <<busVars, slotVars, recvVars>>

\* Back under the lock.  A deadline that passed meanwhile is seen here too.
Relock(s) ==
  /\ \/ /\ consumer[s] = "woken"
        /\ \E how \in {"recheck", "expired"} :
             consumer' = [consumer EXCEPT ![s] = how]
     \/ /\ consumer[s] = "timed_out"
        /\ consumer' = [consumer EXCEPT ![s] = "expired"]
  /\ UNCHANGED <<busVars, slotVars, recvVars>>

\* drain found the ring empty, or an accessor has read its field.
Unlock(s) ==
  /\ \/ consumer[s] = "drain" /\ ring[s] = <<>>
     \/ consumer[s] = "peek"
  /\ consumer' = [consumer EXCEPT ![s] = "idle"]
  /\ UNCHANGED <<busVars, slotVars, recvVars>>

-----------------------------------------------------------------------------
PublisherStep(p) ==
  \/ \E s \in Sub : Offer(p, s) \/ Skip(p, s) \/ Notify(p, s)
  \/ PublishEnd(p)

DropStep == DropEnd \/ \E s \in Sub : Close(s) \/ CloseNotify(s)

\* What a consumer does once it is in a call, the deadline aside.
ConsumerStep(s) ==
  \/ Take(s) \/ AnswerClosed(s) \/ AnswerNothing(s) \/ Wait(s)
  \/ Relock(s) \/ Unlock(s)

Next ==
  \/ \E p \in Publisher : PublisherStep(p) \/ \E topic \in Topic : PublishBegin(p, topic)
  \/ \E s \in Sub :
       \/ Subscribe(s) \/ DropSubscription(s)
       \/ \E op \in Holding : Lock(s, op)
       \/ WaitEnds(s) \/ ConsumerStep(s)
  \/ SubscriberCount \/ DropBus \/ DropStep

Spec == Init /\ [][Next]_vars

\* Publishers run; consumers may stop anywhere, also under their lock.
PublishersRun == \A p \in Publisher : WF_vars(PublisherStep(p))

PublisherSpec == Spec /\ PublishersRun

\* Consumers finish the calls they start; no deadline is ever needed.
ConsumersRun == \A s \in Sub : WF_vars(ConsumerStep(s))

\* Drop runs, and the queue lock it waits for is granted in the end if it is
\* released again and again.
DropRuns ==
  /\ WF_vars(DropEnd)
  /\ \A s \in Sub : SF_vars(Close(s)) /\ WF_vars(CloseNotify(s))

-----------------------------------------------------------------------------
(***************************************************************************)
(* Properties.                                                             *)
(***************************************************************************)
\* Every variable has its shape and no ring exceeds its capacity.
TypeOK ==
  /\ bus \in {"open", "closing", "gone"}
  /\ handle \in [Sub -> {"unmade", "live", "dropped"}]
  /\ subscriptions \subseteq Sub
  /\ next_seq \in Nat
  /\ pub \in [Publisher -> {Idle} \cup FanOut]
  /\ closing \subseteq Sub
  /\ ring \in [Sub -> Seq(Delivery)]
  /\ closed \in [Sub -> BOOLEAN]
  /\ pending_missed \in [Sub -> Nat]
  /\ missed_total \in [Sub -> Nat]
  /\ consumer \in [Sub -> ConsumerState]
  /\ reply \in [Sub -> Reply]
  /\ offered \in [Sub -> Nat]
  /\ taken \in [Sub -> Nat]
  /\ told \in [Sub -> Nat]
  /\ last \in [Sub -> Delivery]
  /\ \A s \in Sub : Len(ring[s]) <= Capacity[s]

\* What the consumer holds, followed by what is buffered for it.
Before(s, i) == IF i = 1 THEN last[s] ELSE ring[s][i - 1]
Newest(s) == IF ring[s] = <<>> THEN last[s] ELSE ring[s][Len(ring[s])]

\* Every gap is exact and in its place: missed_before of a delivery is the
\* number of matching events between it and the delivery the consumer gets
\* just before it, whether they fell to overflow or to a contended lock, and
\* pending_missed is the number lost after the newest one (offer's carrying
\* of the loss onto whichever delivery survives).
GapsExact ==
  \A s \in Sub :
    /\ \A i \in 1..Len(ring[s]) :
         ring[s][i].missed_before = ring[s][i].nth - Before(s, i).nth - 1
    /\ pending_missed[s] = offered[s] - Newest(s).nth

\* Nothing is lost uncounted: every matching event was received, is buffered
\* or is in missed_total, and the losses the consumer has been told of never
\* exceed that total (the "two ways of asking about loss" of offer).
LossAccounted ==
  \A s \in Sub :
    /\ offered[s] = taken[s] + Len(ring[s]) + missed_total[s]
    /\ told[s] <= missed_total[s]
    /\ ring[s] = <<>> => missed_total[s] = told[s] + pending_missed[s]

\* A subscriber never sees a later sequence number before an earlier one
\* (publish assigns and fans out under one registry lock).
InOrder ==
  \A s \in Sub : \A i \in 1..Len(ring[s]) : Before(s, i).seq < ring[s][i].seq

\* Nobody sleeps on something to do: a consumer blocked on the condition
\* variable has an empty ring and an open bus, unless the notify_all that
\* will wake it is still to come.
NoLostWakeup ==
  \A s \in Sub :
    consumer[s] = "waiting" /\ (ring[s] # <<>> \/ closed[s]) =>
      s \in closing \/ \E p \in Publisher : pub[p] # Idle /\ s \in pub[p].notify

\* The registry lists every live subscription while the bus is open, so no
\* live subscriber is pruned by mistake.
LiveListed == bus = "open" => Live \subseteq subscriptions

\* A live subscription is listed, and what it receives is what was published,
\* in order, with every loss counted once and told of in its place, whatever
\* publishers do at once; no ring outgrows its capacity (publish,
\* Subscription::offer, recv).
DeliveryExact ==
  /\ LiveListed /\ InOrder /\ LossAccounted /\ GapsExact
  /\ \A s \in Sub : Len(ring[s]) <= Capacity[s]

\* publish always returns, even past a consumer that stalls for ever while it
\* holds its queue lock (offer uses try_lock).
PublishReturns == \A p \in Publisher : pub[p] # Idle ~> pub[p] = Idle

\* Once the last bus handle is being dropped a blocked recv_timeout returns,
\* without its deadline having to pass (Drop for Bus), provided that consumers
\* finish the calls they start.
DropWakesEveryone ==
  ConsumersRun /\ DropRuns =>
    \A s \in Sub : bus = "closing" /\ consumer[s] = "waiting" ~> consumer[s] = "idle"

\* A publish returns whatever consumers do, and dropping the bus reaches every
\* receiver that waits (publish, Drop for EventBus).
NobodyHangs == PublishReturns /\ DropWakesEveryone

\* The contract of one subscription, and how the bus's state shows it.
Stream(s) == INSTANCE LossyStream WITH
  sent <- offered[s], seen <- last[s].nth, told <- told[s],
  lost <- missed_total[s], over <- (reply[s] = "Closed")

\* Every subscription is a lossy stream that hides nothing: what publish,
\* offer, the receives and Drop do is a step of that contract or invisible.
\* In particular Closed is final: "waiting again will never help".
\* (The conjunction over s of Stream(s)!Spec, with the quantifier inside.)
ImplementsStream ==
  /\ \A s \in Sub : Stream(s)!Init
  /\ [][\A s \in Sub : [Stream(s)!Next]_(Stream(s)!vars)]_vars
(***************************************************************************)
(* A small instance: every subscription filters on one topic and has a     *)
(* ring of two, so that events of another topic pass it by and a third     *)
(* pending event is lost.                                                  *)
(***************************************************************************)
OneTopic   == [s \in Sub |-> {CHOOSE t \in Topic : TRUE}]
RoomForTwo == [s \in Sub |-> 2]
=============================================================================
