---------------------------- MODULE LossyStream -----------------------------
(***************************************************************************)
(* What the event bus promises one subscriber: a stream that may lose      *)
(* events but never hides, misplaces, reorders or repeats one.  Events are *)
(* known by their number among those sent to this subscriber.              *)
(***************************************************************************)
EXTENDS Integers

VARIABLES
  sent,   \* events sent so far
  seen,   \* number of the last event received
  told,   \* losses announced to the subscriber with what it received
  lost,   \* losses counted so far
  over    \* the subscriber has been told that the stream is over

vars == <<sent, seen, told, lost, over>>

Init == sent = 0 /\ seen = 0 /\ told = 0 /\ lost = 0 /\ over = FALSE

\* Sending one event loses at most one: this one, or the oldest buffered.
Send ==
  /\ ~over
  /\ sent' = sent + 1
  /\ lost' \in {lost, lost + 1}
  /\ UNCHANGED <<seen, told, over>>

\* An event newer than all received arrives, with the exact number skipped,
\* all of which have been counted as lost.
Receive ==
  /\ ~over
  /\ \E n \in (seen + 1)..sent :
       /\ seen' = n
       /\ told' = told + (n - seen - 1)
  /\ told' <= lost
  /\ UNCHANGED <<sent, lost, over>>

\* The end is announced only when everything sent was received or lost.
End ==
  /\ ~over
  /\ told + (sent - seen) = lost
  /\ over' = TRUE
  /\ UNCHANGED <<sent, seen, told, lost>>

Next == Send \/ Receive \/ End

Spec == Init /\ [][Next]_vars
=============================================================================
