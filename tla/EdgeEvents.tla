----------------------------- MODULE EdgeEvents -----------------------------
(***************************************************************************)
(* What the subscribers of the battery's common events are promised: an    *)
(* event that reports a change of the battery is published only when the   *)
(* opposite event, or none of the two, was the last one published.         *)
(***************************************************************************)
CONSTANTS
  Event,      \* the events
  Opposite    \* maps an event to the one that reports the opposite change

VARIABLE said  \* the events that were the last of their pair to be published

Init == said = {}

Publish(e) ==
  /\ e \notin said
  /\ said' = (said \ {Opposite[e]}) \cup {e}

Next == \E e \in Event : Publish(e)

Spec == Init /\ [][Next]_said
=============================================================================
