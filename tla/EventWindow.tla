----------------------------- MODULE EventWindow -----------------------------
(***************************************************************************)
(* What the idempotency store of the hook router promises: an event is     *)
(* completed at most once in a window of TTL.  HookEvents implements it.   *)
(***************************************************************************)
EXTENDS Naturals

CONSTANTS
  Events,     \* keys of normalized events
  TTL,        \* how long a completed event is remembered
  MaxClock,   \* bound on time
  NONE

VARIABLES
  clock,
  completed   \* completed[k]: when event k was completed; NONE outside its window

Init == clock = 0 /\ completed = [k \in Events |-> NONE]

\* Completion is stamped with a time read shortly before.
Complete(k) ==
  /\ completed[k] = NONE
  /\ \E t \in 0 .. clock : clock < t + TTL /\ completed' = [completed EXCEPT ![k] = t]
  /\ UNCHANGED clock

\* Time passes, and windows end.
Tick ==
  /\ clock < MaxClock
  /\ clock' = clock + 1
  /\ completed' = [k \in Events |-> IF completed[k] # NONE /\ clock' >= completed[k] + TTL
                                      THEN NONE ELSE completed[k]]

Next == Tick \/ \E k \in Events : Complete(k)

Spec == Init /\ [][Next]_<<clock, completed>>
=============================================================================
