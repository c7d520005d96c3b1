------------------------------- MODULE TokenBucket -----------------------------
(***************************************************************************)
(* What the limiter of the public tools promises each client: one request  *)
(* per Interval, and Burst of them at once after a rest.  Levels are       *)
(* counted in ticks of refill, so a request costs Interval.                *)
(***************************************************************************)
EXTENDS Integers

CONSTANTS Client, Burst, Interval

VARIABLE level

Full == Burst * Interval

Refilled(n, d) == IF n + d <= Full THEN n + d ELSE Full

Init == level = [c \in Client |-> Full]

Take(c) ==
  /\ level[c] >= Interval
  /\ level' = [level EXCEPT ![c] = @ - Interval]

\* Some clients wait for their next token and get it the moment it is there.
Refill ==
  \E waiting \in SUBSET Client :
    /\ \A c \in waiting : Refilled(level[c], 1) >= Interval
    /\ level' = [c \in Client |->
                   Refilled(level[c], 1) - IF c \in waiting THEN Interval ELSE 0]

Next == Refill \/ \E c \in Client : Take(c)

Spec == Init /\ [][Next]_level
================================================================================
