------------------------------ MODULE ScanBoundary -----------------------------
(***************************************************************************)
(* What the state machine of a target promises to whoever relies on it:    *)
(* when a target may be scanned, who can make it so and what ends it.      *)
(* There are no rows, requests or statements here; each step is about one  *)
(* target and is done at once.                                             *)
(***************************************************************************)
CONSTANT Tid

VARIABLE access  \* what is known of each target

\* kind      whose target it is, or that it does not exist yet or any more
\* grounds   why it may be scanned now: its owner proved it, an admin attested it
\* backed    it was proved or attested once
\* standing  what is shown of it
\* shut      an admin has revoked it and none has granted it again since
Kind     == {"none", "customer", "program", "deleted"}
Standing == {"open", "verified", "revoked"}
Access   == [kind : Kind, grounds : SUBSET {"proved", "attested"}, backed : BOOLEAN,
             standing : Standing, shut : BOOLEAN]

Bare(k, s) == [kind |-> k, grounds |-> {}, backed |-> FALSE, standing |-> s, shut |-> FALSE]

Present(t) == access[t].kind \in {"customer", "program"}

Set(t, a) == access' = [access EXCEPT ![t] = a]

\* The same target on other grounds.
On(t, g, b, s) ==
  [kind |-> access[t].kind, grounds |-> g, backed |-> b,
   standing |-> access[t].standing, shut |-> s]

Init == access = [t \in Tid |-> Bare("none", "open")]

--------------------------------------------------------------------------------
\* Only a program's target is shown as verified from the start.
RegisterCustomer(t) ==
  access[t].kind = "none" /\ Set(t, Bare("customer", "open"))

RegisterProgram(t) ==
  access[t].kind = "none" /\ Set(t, Bare("program", "verified"))

\* A new reason may stand in the place of an old one.
Prove(t) ==
  /\ access[t].kind = "customer"
  /\ \E kept \in SUBSET access[t].grounds :
       Set(t, On(t, kept \cup {"proved"}, TRUE, access[t].shut))

\* An admin's grant, and nothing else, ends what Revoke began.
Grant(t) ==
  /\ Present(t)
  /\ \E kept \in SUBSET access[t].grounds :
       Set(t, On(t, kept \cup {"attested"}, TRUE, FALSE))

Expire(t) ==
  /\ Present(t)
  /\ \E kept \in SUBSET access[t].grounds :
       Set(t, On(t, kept, access[t].backed, access[t].shut))

\* The kill switch takes every reason away at once.
Revoke(t) == Present(t) /\ Set(t, On(t, {}, access[t].backed, TRUE))

\* Nothing is shown as verified that nobody proved or attested.
Confirm(t) == access[t].backed /\ Set(t, [access[t] EXCEPT !.standing = "verified"])

\* A program's target is never opened again.
Reopen(t) == access[t].kind = "customer" /\ Set(t, [access[t] EXCEPT !.standing = "open"])

Suspend(t) == Present(t) /\ Set(t, [access[t] EXCEPT !.standing = "revoked"])

\* Deletion takes everything away, for good.
Delete(t) == Present(t) /\ Set(t, Bare("deleted", "open"))

\* What changes nothing is a stutter and no step.
Next ==
  /\ access' # access
  /\ \E t \in Tid :
       \/ RegisterCustomer(t) \/ RegisterProgram(t)
       \/ Prove(t) \/ Grant(t) \/ Expire(t) \/ Revoke(t)
       \/ Confirm(t) \/ Reopen(t) \/ Suspend(t) \/ Delete(t)

Spec == Init /\ [][Next]_access

--------------------------------------------------------------------------------
\* What follows for whoever relies on the promise.  A target may be scanned if it
\* is shown as verified and there is a reason now.
MayScan(t) == access[t].standing = "verified" /\ access[t].grounds # {}

\* A scan rests on a proof of the target's own customer or on an admin; while an
\* admin has shut the target, on such a proof alone; and no deleted or unknown
\* target may be scanned.
ScansAreGrounded ==
  \A t \in Tid : MayScan(t) =>
    /\ Present(t)
    /\ "proved" \in access[t].grounds => access[t].kind = "customer"
    /\ access[t].shut => access[t].grounds = {"proved"}
================================================================================
