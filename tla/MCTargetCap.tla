------------------------------ MODULE MCTargetCap ------------------------------
(* One plan, whose limit an operator changes, and two requests at once. *)
EXTENDS TargetCap, TLC

CONSTANTS r1, r2, free

MCLimit == {-1, 1}
Slots   == Permutations({r1, r2})
================================================================================
