----------------------------- MODULE MCToolsLimiter ----------------------------
EXTENDS ToolsLimiter, TLC

CONSTANTS i1, i2, r1, r2, b1, b2

Slots == Permutations(Req) \cup Permutations(Ip) \cup Permutations(Bucket)
================================================================================
