------------------------------ MODULE MCScopeGate ------------------------------
EXTENDS ScopeGate, TLC

MCChallenge == {"dns_txt"}
MCOutOfBand == {"email"}
Slots       == Permutations(Req)
================================================================================
