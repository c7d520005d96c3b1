----------------------------- MODULE MCAuditTrail -----------------------------
(* Instances of AuditTrail for TLC. *)
EXTENDS AuditTrail

MCChallenge == {"dns_txt"}
MCOutOfBand == {"email"}
===============================================================================
