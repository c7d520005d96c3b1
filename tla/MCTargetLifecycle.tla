--------------------------- MODULE MCTargetLifecycle ---------------------------
(* Instances of TargetLifecycle for TLC. *)
EXTENDS TargetLifecycle, TLC

\* meta_tag behaves as http_file and ip_registry as email wherever the code looks.
MCChallenge == {"dns_txt", "http_file"}
MCOutOfBand == {"email"}

\* Request slots are interchangeable, and so are target ids.
Slots == Permutations(Req) \cup Permutations(Tid)
================================================================================
