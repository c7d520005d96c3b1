--------------------------- MODULE MCScopeVerdict ---------------------------
(* One domain with one host of it and a look-alike, one block, and an address of *)
(* each sort.                                                                    *)
EXTENDS ScopeVerdict

CONSTANTS h, lookalike, public, edge, private, d, b

MCUnder  == [x \in {d} |-> {h}]
MCWithin == [x \in {b} |-> {public, edge}]

Dom  == [kind |-> "registrable_domain", value |-> d]
Rng  == [kind |-> "ip_range", value |-> b]
Prog == [kind |-> "program", value |-> "handle"]
MCAuthSets == {{}, {Dom}, {Rng}, {Prog}, {Dom, Prog}}

MCAnswers  == {{}, {public}, {public, private}, {edge}}
MCPolicies == {{}, {h}, {public}}

\* An authenticated phase leaves the fields of the intrusive test out, and a plain
\* phase the attestation.
MCRequests ==
  {r \in Request : IF r.phase = "plain" THEN r.attested = "absent"
                   ELSE r.intrusive = "absent" /\ r.layer = "absent"}
=============================================================================
