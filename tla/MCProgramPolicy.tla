---------------------------- MODULE MCProgramPolicy ----------------------------
(* One program with a wildcard scope and an excluded subdomain: the platform     *)
(* lists the exclusion on the second page, then moves it behind the page cap.    *)
EXTENDS ProgramPolicy, TLC

CONSTANTS apex, sub, a1, a2

MCHost  == {apex, sub}
MCUnder == [h \in MCHost |-> IF h = apex THEN {sub} ELSE {}]

Wild == [type |-> "wildcard", id |-> apex, inScope |-> TRUE]
Out  == [type |-> "domain",   id |-> sub,  inScope |-> FALSE]
Net  == [type |-> "cidr",     id |-> apex, inScope |-> TRUE]

MCEdition == << << {Wild}, {Out} >>, << {Wild}, {Net}, {Out} >> >>

Open   == [active |-> TRUE,  automation |-> TRUE, prohibited |-> {"brute_force"}, window |-> 0]
Paused == [active |-> FALSE, automation |-> TRUE, prohibited |-> {},              window |-> 2]
MCTerm == {Open, Paused}

Slots == Permutations({a1, a2})
================================================================================
