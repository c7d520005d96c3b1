-------------------------- MODULE ScopeVerdictProofs --------------------------
(***************************************************************************)
(* Proofs about ScopeVerdict: whatever the constants, and however the      *)
(* world and the name's answers change while a check runs, what an allowed *)
(* check hands out is safe and what it rests on was read.                  *)
(***************************************************************************)
EXTENDS ScopeVerdict, TLAPS

\* The invariants of a check under way: the pins of a check that is to be decided
\* passed the vetting, and its rows and consent the steps before it.
Vetted ==
  check.step \in {"decide", "allowed"} =>
    /\ DirectPasses(check.req)
    /\ \/ check.req.host = NoHost /\ check.pins = Own(check.req)
       \/ \E found \in Answers :
            /\ check.req.host # NoHost /\ check.lookups = {found}
            /\ ResolvePasses(check.req, found)
            /\ check.pins = Own(check.req) \cup found

Consented ==
  check.step \in {"auths", "vet", "decide", "allowed"} =>
    check.req.phase = "plain" \/ (check.req.phase = "auth" /\ check.req.attested = "yes")

Granted ==
  At("allowed") => \E row \in check.rows : Applies(row, check.req)

VInv == TypeOK /\ Vetted /\ Consented /\ Granted

\* Every variable keeps its type.
LEMMA TypeStep == TypeOK /\ [Next]_vars => TypeOK'
<1> SUFFICES ASSUME TypeOK, [Next]_vars PROVE TypeOK' OBVIOUS
<1> USE ScopeAssumption, AddressAssumption, RequestsAssumption, ChangesAssumption
        DEF TypeOK, At
<1>1. ASSUME NEW req \in Requests, Ask(req) PROVE TypeOK'
  BY <1>1 DEF Ask, Check
<1>2. CASE ReadTarget
  BY <1>2 DEF ReadTarget, Goto, Deny, Check, Idle
<1>3. CASE ReadAuths
  <2>1. check \in Check BY <1>3 DEF ReadAuths, Idle
  <2>2. world.auths \in SUBSET Scope BY DEF World
  <2>3. PICK s \in {"denied", "vet"} :
          check' = [check EXCEPT !.rows = world.auths, !.step = s]
    BY <1>3, <2>1 DEF ReadAuths
  <2>4. check' \in Check BY <2>1, <2>2, <2>3 DEF Check
  <2> QED BY <1>3, <2>4 DEF ReadAuths
<1>4. CASE VetDirect
  BY <1>4 DEF VetDirect, Goto, Deny, Check, Idle
<1>5. ASSUME NEW found \in Answers, Vet(found) PROVE TypeOK'
  <2>1. check \in Check BY <1>5 DEF Vet, Idle
  <2>2. check.req.ip \in Addr \cup {NoIP} BY <1>5, <2>1 DEF Vet, DirectPasses, Check, Request
  <2>3. Own(check.req) \cup found \in SUBSET Addr BY <2>2 DEF Own
  <2> QED BY <1>5, <2>1, <2>3 DEF Vet, Check
<1>6. CASE VetNoHost
  <2>1. check \in Check BY <1>6 DEF VetNoHost, Idle
  <2>2. check.req.ip \in Addr \cup {NoIP} BY <1>6, <2>1 DEF VetNoHost, DirectPasses, Check, Request
  <2>3. Own(check.req) \in SUBSET Addr BY <2>2 DEF Own
  <2> QED BY <1>6, <2>1, <2>3 DEF VetNoHost, Check
<1>7. ASSUME NEW row \in check.rows, DecideBy(row) PROVE TypeOK'
  <2>1. check \in Check
    <3>1. check.step = "decide" BY <1>7 DEF DecideBy
    <3> QED BY <3>1 DEF Idle
  <2>2. PICK s \in {"allowed", "denied"} : check' = [check EXCEPT !.step = s]
    <3>1. CASE row.kind = "program" => ProgramPermits(check.req)
      <4>1. check' = [check EXCEPT !.step = "allowed", !.pins = check.pins]
        BY <1>7, <3>1 DEF DecideBy, Pins
      <4>2. check' = [check EXCEPT !.step = "allowed"] BY <2>1, <4>1 DEF Check
      <4> QED BY <4>2
    <3>2. CASE ~(row.kind = "program" => ProgramPermits(check.req))
      BY <1>7, <3>2 DEF DecideBy, Deny, Goto
    <3> QED BY <3>1, <3>2
  <2>3. check' \in Check BY <2>1, <2>2 DEF Check
  <2> QED BY <1>7, <2>3 DEF DecideBy
<1>8. CASE DenyByDefault
  BY <1>8 DEF DenyByDefault, Goto, Deny, Check, Idle
<1>9. CASE Leave
  BY <1>9 DEF Leave
<1>10. CASE Change
  <2>1. check' \in Check \cup {Idle}
    <3>1. CASE At("idle") BY <1>10, <3>1 DEF Change
    <3>2. CASE ~At("idle")
      <4>1. check \in Check BY <3>2 DEF Idle
      <4>2. check' = [check EXCEPT !.calm = FALSE] BY <1>10, <3>2 DEF Change
      <4> QED BY <4>1, <4>2 DEF Check
    <3> QED BY <3>1, <3>2
  <2>2. world' \in World BY <1>10 DEF Change
  <2>3. changes' \in 0..MaxChanges BY <1>10 DEF Change
  <2> QED BY <1>10, <2>1, <2>2, <2>3 DEF Change
<1>11. CASE UNCHANGED vars
  BY <1>11 DEF vars
<1>12. CASE ReadTargetFails
  <2>1. check \in Check BY <1>12 DEF ReadTargetFails, Idle
  <2>2. check' \in Check BY <1>12, <2>1 DEF ReadTargetFails, DenyUnread, Check
  <2> QED BY <1>12, <2>2 DEF ReadTargetFails
<1>13. ASSUME NEW row \in check.rows, ProgramUnread(row) PROVE TypeOK'
  <2>1. check.step = "decide" BY <1>13 DEF ProgramUnread
  <2>2. check \in Check BY <2>1 DEF Idle
  <2>3. check' \in Check BY <1>13, <2>2 DEF ProgramUnread, DenyUnread, Check
  <2> QED BY <1>13, <2>3 DEF ProgramUnread
<1> QED BY <1>1, <1>2, <1>3, <1>4, <1>5, <1>6, <1>7, <1>8, <1>9, <1>10, <1>11, <1>12, <1>13 DEF Next

\* Every step keeps the invariants.
LEMMA VerdictStep == VInv /\ [Next]_vars => VInv'
<1> SUFFICES ASSUME VInv, [Next]_vars PROVE Vetted' /\ Consented' /\ Granted'
  BY TypeStep DEF VInv
<1>0. TypeOK BY DEF VInv
<1> USE DEF VInv, At
<1>1. ASSUME NEW req \in Requests, Ask(req) PROVE Vetted' /\ Consented' /\ Granted'
  BY <1>1 DEF Ask, Vetted, Consented, Granted
<1>2. CASE ReadTarget
  <2>1. check \in Check BY <1>0, <1>2 DEF ReadTarget, Idle, TypeOK
  <2> QED BY <1>2, <2>1 DEF ReadTarget, Goto, Deny, Check, Vetted, Consented, Granted, AuthScanVerdict
<1>3. CASE ReadAuths
  <2>1. check \in Check BY <1>0, <1>3 DEF ReadAuths, Idle, TypeOK
  <2> QED BY <1>3, <2>1 DEF ReadAuths, Check, Vetted, Consented, Granted
<1>4. CASE VetDirect
  <2>1. check \in Check BY <1>0, <1>4 DEF VetDirect, Idle, TypeOK
  <2> QED BY <1>4, <2>1 DEF VetDirect, Goto, Deny, Check, Vetted, Consented, Granted
<1>5. ASSUME NEW found \in Answers, Vet(found) PROVE Vetted' /\ Consented' /\ Granted'
  <2>1. check \in Check BY <1>0, <1>5 DEF Vet, Idle, TypeOK
  <2>2. check'.req = check.req /\ ipTargets' = ipTargets BY <1>5, <2>1 DEF Vet, Check
  <2>3. Consented' /\ Granted' BY <1>5, <2>1, <2>2 DEF Vet, Check, Consented, Granted
  <2>4. CASE ResolvePasses(check.req, found)
    <3>1. check' = [check EXCEPT !.step = "decide", !.lookups = {found},
                                 !.pins = Own(check.req) \cup found]
      BY <1>5, <2>4 DEF Vet
    <3>2. check'.lookups = {found} /\ check'.pins = Own(check.req) \cup found
      BY <2>1, <3>1 DEF Check
    <3>3. DirectPasses(check.req)' BY <1>5, <2>2 DEF Vet, DirectPasses
    <3>4. ResolvePasses(check'.req, found) /\ Own(check'.req) = Own(check.req)
          /\ check'.req.host # NoHost
      BY <1>5, <2>2, <2>4 DEF Vet
    <3> QED BY <2>2, <2>3, <3>2, <3>3, <3>4 DEF Vetted
  <2>5. CASE ~ResolvePasses(check.req, found)
    <3>1. check' = [check EXCEPT !.step = "denied", !.lookups = {found}] BY <1>5, <2>5 DEF Vet
    <3>2. check'.step = "denied" BY <2>1, <3>1 DEF Check
    <3> QED BY <2>3, <3>2 DEF Vetted
  <2> QED BY <2>4, <2>5
<1>6. CASE VetNoHost
  <2>1. check \in Check BY <1>0, <1>6 DEF VetNoHost, Idle, TypeOK
  <2> QED BY <1>6, <2>1 DEF VetNoHost, Check, Vetted, Consented, Granted, DirectPasses
<1>7. ASSUME NEW row \in check.rows, DecideBy(row) PROVE Vetted' /\ Consented' /\ Granted'
  <2>1. check \in Check
    <3>1. check.step = "decide" BY <1>7 DEF DecideBy
    <3> QED BY <1>0, <3>1 DEF Idle, TypeOK
  <2>2. PICK s \in {"allowed", "denied"} : check' = [check EXCEPT !.step = s]
    <3>1. CASE row.kind = "program" => ProgramPermits(check.req)
      <4>1. check' = [check EXCEPT !.step = "allowed", !.pins = check.pins]
        BY <1>7, <3>1 DEF DecideBy, Pins
      <4>2. check' = [check EXCEPT !.step = "allowed"] BY <2>1, <4>1 DEF Check
      <4> QED BY <4>2
    <3>2. CASE ~(row.kind = "program" => ProgramPermits(check.req))
      BY <1>7, <3>2 DEF DecideBy, Deny, Goto
    <3> QED BY <3>1, <3>2
  <2>3. check'.req = check.req /\ check'.rows = check.rows /\ check'.pins = check.pins
        /\ check'.lookups = check.lookups
    BY <2>1, <2>2 DEF Check
  <2>4. check.step = "decide" /\ ipTargets' = ipTargets /\ Applies(row, check.req)
    BY <1>7 DEF DecideBy
  <2>5. DirectPasses(check.req)' = DirectPasses(check.req)
    BY <2>3, <2>4 DEF DirectPasses
  <2>6. Applies(row, check.req)' = Applies(row, check.req)
    BY <2>3, <2>4 DEF Applies, isSubdomainOf
  <2>7. Vetted'
    <3>1. \/ check.req.host = NoHost /\ check.pins = Own(check.req)
          \/ \E found \in Answers :
               /\ check.req.host # NoHost /\ check.lookups = {found}
               /\ ResolvePasses(check.req, found)
               /\ check.pins = Own(check.req) \cup found
      BY <2>4 DEF Vetted
    <3>2. DirectPasses(check.req)' BY <2>4, <2>5 DEF Vetted
    <3> QED BY <2>3, <3>1, <3>2 DEF Vetted
  <2>8. Consented' BY <2>3, <2>4 DEF Consented
  <2>9. Granted' BY <2>3, <2>4, <2>6 DEF Granted
  <2> QED BY <2>7, <2>8, <2>9
<1>8. CASE DenyByDefault
  <2>1. check \in Check BY <1>0, <1>8 DEF DenyByDefault, Idle, TypeOK
  <2> QED BY <1>8, <2>1 DEF DenyByDefault, Goto, Deny, Check, Vetted, Consented, Granted
<1>9. CASE Leave
  BY <1>9 DEF Leave, Idle, Vetted, Consented, Granted
<1>10. CASE Change
  <2>1. CASE check' = check
    BY <1>10, <2>1 DEF Change, Vetted, Consented, Granted, DirectPasses, Applies
  <2>2. CASE ~At("idle")
    <3>1. check \in Check BY <1>0, <2>2 DEF Idle, TypeOK
    <3>2. check'.req = check.req /\ check'.rows = check.rows /\ check'.pins = check.pins
          /\ check'.lookups = check.lookups /\ check'.step = check.step /\ ipTargets' = ipTargets
      BY <1>10, <2>2, <3>1 DEF Change, Check
    <3> QED BY <3>2 DEF Vetted, Consented, Granted, DirectPasses, Applies
  <2> QED BY <1>10, <2>1, <2>2 DEF Change
<1>11. CASE UNCHANGED vars
  BY <1>11 DEF vars, Vetted, Consented, Granted, DirectPasses, Applies
<1>12. CASE ReadTargetFails
  <2>1. check \in Check BY <1>0, <1>12 DEF ReadTargetFails, Idle, TypeOK
  <2> QED BY <1>12, <2>1 DEF ReadTargetFails, DenyUnread, Check, Vetted, Consented, Granted
<1>13. ASSUME NEW row \in check.rows, ProgramUnread(row)
       PROVE  Vetted' /\ Consented' /\ Granted'
  <2>0. check.step = "decide" BY <1>13 DEF ProgramUnread
  <2>1. check \in Check BY <1>0, <2>0 DEF Idle, TypeOK
  <2> QED BY <1>13, <2>1 DEF ProgramUnread, DenyUnread, Check, Vetted, Consented, Granted
<1> QED BY <1>1, <1>2, <1>3, <1>4, <1>5, <1>6, <1>7, <1>8, <1>9, <1>10, <1>11, <1>12, <1>13 DEF Next

LEMMA VerdictInit == Init => VInv
BY ScopeAssumption, ChangesAssumption
   DEF Init, VInv, TypeOK, Idle, Vetted, Consented, Granted, At

\* Every behaviour keeps the types and the invariants.
THEOREM VerdictInvariant == Spec => []VInv
BY VerdictInit, VerdictStep, PTL DEF Spec

THEOREM VerdictTypeCorrect == Spec => []TypeOK
<1>1. VInv => TypeOK BY DEF VInv
<1> QED BY <1>1, VerdictInvariant, PTL

\* What an allowed check pins is safe to connect to, at every instance.
THEOREM PinsSafe == Spec => []PinsAreSafe
<1>1. VInv => PinsAreSafe
  <2> SUFFICES ASSUME VInv, At("allowed") PROVE PinsAreSafe BY DEF PinsAreSafe
  <2>1. check \in Check BY DEF VInv, TypeOK, Idle, At
  <2>2. DirectPasses(check.req) BY DEF VInv, Vetted, At
  <2>3. Own(check.req) \cap Reserved = {} BY <2>2 DEF DirectPasses, Own
  <2>4. check.req.intrusive # "no" => check.req.ip \notin Shared \/ check.req.ip = NoIP
    BY <2>2 DEF DirectPasses, IsIntrusive, isSharedInfra
  <2>5. NoIP \notin Shared BY AddressAssumption
  <2>6. CASE check.req.host = NoHost /\ check.pins = Own(check.req)
    BY <2>3, <2>4, <2>5, <2>6 DEF PinsAreSafe, Own
  <2>7. ASSUME NEW found \in Answers, check.req.host # NoHost,
               ResolvePasses(check.req, found), check.pins = Own(check.req) \cup found
        PROVE  PinsAreSafe
    <3>1. check.pins \cap Reserved = {} BY <2>3, <2>7 DEF ResolvePasses
    <3>2. CASE check.req.intrusive = "no" BY <3>1, <3>2 DEF PinsAreSafe
    <3>3. CASE check.req.intrusive # "no"
      <4>1. Own(check.req) \cap Shared = {} /\ check.req.ip \notin Shared
        BY <2>4, <2>5, <3>3 DEF Own
      <4>2. check.req.layer = "application" \/ found \cap Shared = {}
        BY <2>7, <3>3 DEF ResolvePasses, IsIntrusive, IsNetworkLayer, isSharedInfra
      <4> QED BY <2>7, <3>1, <4>1, <4>2 DEF PinsAreSafe
    <3> QED BY <3>2, <3>3
  <2> QED BY <2>6, <2>7 DEF VInv, Vetted, At
<1> QED BY <1>1, VerdictInvariant, PTL

\* What allows a check was read by it.
THEOREM AllowEarned == Spec => []AllowIsEarned
<1>1. VInv => AllowIsEarned
  <2> SUFFICES ASSUME VInv, At("allowed") PROVE AllowIsEarned BY DEF AllowIsEarned
  <2>1. check \in Check BY DEF VInv, TypeOK, Idle, At
  <2>2. PICK row \in check.rows : Applies(row, check.req) BY DEF VInv, Granted
  <2>3. row \in Scope BY <2>1 DEF Check
  <2>4. row.kind \in {"registrable_domain", "ip_range", "program"} BY <2>3 DEF Scope
  <2>5. \/ row.kind = "program"
        \/ row.kind = "registrable_domain" /\ check.req.host \in Under[row.value]
        \/ row.kind = "ip_range" /\ ipTargets /\ check.req.ip \in Within[row.value]
    BY <2>2, <2>4 DEF Applies, isSubdomainOf
  <2>6. ~ipTargets => check.pins \subseteq UNION check.lookups
    <3> SUFFICES ASSUME ~ipTargets PROVE check.pins \subseteq UNION check.lookups OBVIOUS
    <3>1. Own(check.req) = {} BY DEF VInv, Vetted, DirectPasses, Own, At
    <3> QED BY <3>1 DEF VInv, Vetted, At
  <2> QED BY <2>5, <2>6 DEF VInv, Consented, AllowIsEarned, At
<1> QED BY <1>1, VerdictInvariant, PTL

\* What a check that nothing has disturbed knows of the world.
Steady ==
  /\ check.step \in {"auths", "vet", "decide"} /\ check.calm => world.status = "verified"
  /\ check.step \in {"vet", "decide"} /\ check.calm => check.rows = world.auths

RInv == TypeOK /\ Steady /\ RefusalHasReason

\* A step refuses for a reason, by what the check knows.
LEMMA RefusalStep == RInv /\ [Next]_vars => Steady' /\ RefusalHasReason'
<1> SUFFICES ASSUME RInv, [Next]_vars PROVE Steady' /\ RefusalHasReason' OBVIOUS
<1>0. TypeOK /\ Steady BY DEF RInv
<1> USE DEF At
<1>1. ASSUME NEW req \in Requests, Ask(req) PROVE Steady' /\ RefusalHasReason'
  BY <1>1 DEF Ask, Steady, RefusalHasReason
<1>2. CASE ReadTarget
  <2>1. check \in Check BY <1>0, <1>2 DEF ReadTarget, Idle, TypeOK
  <2>2. CASE AuthScanVerdict(check.req, world.status = "verified") /\ world.status = "verified"
    BY <1>2, <2>1, <2>2 DEF ReadTarget, Goto, Check, Steady, RefusalHasReason
  <2>3. CASE ~(AuthScanVerdict(check.req, world.status = "verified") /\ world.status = "verified")
    <3>1. check'.step = "denied" /\ check'.req = check.req /\ world' = world
      BY <1>2, <2>1, <2>3 DEF ReadTarget, Deny, Goto, Check
    <3>2. \/ world.status # "verified"
          \/ check.req.phase = "auth_other"
          \/ check.req.phase = "auth" /\ check.req.attested # "yes"
      <4>1. check.req.phase \in {"plain", "auth", "auth_other"}
        BY <2>1, RequestsAssumption DEF Check, Request
      <4> QED BY <2>3, <4>1 DEF AuthScanVerdict
    <3> QED BY <3>1, <3>2 DEF Steady, RefusalHasReason
  <2> QED BY <2>2, <2>3
<1>3. CASE ReadAuths
  <2>1. check \in Check BY <1>0, <1>3 DEF ReadAuths, Idle, TypeOK
  <2>2. world' = world /\ check'.rows = world.auths /\ check'.req = check.req
        /\ check'.calm = check.calm /\ check'.step \in {"denied", "vet"}
        /\ (check'.step = "denied" => world.auths = {})
    BY <1>3, <2>1 DEF ReadAuths, Check
  <2>3. check.calm => world.status = "verified" BY <1>0, <1>3 DEF ReadAuths, Steady
  <2>4. Steady' BY <2>2, <2>3 DEF Steady
  <2>5. RefusalHasReason' BY <2>2 DEF RefusalHasReason
  <2> QED BY <2>4, <2>5
<1>4. CASE VetDirect
  <2>1. check \in Check BY <1>0, <1>4 DEF VetDirect, Idle, TypeOK
  <2>2. check'.step = "denied" /\ check'.req = check.req /\ ipTargets' = ipTargets
    BY <1>4, <2>1 DEF VetDirect, Deny, Goto, Check
  <2>3. check.req.ip \in Addr \cup {NoIP, BadIP}
    BY <2>1, RequestsAssumption DEF Check, Request
  <2>4. ~DirectPasses(check.req) BY <1>4 DEF VetDirect
  <2>5. check.req.ip # NoIP /\ (\/ ~ipTargets \/ check.req.ip \in Reserved \cup {BadIP}
                                \/ check.req.ip \in Shared /\ check.req.intrusive # "no")
    BY <2>3, <2>4 DEF DirectPasses, IsIntrusive, isSharedInfra
  <2> QED BY <2>2, <2>5 DEF Steady, RefusalHasReason
<1>5. ASSUME NEW found \in Answers, Vet(found) PROVE Steady' /\ RefusalHasReason'
  <2>1. check \in Check BY <1>0, <1>5 DEF Vet, Idle, TypeOK
  <2>2. check'.req = check.req /\ check'.calm = check.calm /\ check'.rows = check.rows
        /\ check'.lookups = {found} /\ world' = world
    BY <1>5, <2>1 DEF Vet, Check
  <2>3. CASE ResolvePasses(check.req, found)
    <3>1. check'.step = "decide" BY <1>5, <2>1, <2>3 DEF Vet, Check
    <3>2. check.step = "vet" BY <1>5 DEF Vet
    <3>3. Steady' BY <1>0, <2>2, <3>1, <3>2 DEF Steady
    <3> QED BY <3>1, <3>3 DEF RefusalHasReason
  <2>4. CASE ~ResolvePasses(check.req, found)
    <3>1. check'.step = "denied" BY <1>5, <2>1, <2>4 DEF Vet, Check
    <3>2. \/ found = {} \/ found \cap Reserved # {}
          \/ found \cap Shared # {} /\ check.req.intrusive # "no" /\ check.req.layer # "application"
      BY <2>4 DEF ResolvePasses, IsIntrusive, IsNetworkLayer, isSharedInfra
    <3> QED BY <2>2, <3>1, <3>2 DEF Steady, RefusalHasReason
  <2> QED BY <2>3, <2>4
<1>6. CASE VetNoHost
  <2>1. check \in Check BY <1>0, <1>6 DEF VetNoHost, Idle, TypeOK
  <2>2. check'.step = "decide" /\ check'.calm = check.calm /\ check'.rows = check.rows
        /\ world' = world /\ check.step = "vet"
    BY <1>6, <2>1 DEF VetNoHost, Check
  <2> QED BY <1>0, <2>2 DEF Steady, RefusalHasReason
<1>7. ASSUME NEW row \in check.rows, DecideBy(row) PROVE Steady' /\ RefusalHasReason'
  <2>1. check.step = "decide" BY <1>7 DEF DecideBy
  <2>2. check \in Check BY <1>0, <2>1 DEF Idle, TypeOK
  <2>3. CASE row.kind = "program" => ProgramPermits(check.req)
    <3>1. check'.step = "allowed" BY <1>7, <2>2, <2>3 DEF DecideBy, Pins, Check
    <3> QED BY <3>1 DEF Steady, RefusalHasReason
  <2>4. CASE ~(row.kind = "program" => ProgramPermits(check.req))
    <3>1. check'.step = "denied" /\ check'.req = check.req /\ check'.calm = check.calm /\ world' = world
      BY <1>7, <2>2, <2>4 DEF DecideBy, Deny, Goto, Check
    <3>2. check.calm => row \in world.auths BY <1>0, <1>7, <2>1 DEF Steady
    <3>3. ~ProgramPermits(check.req)' BY <2>4, <3>1 DEF ProgramPermits
    <3>4. row.kind = "program" BY <2>4
    <3> QED BY <3>1, <3>2, <3>3, <3>4 DEF Steady, RefusalHasReason
  <2> QED BY <2>3, <2>4
<1>8. CASE DenyByDefault
  <2>1. check.step = "decide" BY <1>8 DEF DenyByDefault
  <2>2. check \in Check BY <1>0, <2>1 DEF Idle, TypeOK
  <2>3. check'.step = "denied" /\ check'.req = check.req /\ check'.calm = check.calm
        /\ world' = world /\ ipTargets' = ipTargets
    BY <1>8, <2>2 DEF DenyByDefault, Deny, Goto, Check
  <2>4. \A row \in check.rows :
          \/ row.kind = "registrable_domain" /\ check.req.host \notin Under[row.value]
          \/ row.kind = "ip_range" /\ (ipTargets => check.req.ip \notin Within[row.value])
    <3> SUFFICES ASSUME NEW row \in check.rows
                 PROVE  \/ row.kind = "registrable_domain" /\ check.req.host \notin Under[row.value]
                        \/ row.kind = "ip_range" /\ (ipTargets => check.req.ip \notin Within[row.value])
      OBVIOUS
    <3>1. row.kind \in {"registrable_domain", "ip_range", "program"} BY <2>2 DEF Check, Scope
    <3>2. ~Applies(row, check.req) BY <1>8 DEF DenyByDefault
    <3> QED BY <3>1, <3>2 DEF Applies, isSubdomainOf
  <2>5. check.calm => check.rows = world.auths BY <1>0, <2>1 DEF Steady
  <2> QED BY <2>3, <2>4, <2>5 DEF Steady, RefusalHasReason
<1>9. CASE Leave
  BY <1>9 DEF Leave, Idle, Steady, RefusalHasReason
<1>10. CASE Change
  <2>1. CASE At("idle")
    BY <1>10, <2>1 DEF Change, Steady, RefusalHasReason
  <2>2. CASE ~At("idle")
    <3>1. check \in Check BY <1>0, <2>2 DEF Idle, TypeOK
    <3>2. check'.calm = FALSE BY <1>10, <2>2, <3>1 DEF Change, Check
    <3> QED BY <3>2 DEF Steady, RefusalHasReason
  <2> QED BY <2>1, <2>2
<1>11. CASE UNCHANGED vars
  <2>1. Steady' BY <1>0, <1>11 DEF vars, Steady
  <2>2. RefusalHasReason' BY <1>11 DEF RInv, vars, RefusalHasReason, ProgramPermits
  <2> QED BY <2>1, <2>2
<1>12. CASE ReadTargetFails
  <2>1. check \in Check BY <1>0, <1>12 DEF ReadTargetFails, Idle, TypeOK
  <2>2. check'.step = "denied" /\ check'.failed
    BY <1>12, <2>1 DEF ReadTargetFails, DenyUnread, Check
  <2> QED BY <2>2 DEF Steady, RefusalHasReason
<1>13. ASSUME NEW row \in check.rows, ProgramUnread(row) PROVE Steady' /\ RefusalHasReason'
  <2>0. check.step = "decide" BY <1>13 DEF ProgramUnread
  <2>1. check \in Check BY <1>0, <2>0 DEF Idle, TypeOK
  <2>2. check'.step = "denied" /\ check'.failed
    BY <1>13, <2>1 DEF ProgramUnread, DenyUnread, Check
  <2> QED BY <2>2 DEF Steady, RefusalHasReason
<1> QED BY <1>1, <1>2, <1>3, <1>4, <1>5, <1>6, <1>7, <1>8, <1>9, <1>10, <1>11, <1>12, <1>13 DEF Next

\* A check that is refused while nothing changes is refused for a reason, whatever the
\* names, addresses, rows and requests, and whichever row comes first.
THEOREM RefusalsHaveReasons == Spec => []RefusalHasReason
<1>1. Init => RInv
  BY VerdictInit DEF Init, VInv, RInv, Idle, Steady, RefusalHasReason, At
<1>2. RInv /\ [Next]_vars => RInv' BY TypeStep, RefusalStep DEF RInv
<1>3. RInv => RefusalHasReason BY DEF RInv
<1> QED BY <1>1, <1>2, <1>3, PTL DEF Spec
===============================================================================
