----------------------------- MODULE ScopeVerdict ------------------------------
(***************************************************************************)
(* What CheckScope of scope_service.go decides.  ScopeGate has its reads   *)
(* against the requests that write the tables, and ProgramPolicy has the   *)
(* verdict of a bug-bounty program; here is everything a check looks at:   *)
(* the request, the target, its authorizations, the addresses its host     *)
(* resolves to, and the program's answer.                                  *)
(*                                                                         *)
(* The check reads these one after the other while each may change: an     *)
(* admin revokes, a row expires, a program is synced.  The owner of a name *)
(* answers each lookup of it as it likes.                                  *)
(***************************************************************************)
EXTENDS Naturals

CONSTANTS
  Host, Addr, NoHost, NoIP,
  BadIP,      \* an ip that net.ParseIP does not take
  Reserved,   \* addresses safedial.IsDeniedIP refuses
  Shared,     \* addresses in knownSharedInfraRanges
  Domain,     \* scope values of kind registrable_domain
  Under,      \* per domain: the hosts equal to it or ending in a dot and it
  Block,      \* scope values of kind ip_range
  Within,     \* per block: its addresses
  Requests,   \* the requests that are made
  AuthSets,   \* the sets of active authorizations a target may have
  Answers,    \* the sets of addresses a lookup may answer; {} is an error
  Policies,   \* what a program may permit: sets of hosts and addresses
  MaxChanges  \* bound: changes of the world

Scope == [kind : {"registrable_domain"}, value : Domain]
    \cup [kind : {"ip_range"}, value : Block]
    \cup {[kind |-> "program", value |-> "handle"]}

ASSUME AddressAssumption ==
  /\ Reserved \subseteq Addr /\ Shared \subseteq Addr
  /\ NoHost \notin Host /\ {NoIP, BadIP} \cap Addr = {} /\ NoIP # BadIP
ASSUME ScopeAssumption ==
  /\ Under \in [Domain -> SUBSET Host] /\ Within \in [Block -> SUBSET Addr]
  /\ AuthSets \subseteq SUBSET Scope
  /\ Answers \subseteq SUBSET Addr
  /\ Policies \subseteq SUBSET (Host \cup Addr)
ASSUME ChangesAssumption == MaxChanges \in Nat

\* "auth" is one of the three recognized authenticated phases, "auth_other" any
\* other phase in their namespace.  A field that is not sent is "absent".
Request ==
  [host : Host \cup {NoHost}, ip : Addr \cup {NoIP, BadIP},
   phase : {"plain", "auth", "auth_other"}, attested : {"absent", "no", "yes"},
   intrusive : {"absent", "no", "yes"}, layer : {"absent", "network", "application"}]

ASSUME RequestsAssumption == Requests \subseteq Request

VARIABLES
  world,      \* target status, authorizations and program as they are now
  ipTargets,  \* IPTargetsEnabled: false as shipped, the tests also set it
  check,      \* the check: its next step, request and what it has read
  changes     \* changes of the world so far

vars == <<world, ipTargets, check, changes>>

World == [status : {"verified", "other", "missing"}, auths : AuthSets, policy : Policies]
Idle  == [step |-> "idle"]

\* lookups, calm and failed are history: the answers of the lookups made, that nothing
\* has changed since the check began, and that a read failed.
Check == [step : {"target", "auths", "vet", "decide", "allowed", "denied"},
          req : Requests, rows : SUBSET Scope, pins : SUBSET Addr,
          lookups : SUBSET Answers, calm : BOOLEAN, failed : BOOLEAN]

At(s)   == check.step = s
Goto(s) == check' = [check EXCEPT !.step = s]
Deny    == Goto("denied")

\* The target, or a program, that cannot be read is one that is not there.
DenyUnread == check' = [check EXCEPT !.step = "denied", !.failed = TRUE]

--------------------------------------------------------------------------------
(* What the request says, and what its host and address are *)

isSubdomainOf(host, apex) == host \in Under[apex]
isSharedInfra(ip)         == ip \in Shared

\* Mutant: an absent flag counts as not intrusive.
OnlyIfSaid(req) == req.intrusive = "yes"

\* Mutant: every layer is the network.
AnyLayer(req) == TRUE

IsIntrusive(req)    == req.intrusive # "no"
IsNetworkLayer(req) == req.layer # "application"

\* Mutant: only the recognized phases need the attestation.
UnknownPhasePasses(req, verified) ==
  req.phase # "auth" \/ (verified /\ req.attested = "yes")

\* authScanVerdict lets the request through to the rest of the gate.
AuthScanVerdict(req, verified) ==
  \/ req.phase = "plain"
  \/ req.phase = "auth" /\ verified /\ req.attested = "yes"

--------------------------------------------------------------------------------
(* The check *)

\* ScopeCheck answers 400 to a request that names neither.
Ask(req) ==
  /\ At("idle")
  /\ req.host # NoHost \/ req.ip # NoIP
  /\ check' = [step |-> "target", req |-> req, rows |-> {}, pins |-> {},
               lookups |-> {}, calm |-> TRUE, failed |-> FALSE]
  /\ UNCHANGED <<world, ipTargets, changes>>

ReadTarget ==
  /\ At("target")
  /\ IF /\ AuthScanVerdict(check.req, world.status = "verified")
        /\ world.status = "verified"
     THEN Goto("auths") ELSE Deny
  /\ UNCHANGED <<world, ipTargets, changes>>

ReadTargetFails ==
  /\ At("target")
  /\ DenyUnread
  /\ UNCHANGED <<world, ipTargets, changes>>

ReadAuths ==
  /\ At("auths")
  /\ check' = [check EXCEPT !.rows = world.auths,
                            !.step = IF world.auths = {} THEN "denied" ELSE "vet"]
  /\ UNCHANGED <<world, ipTargets, changes>>

\* Mutant: the refusal of every ip while IP targets are disabled is gone.
DirectAnywhere(req) ==
  req.ip = NoIP \/ (req.ip \in Addr \ Reserved /\ ~(IsIntrusive(req) /\ isSharedInfra(req.ip)))

\* An ip given directly must parse, be public, and not be shared when the test is
\* intrusive; while IP targets are disabled it is refused all the same.
DirectPasses(req) ==
  \/ req.ip = NoIP
  \/ /\ req.ip \in Addr \ Reserved
     /\ ~(IsIntrusive(req) /\ isSharedInfra(req.ip))
     /\ ipTargets

\* Mutant: one public answer is enough for the host.
OnePublicAnswer(req, found) ==
  /\ found \ Reserved # {}
  /\ ~(IsIntrusive(req) /\ IsNetworkLayer(req) /\ \E a \in found : isSharedInfra(a))

\* ResolveStrict and the loop after it: every answer is vetted.
ResolvePasses(req, found) ==
  /\ found # {}
  /\ found \cap Reserved = {}
  /\ ~(IsIntrusive(req) /\ IsNetworkLayer(req) /\ \E a \in found : isSharedInfra(a))

Own(req) == IF req.ip = NoIP THEN {} ELSE {req.ip}

VetDirect ==
  /\ At("vet")
  /\ ~DirectPasses(check.req)
  /\ Deny
  /\ UNCHANGED <<world, ipTargets, changes>>

\* One lookup: the addresses vetted are the ones pinned.
Vet(found) ==
  /\ At("vet")
  /\ DirectPasses(check.req)
  /\ check.req.host # NoHost
  /\ check' = IF ResolvePasses(check.req, found)
              THEN [check EXCEPT !.step = "decide", !.lookups = {found},
                                 !.pins = Own(check.req) \cup found]
              ELSE [check EXCEPT !.step = "denied", !.lookups = {found}]
  /\ UNCHANGED <<world, ipTargets, changes>>

VetNoHost ==
  /\ At("vet")
  /\ DirectPasses(check.req)
  /\ check.req.host = NoHost
  /\ check' = [check EXCEPT !.step = "decide", !.pins = Own(check.req)]
  /\ UNCHANGED <<world, ipTargets, changes>>

\* Mutant: the name is looked up again for the answer.
PinsLookedUpAgain ==
  IF check.req.host = NoHost THEN {check.pins} ELSE {Own(check.req) \cup a : a \in Answers}

\* What may be answered as AllowedIPs.
Pins == {check.pins}

\* An authorization that is linked to a program always applies; the others apply to
\* what is in their scope, and ip_range only while IP targets are enabled.
Applies(row, req) ==
  CASE row.kind = "program"            -> TRUE
    [] row.kind = "registrable_domain" -> isSubdomainOf(req.host, row.value)
    [] row.kind = "ip_range"           -> ipTargets /\ req.ip \in Within[row.value]

ProgramPermits(req) == req.host \in world.policy \/ req.ip \in world.policy

\* The rows come in no order; the first that applies decides.
DecideBy(row) ==
  /\ At("decide")
  /\ row \in check.rows
  /\ Applies(row, check.req)
  /\ IF row.kind = "program" => ProgramPermits(check.req)
     THEN \E pins \in Pins : check' = [check EXCEPT !.step = "allowed", !.pins = pins]
     ELSE Deny
  /\ UNCHANGED <<world, ipTargets, changes>>

\* resolveProgramAuth answers a failed query with no policy, whatever the program is.
ProgramUnread(row) ==
  /\ At("decide")
  /\ row \in check.rows
  /\ row.kind = "program"
  /\ DenyUnread
  /\ UNCHANGED <<world, ipTargets, changes>>

DenyByDefault ==
  /\ At("decide")
  /\ \A row \in check.rows : ~Applies(row, check.req)
  /\ Deny
  /\ UNCHANGED <<world, ipTargets, changes>>

\* The answer is used, or the query of the authorizations failed and there is none.
Leave ==
  /\ ~At("idle")
  /\ check' = Idle
  /\ UNCHANGED <<world, ipTargets, changes>>

--------------------------------------------------------------------------------
(* The world changes while the check runs. *)
Change ==
  /\ changes < MaxChanges
  /\ world' \in {w \in World : w # world}
  /\ changes' = changes + 1
  /\ check' = IF At("idle") THEN check ELSE [check EXCEPT !.calm = FALSE]
  /\ UNCHANGED ipTargets

Init ==
  /\ world \in World
  /\ ipTargets \in BOOLEAN
  /\ check = Idle
  /\ changes = 0

Next ==
  \/ \E req \in Requests : Ask(req)
  \/ ReadTarget \/ ReadTargetFails \/ ReadAuths
  \/ VetDirect \/ (\E found \in Answers : Vet(found)) \/ VetNoHost
  \/ (~At("idle") /\ \E row \in check.rows : DecideBy(row) \/ ProgramUnread(row))
  \/ DenyByDefault \/ Leave \/ Change

Spec == Init /\ [][Next]_vars

--------------------------------------------------------------------------------
(* Properties *)

\* Every variable has its type.
TypeOK ==
  /\ world \in World
  /\ ipTargets \in BOOLEAN
  /\ check \in Check \cup {Idle}
  /\ changes \in 0..MaxChanges

\* An allowed check hands the scanner no reserved address to connect to, however the
\* name answers from one lookup to the next; and a shared one only when the request
\* said that the test is not intrusive, or said that it is of the application layer
\* and named the host.  This is narrower than what src/README.md:81 promises, that
\* shared addresses are always denied for intrusive testing even if a verified host
\* resolves to them: scope_service.go:308-315 lets an application-layer test through.
PinsAreSafe ==
  At("allowed") =>
    /\ check.pins \cap Reserved = {}
    /\ check.pins \cap Shared # {} =>
         \/ check.req.intrusive = "no"
         \/ check.req.layer = "application" /\ check.req.host # NoHost
              /\ check.req.ip \notin Shared

\* Whatever changes meanwhile, an allowed check rests on an authorization it has read:
\* one of a program, or one whose scope holds the host or, where IP targets are
\* enabled, the address; an authenticated phase is a recognized one whose consent was
\* sent; and while IP targets are disabled every address handed out is an answer for
\* the host.
AllowIsEarned ==
  At("allowed") =>
    LET req == check.req IN
    /\ \E row \in check.rows :
         \/ row.kind = "program"
         \/ row.kind = "registrable_domain" /\ req.host \in Under[row.value]
         \/ row.kind = "ip_range" /\ ipTargets /\ req.ip \in Within[row.value]
    /\ req.phase = "plain" \/ (req.phase = "auth" /\ req.attested = "yes")
    /\ ~ipTargets => check.pins \subseteq UNION check.lookups

\* A check during which nothing changed is refused for a reason: the target or the
\* consent, an address, no authorization that covers what is asked, a program, or a
\* query that failed.  So a covered host behind a CDN is not refused a passive test,
\* nor, contrary to src/README.md:81, an intrusive one of the application layer
\* (scope_service.go:308); and the order in which the rows come does not matter to a
\* target that has no program.
RefusalHasReason ==
  At("denied") /\ check.calm =>
    LET req == check.req IN
    \/ check.failed \/ world.status # "verified"
    \/ req.phase = "auth_other" \/ (req.phase = "auth" /\ req.attested # "yes")
    \/ \E found \in check.lookups :
         \/ found = {} \/ found \cap Reserved # {}
         \/ found \cap Shared # {} /\ req.intrusive # "no" /\ req.layer # "application"
    \/ req.ip # NoIP /\ (\/ ~ipTargets \/ req.ip \in Reserved \cup {BadIP}
                         \/ req.ip \in Shared /\ req.intrusive # "no")
    \/ \A row \in world.auths :
         \/ row.kind = "program"
         \/ row.kind = "registrable_domain" /\ req.host \notin Under[row.value]
         \/ row.kind = "ip_range" /\ (ipTargets => req.ip \notin Within[row.value])
    \/ \E row \in world.auths : row.kind = "program" /\ ~ProgramPermits(req)
================================================================================
