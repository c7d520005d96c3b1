---------------------------- MODULE CompositionProofs ----------------------------
(***************************************************************************)
(* What runs beside the ownership state machine takes nothing from it: all *)
(* that is proved of TargetLifecycle holds under the scope gate, which     *)
(* adds readers to it, and with the audit trail, which adds what requests  *)
(* tell.  From that the kill switch is carried across the gate's two       *)
(* reads; and what the trail tells is true, and complete while nothing     *)
(* fails, for any number of targets, requests, rows and checks.            *)
(***************************************************************************)
EXTENDS ScopeGate, AuditTrail, TargetLifecycleProofs

--------------------------------------------------------------------------------
(* The scope gate *)

\* Checks neither write the tables nor hold requests up: every behaviour under the
\* gate is a behaviour of TargetLifecycle.
THEOREM GateImplementsLifecycle == GateSpec => Spec
<1>1. GateInit => Init
  BY DEF GateInit
<1>2. [GateNext]_gvars => [Next]_vars
  <2>1. ASSUME NEW g \in Gate, CheckStep(g) PROVE UNCHANGED vars
    BY <2>1 DEF CheckStep, ReadTarget, ReadAuths, Verified, Allowed, Leave
  <2> QED BY <2>1 DEF GateNext, Lifecycle, gvars
<1> QED BY <1>1, <1>2, PTL DEF GateSpec, Spec

--------------------------------------------------------------------------------
(* The inductive invariant of the gate *)

GateRec == [step : {"idle", "auths", "decide", "verified", "allowed"},
            target : Tid \cup {NoTarget}, rows : SUBSET Row, by : Row,
            shut : BOOLEAN]

\* A check that is under way has a target that was inserted; one that found the kill in force still
\* finds it so until it reads the rows, and afterwards holds no row it forbids.
CheckOK(k) ==
  /\ k.step # "idle" => k.target \in Tid /\ source[k.target] # "none"
  /\ k.step = "auths" /\ k.shut => killed[k.target]
  /\ k.step \in {"decide", "verified", "allowed"} /\ k.shut =>
       /\ source[k.target] = "customer"
       /\ \A row \in k.rows : row.state = "proved"

GInv ==
  /\ gate \in [Gate -> GateRec]
  /\ \A g \in Gate : CheckOK(gate[g])

LEMMA IdleCheck == GateIdle \in GateRec /\ CheckOK(GateIdle)
<1>1. NoAuth \in Row
  BY DEF NoAuth, Row, AuthState, Unused
<1> QED BY <1>1 DEF GateIdle, GateRec, CheckOK

LEMMA KillSwitchOK == IInv => KillSwitchHolds
BY DEF IInv, DataInv

\* A check's own step, which leaves every other check and the tables alone.
LEMMA OneCheck ==
  ASSUME GInv, NEW g \in Gate, NEW k \in GateRec, CheckOK(k),
         gate' = [gate EXCEPT ![g] = k], UNCHANGED vars
  PROVE  GInv'
<1>1. gate' \in [Gate -> GateRec]
  BY DEF GInv
<1>2. ASSUME NEW h \in Gate PROVE CheckOK(gate[h])'
  <2>1. gate'[h] = IF h = g THEN k ELSE gate[h]
    BY DEF GInv
  <2>2. CheckOK(gate'[h])
    BY <2>1 DEF GInv
  <2> QED BY <2>2 DEF CheckOK, vars
<1> QED BY <1>1, <1>2 DEF GInv

LEMMA GateSteps ==
  ASSUME IInv, GInv, NEW g \in Gate, CheckStep(g)
  PROVE  GInv'
<1>0. gate[g] \in GateRec /\ CheckOK(gate[g]) /\ TypeOK
  BY DEF GInv, IInv
<1>1. ASSUME NEW t \in Tid, ReadTarget(g, t) PROVE GInv'
  <2> DEFINE k == [GateIdle EXCEPT !.step = "auths", !.target = t, !.shut = killed[t]]
  <2>1. killed[t] \in BOOLEAN
    BY <1>0 DEF TypeOK, TablesOK
  <2>2. /\ k.step = "auths" /\ k.target = t /\ k.shut = killed[t]
        /\ k \in GateRec
    BY <2>1, IdleCheck DEF GateRec, GateIdle
  <2>0. source[t] # "none"
    BY <1>0, <1>1 DEF ReadTarget, IInv, DataInv, SourceOK
  <2>3. CheckOK(k)
    BY <2>0, <2>2 DEF CheckOK
  <2> HIDE DEF k
  <2>4. gate' = [gate EXCEPT ![g] = k] /\ UNCHANGED vars
    BY <1>1 DEF ReadTarget, k
  <2> QED BY <2>2, <2>3, <2>4, OneCheck
<1>2. ASSUME ReadAuths(g) PROVE GInv'
  <2> DEFINE t == gate[g].target
             rows == ActiveRows(t)
             k == [gate[g] EXCEPT !.step = "decide", !.rows = rows]
  <2>1. t \in Tid /\ source[t] # "none"
    BY <1>0, <1>2 DEF ReadAuths, CheckOK
  <2>2. rows \in SUBSET Row
    BY <1>0 DEF ActiveRows, RowsOf, TypeOK, TablesOK
  <2>3. /\ k.step = "decide" /\ k.target = t /\ k.shut = gate[g].shut /\ k.rows = rows
        /\ k \in GateRec
    BY <1>0, <2>2 DEF GateRec
  <2>4. ASSUME gate[g].shut
        PROVE  source[t] = "customer" \/ rows = {}
    <3>1. killed[t] /\ KillSwitchHolds
      BY <1>0, <1>2, <2>4, KillSwitchOK DEF ReadAuths, CheckOK
    <3> QED BY <2>1, <3>1 DEF KillSwitchHolds, ActiveRows
  <2>5. ASSUME gate[g].shut, NEW row \in rows PROVE row.state = "proved"
    <3>1. killed[t] /\ KillSwitchHolds
      BY <1>0, <1>2, <2>5, KillSwitchOK DEF ReadAuths, CheckOK
    <3> QED BY <2>1, <3>1 DEF KillSwitchHolds, ActiveRows
  <2>6. rows # {} => CheckOK(k)
    BY <2>1, <2>3, <2>4, <2>5 DEF CheckOK
  <2>7. UNCHANGED vars
    BY <1>2 DEF ReadAuths
  <2>8. CASE rows = {}
    <3>1. gate' = [gate EXCEPT ![g] = GateIdle]
      BY <1>2, <2>8 DEF ReadAuths
    <3> QED BY <2>7, <3>1, IdleCheck, OneCheck
  <2>9. CASE rows # {}
    <3>1. gate' = [gate EXCEPT ![g] = k]
      BY <1>2, <2>9 DEF ReadAuths
    <3> HIDE DEF k
    <3> QED BY <2>3, <2>6, <2>7, <2>9, <3>1, OneCheck
  <2> QED BY <2>8, <2>9
<1>3. ASSUME Verified(g) PROVE GInv'
  <2> DEFINE k == [gate[g] EXCEPT !.step = "verified"]
  <2>1. k \in GateRec /\ CheckOK(k)
    BY <1>0, <1>3 DEF GateRec, CheckOK, Verified
  <2>2. gate' = [gate EXCEPT ![g] = k] /\ UNCHANGED vars
    BY <1>3 DEF Verified
  <2> HIDE DEF k
  <2> QED BY <2>1, <2>2, OneCheck
<1>4. ASSUME NEW row \in gate[g].rows, Allowed(g, row) PROVE GInv'
  <2> DEFINE k == [gate[g] EXCEPT !.step = "allowed", !.by = row]
  <2>1. row \in Row
    BY <1>0 DEF GateRec
  <2>2. k \in GateRec /\ CheckOK(k)
    BY <1>0, <1>4, <2>1 DEF GateRec, CheckOK, Allowed
  <2>3. gate' = [gate EXCEPT ![g] = k] /\ UNCHANGED vars
    BY <1>4 DEF Allowed
  <2> HIDE DEF k
  <2> QED BY <2>2, <2>3, OneCheck
<1>5. ASSUME Leave(g) PROVE GInv'
  BY <1>5, IdleCheck, OneCheck DEF Leave
<1> QED BY <1>1, <1>2, <1>3, <1>4, <1>5 DEF CheckStep

\* A target's source is given with its insert and never updated.
LEMMA SourceKept ==
  ASSUME TypeOK, SourceOK, Next, NEW t \in Tid, source[t] # "none"
  PROVE  source'[t] = source[t]
<1>1. ASSUME NEW r \in Req, NEW u \in Tid, Arrive(r, u) PROVE source'[t] = source[t]
  <2>1. CASE CreateTarget(r, u)
    BY <2>1 DEF CreateTarget, SourceOK, TypeOK, TablesOK
  <2>2. CASE CreateProgramTarget(r, u)
    BY <2>2 DEF CreateProgramTarget, SourceOK, TypeOK, TablesOK
  <2> QED BY <1>1, <2>1, <2>2
          DEF Arrive, GetTarget, TriggerVerification, AuthorizeManually, Revoke
<1>2. ASSUME NEW r \in Req, Continue(r) PROVE source' = source
  BY <1>2 DEF Continue, IssueDefault, InsertRefused, GetLatestNone, GetLatestFound,
       VerifyRefused, VerifyNone, VerifyFound, VerifyIssue, VerifySwitch, VerifyBegin,
       VerifyPass, VerifyFail, VerifyDemote, VerifyMark, VerifyFinish, VerifyRefetch,
       ProgramAttest, ProgramNotAttested, ProgramUndo, AuthorizePending, AuthorizeOther,
       AuthorizeMark, AuthorizeInsert, AuthorizeFinish, RevokeExpire, RevokeFinish
<1>3. ASSUME NEW r \in Req, Abort(r) PROVE source' = source
  BY <1>3 DEF Abort
<1>4. ASSUME NEW u \in Tid, DeleteTarget(u) PROVE source' = source
  BY <1>4 DEF DeleteTarget
<1>5. ASSUME NEW i \in AuthId, Lapse(i) PROVE source' = source
  BY <1>5 DEF Lapse
<1> QED BY <1>1, <1>2, <1>3, <1>4, <1>5 DEF Next

\* A request's statement, seen by the checks under way.
LEMMA LifecycleStep ==
  ASSUME IInv, IInv', GInv, Lifecycle
  PROVE  GInv'
<1>1. /\ Next /\ gate' = [g \in Gate |-> Watch(gate[g])]
  BY DEF Lifecycle
<1>2. ASSUME NEW g \in Gate PROVE gate'[g] \in GateRec /\ CheckOK(gate[g])'
  <2> DEFINE k == gate[g]
  <2>1. k \in GateRec /\ CheckOK(k) /\ gate'[g] = Watch(k)
    BY <1>1 DEF GInv
  <2>2. k.step # "idle" => k.target \in Tid /\ source'[k.target] = source[k.target]
    <3>1. TypeOK /\ SourceOK
      BY DEF IInv, DataInv
    <3> QED BY <1>1, <2>1, <3>1, SourceKept DEF CheckOK
  <2>3. CASE k.step # "auths"
    <3>1. gate'[g] = k
      BY <2>1, <2>3 DEF Watch
    <3> QED BY <2>1, <2>2, <2>3, <3>1 DEF CheckOK
  <2>4. CASE k.step = "auths"
    <3> DEFINE w == Watch(k)
    <3>1. k.target \in Tid /\ k.shut \in BOOLEAN
      BY <2>1, <2>4 DEF CheckOK, GateRec
    <3>2. killed'[k.target] \in BOOLEAN
      BY <3>1 DEF IInv, TypeOK, TablesOK
    <3>3. /\ w = [k EXCEPT !.shut = k.shut /\ killed'[k.target]]
          /\ (k.shut /\ killed'[k.target]) \in BOOLEAN
      BY <2>4, <3>1, <3>2 DEF Watch
    <3>4. /\ w \in GateRec
          /\ w.step = "auths" /\ w.target = k.target
          /\ w.shut = (k.shut /\ killed'[k.target])
      BY <2>1, <2>4, <3>3 DEF GateRec
    <3> HIDE DEF w
    <3>5. CheckOK(gate[g])'
      BY <2>1, <2>2, <2>4, <3>1, <3>4 DEF CheckOK, w
    <3> QED BY <2>1, <3>4, <3>5 DEF w
  <2> QED BY <2>3, <2>4
<1>3. gate' \in [Gate -> GateRec]
  BY <1>1, <1>2
<1> QED BY <1>1, <1>2, <1>3 DEF GInv

--------------------------------------------------------------------------------
(* What holds of the gate *)

LEMMA GateInductive == IInv /\ IInv' /\ GInv /\ [GateNext]_gvars => GInv'
<1> SUFFICES ASSUME IInv, IInv', GInv, [GateNext]_gvars PROVE GInv'
  OBVIOUS
<1>1. CASE Lifecycle
  BY <1>1, LifecycleStep
<1>2. CASE \E g \in Gate : CheckStep(g)
  BY <1>2, GateSteps
<1>3. CASE UNCHANGED gvars
  BY <1>3 DEF gvars, vars, GInv, CheckOK
<1> QED BY <1>1, <1>2, <1>3 DEF GateNext

\* The inductive invariant of the gate, on top of that of the tables.
THEOREM GateInvariant == GateSpec => [](IInv /\ GInv)
<1>1. GateInit => GInv
  BY IdleCheck DEF GateInit, GInv
<1>2. GateSpec => []IInv
  BY GateImplementsLifecycle, SpecInv, PTL
<1> QED BY <1>1, <1>2, GateInductive, PTL DEF GateSpec

\* GateTypeOK: the types of the tables and of every check, whatever overlaps.
THEOREM GateTypeCorrect == GateSpec => []GateTypeOK
<1>1. IInv /\ GInv => GateTypeOK
  BY DEF IInv, GInv, GateTypeOK, GateRec
<1> QED BY <1>1, GateInvariant, PTL

\* GateHonoursKill: a check that found the kill switch pulled, and saw no admin's
\* grant before it read the authorizations, never says yes to a program target or
\* on an admin's attestation, for any number of checks and requests.
THEOREM KillSwitchAtGate == GateSpec => []GateHonoursKill
<1>1. GInv => GateHonoursKill
  BY DEF GInv, CheckOK, GateHonoursKill, Answered
<1> QED BY <1>1, GateInvariant, PTL

--------------------------------------------------------------------------------
(* The audit trail *)

LEMMA HandleContinues == ASSUME NEW r \in Req, Handle(r) PROVE Continue(r)
BY DEF Handle, Emitting, Unreported, Continue, EmitTargetVerified, EmitVerificationFailed,
       EmitAdminTargetCreated, EmitAdminTargetAuthorized, EmitAdminTargetRevoked

LEMMA AuditStep == [AuditNext]_allVars => [Next]_vars
<1> SUFFICES ASSUME [AuditNext]_allVars PROVE [Next]_vars
  OBVIOUS
<1>1. CASE Background
  BY <1>1 DEF Background, Next
<1>2. ASSUME NEW r \in Req, Answering(r) PROVE [Next]_vars
  <2>1. CASE Handle(r)
    BY <2>1, HandleContinues DEF Next
  <2>2. CASE EmitAdminTargetDeleted(r)
    BY <2>2 DEF EmitAdminTargetDeleted, Next
  <2>3. CASE Publish(r)
    BY <2>3 DEF Publish
  <2> QED BY <1>2, <2>1, <2>2, <2>3 DEF Answering
<1>3. ASSUME NEW r \in Req, (\E t \in Tid : DeleteAny(r, t)) \/ DeleteFails(r) \/ Lose(r)
      PROVE  UNCHANGED vars
  BY <1>3 DEF DeleteAny, DeleteFails, Lose
<1>4. CASE UNCHANGED allVars
  BY <1>4 DEF allVars
<1> QED BY <1>1, <1>2, <1>3, <1>4 DEF AuditNext

\* Emitting writes no table and holds up only the request that emits: every behaviour
\* with the audit trail is one of TargetLifecycle.
THEOREM AuditImplementsLifecycle == AuditSpec => Spec
<1>1. AuditInit => Init
  BY DEF AuditInit
<1> QED BY <1>1, AuditStep, PTL DEF AuditSpec, Spec

--------------------------------------------------------------------------------
(* What a step of the ownership state machine may do to status and evidence *)

StatusMove ==
  \/ UNCHANGED status
  \/ \E t \in Tid, s \in {"unverified", "verifying", "verified", "revoked"} : UpdateStatus(t, s)
  \/ \E t \in Tid, s \in {"unverified", "verified"} :
       status[t] = "absent" /\ status' = [status EXCEPT ![t] = s]
  \/ \E t \in Tid : DropTarget(t)

AuthsMove ==
  \/ UNCHANGED auths
  \/ \E i \in AuthId, t \in Tid, m \in CustomerMethod \cup AdminMethod,
        s \in {"pending", "attested"} : InsertAuth(i, t, m, s)
  \/ \E i \in AuthId, s \in Active : MarkVerified(i, s)
  \/ \E t \in Tid : ExpireActive(t)
  \/ \E t \in Tid : DropTarget(t)
  \/ \E i \in AuthId : Lapse(i)

\* The statements of a request that holds its target and its row.
LEMMA ContinueMoves ==
  ASSUME IInv, NEW r \in Req, Continue(r)
  PROVE  StatusMove /\ AuthsMove
<1>0. call[r] \in Call /\ Fine(call[r])
  BY DEF IInv, TypeOK
<1>1. CASE \/ InsertRefused(r) \/ GetLatestNone(r) \/ GetLatestFound(r)
           \/ VerifyRefused(r) \/ VerifyNone(r) \/ (\E i \in AuthId : VerifyFound(r, i))
           \/ VerifyPass(r) \/ VerifyFail(r) \/ VerifyRefetch(r) \/ ProgramNotAttested(r)
           \/ (\E i \in AuthId : AuthorizePending(r, i)) \/ AuthorizeOther(r)
  BY <1>1 DEF InsertRefused, GetLatestNone, GetLatestFound, VerifyRefused, VerifyNone,
       VerifyFound, VerifyPass, VerifyFail, VerifyRefetch, ProgramNotAttested,
       AuthorizePending, AuthorizeOther, StatusMove, AuthsMove
<1>2. call[r].step # "idle" => call[r].target \in Tid
  BY <1>0 DEF Fine
<1>3. CASE IssueDefault(r)
  <2>1. call[r].target \in Tid BY <1>2, <1>3 DEF IssueDefault, At
  <2>2. DefaultMethod \in CustomerMethod BY MethodAssumption DEF CustomerMethod
  <2> QED BY <1>3, <2>1, <2>2 DEF IssueDefault, StatusMove, AuthsMove
<1>4. CASE VerifyIssue(r)
  <2>1. call[r].target \in Tid BY <1>2, <1>4 DEF VerifyIssue, At
  <2> QED BY <1>4, <2>1 DEF VerifyIssue, VerifyInsert, StatusMove, AuthsMove
<1>5. CASE VerifySwitch(r)
  <2>1. call[r].target \in Tid BY <1>2, <1>5 DEF VerifySwitch, At
  <2>2. ChallengeMethod \subseteq CustomerMethod BY DEF CustomerMethod
  <2> QED BY <1>5, <2>1, <2>2 DEF VerifySwitch, VerifyInsert, StatusMove, AuthsMove
<1>6. CASE VerifyBegin(r) \/ VerifyDemote(r) \/ VerifyFinish(r) \/ AuthorizeFinish(r) \/ RevokeFinish(r)
  <2>1. call[r].target \in Tid
    BY <1>2, <1>6 DEF VerifyBegin, VerifyDemote, VerifyFinish, AuthorizeFinish, RevokeFinish, At
  <2>2. UNCHANGED auths
    BY <1>6 DEF VerifyBegin, VerifyDemote, VerifyFinish, AuthorizeFinish, RevokeFinish
  <2>3. \E s \in {"unverified", "verifying", "verified", "revoked"} : UpdateStatus(call[r].target, s)
    BY <1>6 DEF VerifyBegin, VerifyDemote, VerifyFinish, AuthorizeFinish, RevokeFinish, Demote
  <2> QED BY <2>1, <2>2, <2>3 DEF StatusMove, AuthsMove
<1>7. CASE VerifyMark(r) \/ AuthorizeMark(r)
  <2>1. call[r].row \in AuthId
    BY <1>0, <1>7 DEF VerifyMark, AuthorizeMark, At, Fine, RowStep, VerifyStep
  <2> QED BY <1>7, <2>1 DEF VerifyMark, AuthorizeMark, StatusMove, AuthsMove, Active
<1>8. CASE ProgramAttest(r) \/ AuthorizeInsert(r)
  <2>1. call[r].target \in Tid BY <1>2, <1>8 DEF ProgramAttest, AuthorizeInsert, At
  <2> QED BY <1>8, <2>1 DEF ProgramAttest, AuthorizeInsert, StatusMove, AuthsMove, AdminMethod
<1>9. CASE ProgramUndo(r)
  <2>1. call[r].target \in Tid BY <1>2, <1>9 DEF ProgramUndo, At
  <2> QED BY <1>9, <2>1 DEF ProgramUndo, StatusMove, AuthsMove
<1>10. CASE RevokeExpire(r)
  <2>1. call[r].target \in Tid BY <1>2, <1>10 DEF RevokeExpire, At
  <2> QED BY <1>10, <2>1 DEF RevokeExpire, StatusMove, AuthsMove
<1> QED BY <1>1, <1>3, <1>4, <1>5, <1>6, <1>7, <1>8, <1>9, <1>10 DEF Continue

LEMMA NextMoves == ASSUME IInv, [Next]_vars PROVE StatusMove /\ AuthsMove
<1>1. ASSUME NEW r \in Req, NEW t \in Tid, Arrive(r, t) PROVE StatusMove /\ AuthsMove
  BY <1>1 DEF Arrive, CreateTarget, GetTarget, TriggerVerification, CreateProgramTarget,
       AuthorizeManually, Revoke, StatusMove, AuthsMove
<1>2. ASSUME NEW r \in Req, Abort(r) PROVE StatusMove /\ AuthsMove
  BY <1>2 DEF Abort, StatusMove, AuthsMove
<1>3. ASSUME NEW t \in Tid, DeleteTarget(t) PROVE StatusMove /\ AuthsMove
  BY <1>3 DEF DeleteTarget, StatusMove, AuthsMove
<1>4. ASSUME NEW i \in AuthId, Lapse(i) PROVE StatusMove /\ AuthsMove
  BY <1>4 DEF Lapse, StatusMove, AuthsMove
<1>5. CASE UNCHANGED vars
  BY <1>5 DEF vars, StatusMove, AuthsMove
<1> QED BY <1>1, <1>2, <1>3, <1>4, <1>5, ContinueMoves DEF Next

\* What a published event says of its target is not taken back: a deleted target stays
\* deleted, and evidence goes only with the target.
Lasting ==
  \A t \in Tid :
    /\ status[t] # "absent" => status'[t] # "absent"
    /\ status[t] = "deleted" => status'[t] = "deleted"
    /\ HasEvidence(t) => HasEvidence(t)' \/ status'[t] = "deleted"

LEMMA MovesLast == ASSUME IInv, StatusMove, AuthsMove PROVE Lasting
<1> SUFFICES ASSUME NEW t \in Tid
             PROVE  /\ status[t] # "absent" => status'[t] # "absent"
                    /\ status[t] = "deleted" => status'[t] = "deleted"
                    /\ HasEvidence(t) => HasEvidence(t)' \/ status'[t] = "deleted"
  BY DEF Lasting
<1>0. /\ status \in [Tid -> Status] /\ auths \in [AuthId -> Row]
  BY DEF IInv, TypeOK, TablesOK
<1>1. (status[t] # "absent" => status'[t] # "absent")
      /\ (status[t] = "deleted" => status'[t] = "deleted")
  BY <1>0 DEF StatusMove, UpdateStatus, DropTarget, Exists
<1>2. ASSUME HasEvidence(t) PROVE HasEvidence(t)' \/ status'[t] = "deleted"
  <2>1. PICK j \in AuthId : auths[j].target = t /\ auths[j].state \in Live /\ auths[j].state # "pending"
    BY <1>2 DEF HasEvidence, RowsOf
  <2>2. (auths'[j].target = t /\ auths'[j].state \in Live /\ auths'[j].state # "pending")
        \/ status'[t] = "deleted"
    <3>1. CASE UNCHANGED auths
      BY <2>1, <3>1
    <3>2. ASSUME NEW i \in AuthId, NEW u \in Tid, NEW m \in CustomerMethod \cup AdminMethod,
                 NEW s \in {"pending", "attested"}, InsertAuth(i, u, m, s)
          PROVE  auths'[j] = auths[j]
      BY <1>0, <2>1, <3>2 DEF InsertAuth, NextId, Live, Active, Unused
    <3>3. ASSUME NEW i \in AuthId, NEW s \in Active, MarkVerified(i, s)
          PROVE  auths'[j].target = t /\ auths'[j].state \in Live /\ auths'[j].state # "pending"
      BY <1>0, <2>1, <3>3 DEF MarkVerified, Live, Active, Row
    <3>4. ASSUME NEW u \in Tid, ExpireActive(u)
          PROVE  auths'[j].target = t /\ auths'[j].state \in Live /\ auths'[j].state # "pending"
      BY <1>0, <2>1, <3>4 DEF ExpireActive, Live, Active, Row
    <3>5. ASSUME NEW u \in Tid, DropTarget(u)
          PROVE  auths'[j] = auths[j] \/ status'[t] = "deleted"
      <4>1. CASE u = t
        BY <1>0, <3>5, <4>1 DEF DropTarget
      <4>2. CASE u # t
        BY <1>0, <2>1, <3>5, <4>2 DEF DropTarget, RowsOf
      <4> QED BY <4>1, <4>2
    <3>6. ASSUME NEW i \in AuthId, Lapse(i)
          PROVE  auths'[j].target = t /\ auths'[j].state \in Live /\ auths'[j].state # "pending"
      BY <1>0, <2>1, <3>6 DEF Lapse, Live, Active, Row
    <3> QED BY <2>1, <3>1, <3>2, <3>3, <3>4, <3>5, <3>6 DEF AuthsMove
  <2> QED BY <2>2 DEF HasEvidence, RowsOf
<1> QED BY <1>1, <1>2

--------------------------------------------------------------------------------
(* The trail tells no lies *)

Shown(t) == status[t] = "deleted" \/ HasEvidence(t)

\* What is being sent is true already.
SendingOK(e) ==
  /\ e.type = "granted" => Shown(e.target)
  /\ e.type = "deleted" => status[e.target] = "deleted"
  /\ e.type = "delete"  => status[e.target] # "absent"

TInv == AuditTypeOK /\ EventsAreTrue /\ \A r \in Req : SendingOK(sending[r])

\* Events that are there stay true.
LEMMA EventsLast ==
  ASSUME TInv, Lasting
  PROVE  /\ \A e \in trail : (e.type = "granted" => Shown(e.target))'
                           /\ (e.type = "deleted" => status[e.target] = "deleted")'
         /\ \A r \in Req, e \in Event \cup Deletes \cup {Nothing} :
              e = sending[r] => SendingOK(e)'
<1>1. \A t \in Tid : Shown(t) => Shown(t)'
  BY DEF Lasting, Shown
<1>2. \A e \in trail : e.target \in Tid
  BY DEF TInv, AuditTypeOK, Event
<1>3. \A e \in trail : (e.type = "granted" => Shown(e.target))'
                     /\ (e.type = "deleted" => status[e.target] = "deleted")'
  BY <1>1, <1>2 DEF TInv, EventsAreTrue, Shown, Lasting
<1>4. ASSUME NEW r \in Req, NEW e \in Event \cup Deletes \cup {Nothing}, e = sending[r]
      PROVE  SendingOK(e)'
  <2>1. e.type \in {"granted", "deleted", "delete"} => e.target \in Tid
    BY DEF Event, Deletes, Nothing
  <2>2. SendingOK(e)
    BY <1>4 DEF TInv
  <2> QED BY <1>1, <2>1, <2>2 DEF SendingOK, Lasting
<1> QED BY <1>3, <1>4

\* A slot starts, changes or ends what it sends, and the rest stays.
LEMMA SlotSends ==
  ASSUME TInv, Lasting, NEW r \in Req, NEW e \in Event \cup Deletes \cup {Nothing},
         SendingOK(e)', sending' = [sending EXCEPT ![r] = e],
         trail' = trail, lost' \in 0..MaxLost
  PROVE  TInv'
<1>1. \A q \in Req : sending'[q] = IF q = r THEN e ELSE sending[q]
  BY DEF TInv, AuditTypeOK
<1>2. AuditTypeOK'
  BY DEF TInv, AuditTypeOK
<1>3. EventsAreTrue'
  BY EventsLast DEF EventsAreTrue, Shown
<1>4. ASSUME NEW q \in Req PROVE SendingOK(sending[q])'
  <2>1. PICK d \in Event \cup Deletes \cup {Nothing} : d = sending[q]
    BY DEF TInv, AuditTypeOK
  <2>2. SendingOK(d)'
    BY <2>1, EventsLast
  <2> QED BY <1>1, <2>1, <2>2 DEF SendingOK, Shown, HasEvidence, RowsOf
<1> QED BY <1>2, <1>3, <1>4 DEF TInv

LEMMA NothingOK == Nothing \in Event \cup Deletes \cup {Nothing} /\ SendingOK(Nothing)'
BY DEF Nothing, SendingOK

LEMMA EmittingOK ==
  ASSUME IInv, TInv, Lasting, NEW r \in Req, Emitting(r), UNCHANGED <<trail, lost>>
  PROVE  TInv'
<1>0. call[r] \in Call /\ Fine(call[r]) /\ lost' \in 0..MaxLost
  BY DEF IInv, TypeOK, TInv, AuditTypeOK
<1>1. PICK t \in Tid : t = call[r].target /\ status[t] # "absent" /\ status[t] \in Status
  <2>1. call[r].step # "idle"
    BY DEF Emitting, EmitTargetVerified, EmitVerificationFailed, EmitAdminTargetCreated,
           EmitAdminTargetAuthorized, EmitAdminTargetRevoked, VerifyFinish, VerifyDemote,
           ProgramAttest, AuthorizeFinish, RevokeFinish, At
  <2>2. call[r].target \in Tid /\ source[call[r].target] # "none"
    BY <1>0, <2>1 DEF Fine
  <2> QED BY <2>2 DEF IInv, DataInv, SourceOK, TablesOK
<1>2. ASSUME NEW k \in EventType, Emit(r, k), k = "granted" => Shown(t)', k # "deleted"
      PROVE  TInv'
  <2> DEFINE e == [type |-> k, target |-> t]
  <2>1. e \in Event \cup Deletes \cup {Nothing}
    BY DEF Event
  <2>2. SendingOK(e)'
    BY <1>2 DEF SendingOK, EventType, Shown, HasEvidence, RowsOf
  <2>3. sending' = [sending EXCEPT ![r] = e]
    BY <1>1, <1>2 DEF Emit
  <2> HIDE DEF e
  <2> QED BY <1>0, <2>1, <2>2, <2>3, SlotSends
<1>3. CASE EmitTargetVerified(r) \/ EmitAdminTargetAuthorized(r)
  <2>1. call[r].step \in {"verify_finish", "authorize_finish"}
    BY <1>3 DEF EmitTargetVerified, EmitAdminTargetAuthorized, VerifyFinish, AuthorizeFinish, At
  <2>2. Shown(t)
    BY <1>0, <1>1, <2>1 DEF Fine, Shown, Exists
  <2>3. Shown(t)'
    BY <1>1, <2>2 DEF Lasting, Shown
  <2> QED BY <1>2, <1>3, <2>3 DEF EmitTargetVerified, EmitAdminTargetAuthorized, EventType
<1>4. CASE EmitAdminTargetCreated(r)
  <2>1. PICK i \in AuthId : InsertAuth(i, t, "program", "attested")
    BY <1>1, <1>4 DEF EmitAdminTargetCreated, ProgramAttest
  <2>2. auths'[i] = [target |-> t, method |-> "program", state |-> "attested"]
    BY <2>1 DEF InsertAuth, IInv, TypeOK, TablesOK
  <2>3. HasEvidence(t)'
    BY <2>2 DEF HasEvidence, RowsOf, Live, Active
  <2>4. Shown(t)'
    BY <2>3 DEF Shown
  <2> QED BY <1>2, <1>4, <2>4 DEF EmitAdminTargetCreated, EventType
<1>5. CASE EmitVerificationFailed(r) \/ EmitAdminTargetRevoked(r)
  BY <1>2, <1>5 DEF EmitVerificationFailed, EmitAdminTargetRevoked, EventType
<1> QED BY <1>3, <1>4, <1>5 DEF Emitting

LEMMA TrueStep == ASSUME IInv, TInv, Lasting, [AuditNext]_allVars PROVE TInv'
<1>0. lost \in 0..MaxLost /\ MaxLost \in Nat
  BY LostAssumption DEF TInv, AuditTypeOK
<1>1. ASSUME UNCHANGED auditVars PROVE TInv'
  <2>1. ASSUME NEW q \in Req PROVE SendingOK(sending[q])'
    <3>1. PICK d \in Event \cup Deletes \cup {Nothing} : d = sending[q]
      BY DEF TInv, AuditTypeOK
    <3>2. SendingOK(d)'
      BY <3>1, EventsLast
    <3> QED BY <1>1, <3>1, <3>2 DEF auditVars
  <2>2. AuditTypeOK' /\ EventsAreTrue'
    BY <1>1, EventsLast DEF auditVars, TInv, AuditTypeOK, EventsAreTrue, Shown
  <2> QED BY <2>1, <2>2 DEF TInv
<1>2. ASSUME NEW r \in Req, Handle(r) PROVE TInv'
  <2>1. CASE Emitting(r)
    BY <1>2, <2>1, EmittingOK DEF Handle
  <2>2. CASE Unreported(r)
    BY <1>1, <1>2, <2>2 DEF Handle, Unreported, auditVars
  <2> QED BY <1>2, <2>1, <2>2 DEF Handle
<1>3. ASSUME NEW r \in Req, EmitAdminTargetDeleted(r) PROVE TInv'
  <2>1. PICK t \in Tid :
          /\ sending[r] = [type |-> "delete", target |-> t]
          /\ DeleteTarget(t) \/ (~Exists(t) /\ UNCHANGED vars)
          /\ sending' = [sending EXCEPT ![r] = [type |-> "deleted", target |-> t]]
          /\ UNCHANGED <<trail, lost>>
    BY <1>3 DEF EmitAdminTargetDeleted
  <2>2. status[t] # "absent" /\ status \in [Tid -> Status]
    BY <2>1 DEF TInv, SendingOK, IInv, TypeOK, TablesOK
  <2>3. status'[t] = "deleted"
    BY <2>1, <2>2 DEF DeleteTarget, DropTarget, Exists, vars, Status
  <2> DEFINE e == [type |-> "deleted", target |-> t]
  <2>4. e \in Event \cup Deletes \cup {Nothing}
    BY DEF Event, EventType
  <2>5. SendingOK(e)'
    BY <2>3 DEF SendingOK
  <2> QED BY <1>0, <2>1, <2>4, <2>5, SlotSends
<1>4. ASSUME NEW r \in Req, Publish(r) PROVE TInv'
  <2>1. UNCHANGED vars /\ sending[r] \in Event /\ lost' = lost
    BY <1>4 DEF Publish
  <2>2. \A q \in Req : sending'[q] \in {sending[q], Nothing}
    BY <1>4 DEF Publish, TInv, AuditTypeOK
  <2>3. \A e \in trail' : e \in trail \/ e = sending[r]
    BY <1>4 DEF Publish
  <2>4. AuditTypeOK'
    BY <1>4, <2>1 DEF Publish, TInv, AuditTypeOK
  <2>5. EventsAreTrue'
    BY <2>1, <2>3 DEF TInv, EventsAreTrue, SendingOK, Shown, HasEvidence, RowsOf, vars
  <2>6. ASSUME NEW q \in Req PROVE SendingOK(sending[q])'
    BY <2>1, <2>2 DEF TInv, SendingOK, Shown, HasEvidence, RowsOf, vars, Nothing
  <2> QED BY <2>4, <2>5, <2>6 DEF TInv
<1>5. ASSUME NEW r \in Req, NEW t \in Tid, DeleteAny(r, t) PROVE TInv'
  <2> DEFINE e == [type |-> "delete", target |-> t]
  <2>1. e \in Event \cup Deletes \cup {Nothing}
    BY DEF Deletes
  <2>2. SendingOK(e)'
    BY <1>5 DEF DeleteAny, SendingOK, Exists, vars
  <2> QED BY <1>0, <1>5, <2>1, <2>2, SlotSends DEF DeleteAny
<1>6. ASSUME NEW r \in Req, DeleteFails(r) \/ Lose(r) PROVE TInv'
  <2>1. lost' \in 0..MaxLost /\ sending' = [sending EXCEPT ![r] = Nothing] /\ trail' = trail
    BY <1>0, <1>6 DEF DeleteFails, Lose
  <2> QED BY <2>1, NothingOK, SlotSends
<1> QED BY <1>1, <1>2, <1>3, <1>4, <1>5, <1>6 DEF AuditNext, Answering, Background, allVars, auditVars

LEMMA TrueInit == AuditInit => TInv
BY LostAssumption DEF AuditInit, TInv, AuditTypeOK, EventsAreTrue, SendingOK, Nothing

LEMMA AuditInvariant == AuditSpec => [](IInv /\ TInv)
<1>1. IInv /\ TInv /\ [AuditNext]_allVars => TInv'
  BY AuditStep, NextMoves, MovesLast, TrueStep
<1> QED BY <1>1, TrueInit, AuditImplementsLifecycle, SpecInv, PTL DEF AuditSpec

\* The producer's state keeps its types.
THEOREM AuditTypeCorrect == AuditSpec => []AuditTypeOK
<1>1. TInv => AuditTypeOK
  BY DEF TInv
<1> QED BY <1>1, AuditInvariant, PTL

\* A published event stays true of its target, whatever is written before or after it.
THEOREM EventsTrue == AuditSpec => []EventsAreTrue
<1>1. TInv => EventsAreTrue
  BY DEF TInv
<1> QED BY <1>1, AuditInvariant, PTL

--------------------------------------------------------------------------------
(* While nothing fails the trail is complete *)

LEMMA OneMoves == ASSUME IInv, NEW r \in Req, Continue(r) PROVE Moved(r)
<1>0. TypeOK
  BY DEF IInv
<1>1. CASE \/ IssueDefault(r) \/ InsertRefused(r) \/ GetLatestFound(r) \/ VerifyRefused(r)
           \/ VerifyDemote(r) \/ VerifyRefetch(r) \/ ProgramAttest(r) \/ ProgramUndo(r)
           \/ AuthorizeFinish(r) \/ RevokeFinish(r)
  BY <1>0, <1>1, Moves DEF IssueDefault, InsertRefused, GetLatestFound, VerifyRefused,
     VerifyDemote, VerifyRefetch, ProgramAttest, ProgramUndo, AuthorizeFinish, RevokeFinish
<1>2. CASE \/ GetLatestNone(r) \/ VerifyNone(r) \/ VerifyBegin(r) \/ VerifyPass(r)
           \/ VerifyFail(r) \/ VerifyMark(r) \/ VerifyFinish(r) \/ ProgramNotAttested(r)
           \/ AuthorizeOther(r) \/ AuthorizeMark(r) \/ AuthorizeInsert(r) \/ RevokeExpire(r)
  <2>1. \E s \in Step : Goto(r, s)
    BY <1>2 DEF GetLatestNone, VerifyNone, VerifyBegin, VerifyPass, VerifyFail, VerifyMark,
       VerifyFinish, ProgramNotAttested, AuthorizeOther, AuthorizeMark, AuthorizeInsert,
       RevokeExpire, Step, VerifyStep
  <2> QED BY <1>0, <2>1, Moves
<1>3. CASE \/ (\E i \in AuthId : VerifyFound(r, i)) \/ VerifyIssue(r) \/ VerifySwitch(r)
           \/ (\E i \in AuthId : AuthorizePending(r, i))
  <2>1. \E s \in Step, i \in AuthId : Hold(r, s, i)
    BY <1>3 DEF VerifyFound, VerifyIssue, VerifySwitch, VerifyInsert, AuthorizePending,
       Step, VerifyStep
  <2> QED BY <1>0, <2>1, Moves
<1> QED BY <1>1, <1>2, <1>3 DEF Continue

\* A request that has made its last write but one has the event as its next step.
LEMMA FinishEmits ==
  ASSUME NEW r \in Req, Handle(r)
  PROVE  /\ call[r].step \in {"verify_finish", "authorize_finish"} => Emit(r, "granted")
         /\ call[r].step = "revoke_finish" => Emit(r, "revoked")
<1>1. CASE Emitting(r)
  BY <1>1 DEF Emitting, EmitTargetVerified, EmitVerificationFailed, EmitAdminTargetCreated,
     EmitAdminTargetAuthorized, EmitAdminTargetRevoked, VerifyFinish, VerifyDemote,
     ProgramAttest, AuthorizeFinish, RevokeFinish, At
<1>2. CASE Unreported(r)
  BY <1>2 DEF Unreported, Continue, IssueDefault, InsertRefused, GetLatestNone, GetLatestFound,
     VerifyRefused, VerifyNone, VerifyFound, VerifyIssue, VerifySwitch, VerifyBegin, VerifyPass,
     VerifyFail, VerifyDemote, VerifyMark, VerifyFinish, VerifyRefetch, ProgramAttest,
     ProgramNotAttested, ProgramUndo, AuthorizePending, AuthorizeOther, AuthorizeMark,
     AuthorizeInsert, AuthorizeFinish, RevokeExpire, RevokeFinish, At
<1> QED BY <1>1, <1>2 DEF Handle

\* The writes that give no target evidence it did not have.
LEMMA NoEvidence ==
  ASSUME IInv, NEW t \in Tid,
         \/ UNCHANGED auths
         \/ \E i \in AuthId, u \in Tid, m \in CustomerMethod \cup AdminMethod :
              InsertAuth(i, u, m, "pending")
         \/ \E i \in AuthId, u \in Tid, m \in CustomerMethod \cup AdminMethod :
              u # t /\ InsertAuth(i, u, m, "attested")
         \/ \E i \in AuthId, s \in Active : auths[i].target # t /\ MarkVerified(i, s)
         \/ \E u \in Tid : ExpireActive(u)
         \/ \E u \in Tid : DropTarget(u)
         \/ \E i \in AuthId : Lapse(i),
         HasEvidence(t)'
  PROVE  HasEvidence(t)
<1>0. auths \in [AuthId -> Row]
  BY DEF IInv, TypeOK, TablesOK
<1>1. PICK j \in AuthId : auths'[j].target = t /\ auths'[j].state \in Live /\ auths'[j].state # "pending"
  BY DEF HasEvidence, RowsOf
<1>2. auths[j].target = t /\ auths[j].state \in Live /\ auths[j].state # "pending"
  <2>1. CASE UNCHANGED auths
    BY <1>1, <2>1
  <2>2. ASSUME NEW i \in AuthId, NEW u \in Tid, NEW m \in CustomerMethod \cup AdminMethod,
               InsertAuth(i, u, m, "pending") \/ (u # t /\ InsertAuth(i, u, m, "attested"))
        PROVE  auths[j] = auths'[j]
    BY <1>0, <1>1, <2>2 DEF InsertAuth
  <2>3. ASSUME NEW i \in AuthId, NEW s \in Active, auths[i].target # t, MarkVerified(i, s)
        PROVE  auths[j] = auths'[j]
    BY <1>0, <1>1, <2>3 DEF MarkVerified, Row
  <2>4. ASSUME NEW u \in Tid, ExpireActive(u)
        PROVE  auths[j].target = t /\ auths[j].state \in Live /\ auths[j].state # "pending"
    <3>1. auths'[j] = IF j \in RowsOf(u) /\ auths[j].state \in Active
                      THEN [auths[j] EXCEPT !.state = "lapsed"] ELSE auths[j]
      BY <2>4 DEF ExpireActive
    <3> QED BY <1>0, <1>1, <3>1 DEF Row, Active, Live
  <2>5. ASSUME NEW u \in Tid, DropTarget(u) PROVE auths[j] = auths'[j]
    <3>1. auths'[j] = IF j \in RowsOf(u) THEN [auths[j] EXCEPT !.state = "gone"] ELSE auths[j]
      BY <2>5 DEF DropTarget
    <3> QED BY <1>0, <1>1, <3>1 DEF Row, Live, Active
  <2>6. ASSUME NEW i \in AuthId, Lapse(i)
        PROVE  auths[j].target = t /\ auths[j].state \in Live /\ auths[j].state # "pending"
    BY <1>0, <1>1, <2>6 DEF Lapse, Row, Active, Live
  <2> QED BY <1>1, <2>1, <2>2, <2>3, <2>4, <2>5, <2>6
<1> QED BY <1>2 DEF HasEvidence, RowsOf

LEMMA GoesTo ==
  ASSUME TypeOK, NEW r \in Req, NEW s \in Step, Goto(r, s)
  PROVE  call'[r].step = s /\ call'[r].target = call[r].target
<1>1. call'[r] = [step |-> s, target |-> call[r].target, row |-> call[r].row]
  BY Moves
<1> QED BY <1>1

\* New evidence is a statement of a request that is about to report it.
LEMMA NewEvidence ==
  ASSUME IInv, NEW r \in Req, Continue(r), NEW t \in Tid, HasEvidence(t)', ~HasEvidence(t)
  PROVE  /\ call[r].target = t
         /\ \/ ProgramAttest(r)
            \/ /\ call'[r].step \in {"verify_finish", "authorize_finish"}
               /\ call'[r].target = t
<1>0. call[r] \in Call /\ Fine(call[r]) /\ TypeOK /\ call \in [Req -> Call]
  BY DEF IInv, TypeOK
<1>1. call[r].step # "idle" => call[r].target \in Tid
  BY <1>0 DEF Fine
<1>2. CASE \/ InsertRefused(r) \/ GetLatestNone(r) \/ GetLatestFound(r)
           \/ VerifyRefused(r) \/ VerifyNone(r) \/ (\E i \in AuthId : VerifyFound(r, i))
           \/ VerifyPass(r) \/ VerifyFail(r) \/ VerifyRefetch(r) \/ ProgramNotAttested(r)
           \/ (\E i \in AuthId : AuthorizePending(r, i)) \/ AuthorizeOther(r)
           \/ VerifyBegin(r) \/ VerifyDemote(r) \/ VerifyFinish(r) \/ AuthorizeFinish(r)
           \/ RevokeFinish(r)
  <2>1. UNCHANGED auths
    BY <1>2 DEF InsertRefused, GetLatestNone, GetLatestFound, VerifyRefused, VerifyNone,
       VerifyFound, VerifyPass, VerifyFail, VerifyRefetch, ProgramNotAttested,
       AuthorizePending, AuthorizeOther, VerifyBegin, VerifyDemote, VerifyFinish,
       AuthorizeFinish, RevokeFinish
  <2> QED BY <2>1, NoEvidence
<1>3. CASE IssueDefault(r) \/ VerifyIssue(r) \/ VerifySwitch(r)
  <2>1. call[r].target \in Tid
    BY <1>1, <1>3 DEF IssueDefault, VerifyIssue, VerifySwitch, At
  <2>2. DefaultMethod \in CustomerMethod /\ ChallengeMethod \subseteq CustomerMethod
    BY MethodAssumption DEF CustomerMethod
  <2>3. \E i \in AuthId, m \in CustomerMethod : InsertAuth(i, call[r].target, m, "pending")
    BY <1>3, <2>2 DEF IssueDefault, VerifyIssue, VerifySwitch, VerifyInsert
  <2> QED BY <2>1, <2>3, NoEvidence
<1>4. CASE VerifyMark(r) \/ AuthorizeMark(r)
  <2>1. call[r].row \in AuthId /\ auths[call[r].row].target = call[r].target
    BY <1>0, <1>4 DEF VerifyMark, AuthorizeMark, At, Fine, RowStep, VerifyStep
  <2>2. \E s \in Active : MarkVerified(call[r].row, s)
    BY <1>4 DEF VerifyMark, AuthorizeMark, Active
  <2>3. call[r].target = t
    BY <2>1, <2>2, NoEvidence
  <2>4. Goto(r, "verify_finish") \/ Goto(r, "authorize_finish")
    BY <1>4 DEF VerifyMark, AuthorizeMark
  <2>5. call'[r].step \in {"verify_finish", "authorize_finish"} /\ call'[r].target = call[r].target
    BY <1>0, <2>4, GoesTo DEF Step, VerifyStep
  <2> QED BY <2>3, <2>5
<1>5. CASE ProgramAttest(r)
  <2>1. call[r].target \in Tid BY <1>1, <1>5 DEF ProgramAttest, At
  <2>2. \E i \in AuthId : InsertAuth(i, call[r].target, "program", "attested")
    BY <1>5 DEF ProgramAttest
  <2>3. call[r].target = t
    BY <2>1, <2>2, NoEvidence DEF AdminMethod
  <2> QED BY <1>5, <2>3
<1>6. CASE AuthorizeInsert(r)
  <2>1. call[r].target \in Tid BY <1>1, <1>6 DEF AuthorizeInsert, At
  <2>2. \E i \in AuthId : InsertAuth(i, call[r].target, "manual", "attested")
    BY <1>6 DEF AuthorizeInsert
  <2>3. call[r].target = t
    BY <2>1, <2>2, NoEvidence DEF AdminMethod
  <2>4. Goto(r, "authorize_finish")
    BY <1>6 DEF AuthorizeInsert
  <2>5. call'[r].step = "authorize_finish" /\ call'[r].target = call[r].target
    BY <1>0, <2>4, GoesTo DEF Step
  <2> QED BY <2>3, <2>5
<1>7. CASE ProgramUndo(r)
  <2>1. call[r].target \in Tid BY <1>1, <1>7 DEF ProgramUndo, At
  <2> QED BY <1>7, <2>1, NoEvidence DEF ProgramUndo
<1>8. CASE RevokeExpire(r)
  <2>1. call[r].target \in Tid BY <1>1, <1>8 DEF RevokeExpire, At
  <2> QED BY <1>8, <2>1, NoEvidence DEF RevokeExpire
<1> QED BY <1>2, <1>3, <1>4, <1>5, <1>6, <1>7, <1>8 DEF Continue

\* A kill switch that is newly pulled is Revoke's, which is about to report it.
LEMMA NewKill ==
  ASSUME IInv, NEW r \in Req, Continue(r), NEW t \in Tid, killed'[t], ~killed[t]
  PROVE  call'[r].step = "revoke_finish" /\ call'[r].target = t
<1>0. killed \in [Tid -> BOOLEAN] /\ TypeOK /\ call \in [Req -> Call]
  BY DEF IInv, TypeOK, TablesOK
<1>1. CASE RevokeExpire(r)
  <2>1. killed' = [killed EXCEPT ![call[r].target] = TRUE] /\ Goto(r, "revoke_finish")
    BY <1>1 DEF RevokeExpire
  <2>2. call[r].target = t
    BY <1>0, <2>1
  <2>3. call'[r].step = "revoke_finish" /\ call'[r].target = call[r].target
    BY <1>0, <2>1, GoesTo DEF Step
  <2> QED BY <2>2, <2>3
<1>2. CASE ~RevokeExpire(r)
  <2>1. UNCHANGED killed \/ \E u : killed' = [killed EXCEPT ![u] = FALSE]
    BY <1>2 DEF Continue, IssueDefault, InsertRefused, GetLatestNone, GetLatestFound,
     VerifyRefused, VerifyNone, VerifyFound, VerifyIssue, VerifySwitch, VerifyBegin, VerifyPass,
     VerifyFail, VerifyDemote, VerifyMark, VerifyFinish, VerifyRefetch, ProgramAttest,
     ProgramNotAttested, ProgramUndo, AuthorizePending, AuthorizeOther, AuthorizeMark,
     AuthorizeInsert, AuthorizeFinish, RevokeFinish, Granted
  <2> QED BY <1>0, <2>1
<1> QED BY <1>1, <1>2

\* What was told stays told while nothing is lost.
LEMMA ToldLasts ==
  ASSUME TInv, [AuditNext]_allVars, lost' = lost, NEW t \in Tid,
         NEW k \in {"granted", "revoked"}, Told(t, k)
  PROVE  Told(t, k)'
<1> DEFINE e == [type |-> k, target |-> t]
<1>0. lost \in Nat /\ e # Nothing
  BY DEF TInv, AuditTypeOK, Nothing
<1>1. trail \subseteq trail'
  BY DEF AuditNext, Background, Answering, Handle, EmitAdminTargetDeleted, Publish, DeleteAny,
         DeleteFails, Lose, allVars, auditVars
<1>2. ASSUME NEW q \in Req, sending[q] = e PROVE sending'[q] = e \/ e \in trail'
  <2>0. sending \in [Req -> Event \cup Deletes \cup {Nothing}]
    BY DEF TInv, AuditTypeOK
  <2>1. CASE UNCHANGED sending
    BY <1>2, <2>1
  <2>2. ASSUME NEW r \in Req, Handle(r), q = r PROVE FALSE
    BY <1>0, <1>2, <2>2 DEF Handle, Quiet
  <2>3. ASSUME NEW r \in Req, Handle(r), q # r PROVE sending'[q] = sending[q]
    BY <2>0, <2>3 DEF Handle, Emitting, Unreported, EmitTargetVerified, EmitVerificationFailed,
       EmitAdminTargetCreated, EmitAdminTargetAuthorized, EmitAdminTargetRevoked, Emit
  <2>4. ASSUME NEW r \in Req, EmitAdminTargetDeleted(r) PROVE sending'[q] = e
    <3>1. PICK u \in Tid : /\ sending[r] = [type |-> "delete", target |-> u]
                          /\ sending' = [sending EXCEPT ![r] = [type |-> "deleted", target |-> u]]
      BY <2>4 DEF EmitAdminTargetDeleted
    <3>2. sending[r].type = "delete"
      BY <3>1
    <3>3. q # r
      BY <1>2, <3>2
    <3> QED BY <1>2, <2>0, <3>1, <3>3
  <2>5. ASSUME NEW r \in Req, Publish(r) PROVE sending'[q] = e \/ e \in trail'
    <3>1. CASE q = r
      BY <1>2, <2>5, <3>1 DEF Publish
    <3>2. CASE q # r
      BY <1>2, <2>0, <2>5, <3>2 DEF Publish
    <3> QED BY <3>1, <3>2
  <2>6. ASSUME NEW r \in Req, NEW u \in Tid, DeleteAny(r, u) PROVE sending'[q] = e
    BY <1>0, <1>2, <2>0, <2>6 DEF DeleteAny, Quiet
  <2>7. ASSUME NEW r \in Req, DeleteFails(r) \/ Lose(r) PROVE FALSE
    BY <1>0, <2>7 DEF DeleteFails, Lose
  <2> QED BY <1>2, <2>1, <2>2, <2>3, <2>4, <2>5, <2>6, <2>7
          DEF AuditNext, Answering, Background, allVars, auditVars
<1> QED BY <1>1, <1>2 DEF Told

\* A request that emits has told.
LEMMA EmitTells ==
  ASSUME TInv, NEW r \in Req, NEW t \in Tid, NEW k, Emit(r, k), call[r].target = t
  PROVE  Told(t, k)'
<1>1. sending'[r] = [type |-> k, target |-> t]
  BY DEF Emit, TInv, AuditTypeOK
<1> QED BY <1>1 DEF Told

\* A request on its way to its event gets there or has told, while nothing fails.
LEMMA FinishingLasts ==
  ASSUME IInv, TInv, AuditNext, faults' = faults, NEW t \in Tid, NEW q \in Req,
         call[q].target = t,
         \/ call[q].step \in {"verify_finish", "authorize_finish"}
         \/ call[q].step = "revoke_finish"
  PROVE  \/ call'[q] = call[q]
         \/ call[q].step \in {"verify_finish", "authorize_finish"} /\ Told(t, "granted")'
         \/ call[q].step = "revoke_finish" /\ Told(t, "revoked")'
<1>0. call \in [Req -> Call] /\ faults \in Nat
  BY DEF IInv, TypeOK
<1>1. ASSUME NEW r \in Req, Handle(r), r = q
      PROVE  \/ call[q].step \in {"verify_finish", "authorize_finish"} /\ Told(t, "granted")'
             \/ call[q].step = "revoke_finish" /\ Told(t, "revoked")'
  BY <1>1, FinishEmits, EmitTells
<1>2. ASSUME NEW r \in Req, Handle(r), r # q PROVE call'[q] = call[q]
  BY <1>2, HandleContinues, OneMoves DEF Moved
<1>3. ASSUME NEW r \in Req, NEW u \in Tid, Arrive(r, u) PROVE call'[q] = call[q]
  <2>1. call[r].step = "idle" /\ \E s \in Step : Begin(r, s, u)
    BY <1>3 DEF Arrive, CreateTarget, GetTarget, TriggerVerification, CreateProgramTarget,
       AuthorizeManually, Revoke, Begin, At, Step, VerifyStep
  <2>2. r # q
    BY <2>1
  <2> QED BY <1>0, <2>1, <2>2 DEF Begin
<1>4. ASSUME NEW r \in Req, Abort(r) PROVE FALSE
  BY <1>0, <1>4 DEF Abort, Fail
<1>5. ASSUME UNCHANGED call PROVE call'[q] = call[q]
  BY <1>5
<1>6. ASSUME Background PROVE call'[q] = call[q]
  <2>1. ASSUME NEW u \in Tid, DeleteTarget(u) PROVE UNCHANGED call
    BY <2>1 DEF DeleteTarget
  <2>2. ASSUME NEW i \in AuthId, Lapse(i) PROVE UNCHANGED call
    BY <2>2 DEF Lapse
  <2> QED BY <1>3, <1>4, <1>5, <1>6, <2>1, <2>2 DEF Background
<1>7. ASSUME NEW r \in Req,
             EmitAdminTargetDeleted(r) \/ Publish(r) \/ (\E u \in Tid : DeleteAny(r, u))
               \/ DeleteFails(r) \/ Lose(r)
      PROVE  UNCHANGED call
  BY <1>7 DEF EmitAdminTargetDeleted, DeleteTarget, Publish, DeleteAny, DeleteFails, Lose, vars
<1> QED BY <1>1, <1>2, <1>5, <1>6, <1>7 DEF AuditNext, Answering

\* A step other than a request's own statement gives no evidence and pulls no switch.
LEMMA OthersGrantNothing ==
  ASSUME IInv, [AuditNext]_allVars, \A r \in Req : ~Handle(r), NEW t \in Tid
  PROVE  (HasEvidence(t)' => HasEvidence(t)) /\ (killed'[t] => killed[t])
<1>1. /\ UNCHANGED killed
      /\ \/ UNCHANGED auths
         \/ \E u \in Tid : DropTarget(u)
         \/ \E i \in AuthId : Lapse(i)
  <2>1. ASSUME NEW r \in Req, NEW u \in Tid, Arrive(r, u) PROVE UNCHANGED <<auths, killed>>
    BY <2>1 DEF Arrive, CreateTarget, GetTarget, TriggerVerification, CreateProgramTarget,
       AuthorizeManually, Revoke
  <2>2. ASSUME NEW r \in Req, Abort(r) PROVE UNCHANGED <<auths, killed>>
    BY <2>2 DEF Abort
  <2>3. ASSUME NEW u \in Tid, DeleteTarget(u) PROVE UNCHANGED killed /\ DropTarget(u)
    BY <2>3 DEF DeleteTarget
  <2>4. ASSUME NEW i \in AuthId, Lapse(i) PROVE UNCHANGED killed
    BY <2>4 DEF Lapse
  <2>5. ASSUME NEW r \in Req, EmitAdminTargetDeleted(r)
        PROVE  UNCHANGED killed /\ (UNCHANGED auths \/ \E u \in Tid : DropTarget(u))
    BY <2>3, <2>5 DEF EmitAdminTargetDeleted, vars
  <2>6. ASSUME NEW r \in Req,
               Publish(r) \/ (\E u \in Tid : DeleteAny(r, u)) \/ DeleteFails(r) \/ Lose(r)
        PROVE  UNCHANGED <<auths, killed>>
    BY <2>6 DEF Publish, DeleteAny, DeleteFails, Lose, vars
  <2>7. CASE UNCHANGED allVars
    BY <2>7 DEF allVars, vars
  <2> QED BY <2>1, <2>2, <2>3, <2>4, <2>5, <2>6, <2>7 DEF AuditNext, Background, Answering
<1>2. HasEvidence(t)' => HasEvidence(t)
  BY <1>1, NoEvidence
<1> QED BY <1>1, <1>2

RInv == GrantIsRecorded /\ RevokeIsRecorded

LEMMA CountsGrow ==
  ASSUME IInv, IInv', TInv, TInv', [AuditNext]_allVars, faults' + lost' = 0
  PROVE  faults = 0 /\ lost = 0 /\ faults' = faults /\ lost' = lost
<1>0. faults \in Nat /\ lost \in Nat /\ faults' \in Nat /\ lost' \in Nat
  BY DEF IInv, TInv, TypeOK, AuditTypeOK
<1>1. faults' = 0 /\ lost' = 0
  <2>1. \A a, b \in Nat : a + b = 0 => a = 0 /\ b = 0
    OBVIOUS
  <2>2. faults' + lost' = 0
    OBVIOUS
  <2> QED BY <1>0, <2>1, <2>2
<1>2. lost' = lost \/ lost' = lost + 1
  BY DEF AuditNext, Background, Answering, Handle, EmitAdminTargetDeleted, Publish, DeleteAny,
         DeleteFails, Lose, allVars, auditVars
<1>3. faults' = faults \/ faults' = faults + 1
  <2>1. [Next]_vars
    BY AuditStep
  <2>2. ASSUME NEW r \in Req, Continue(r) PROVE faults' = faults \/ faults' = faults + 1
    BY <2>2 DEF Continue, IssueDefault, InsertRefused, GetLatestNone, GetLatestFound,
     VerifyRefused, VerifyNone, VerifyFound, VerifyIssue, VerifySwitch, VerifyBegin, VerifyPass,
     VerifyFail, VerifyDemote, VerifyMark, VerifyFinish, VerifyRefetch, ProgramAttest,
     ProgramNotAttested, ProgramUndo, AuthorizePending, AuthorizeOther, AuthorizeMark,
     AuthorizeInsert, AuthorizeFinish, RevokeExpire, RevokeFinish, NoneOrFail, Fail
  <2>3. ASSUME NEW r \in Req, NEW u \in Tid, Arrive(r, u) PROVE faults' = faults
    BY <2>3 DEF Arrive, CreateTarget, GetTarget, TriggerVerification, CreateProgramTarget,
       AuthorizeManually, Revoke
  <2>4. ASSUME NEW r \in Req, Abort(r) PROVE faults' = faults + 1
    BY <2>4 DEF Abort, Fail
  <2>5. ASSUME (\E u \in Tid : DeleteTarget(u)) \/ (\E i \in AuthId : Lapse(i)) \/ UNCHANGED vars
        PROVE  faults' = faults
    BY <2>5 DEF DeleteTarget, Lapse, vars
  <2> QED BY <2>1, <2>2, <2>3, <2>4, <2>5 DEF Next
<1> QED BY <1>0, <1>1, <1>2, <1>3

LEMMA RecordedStep ==
  ASSUME IInv, IInv', TInv, TInv', RInv, [AuditNext]_allVars
  PROVE  RInv'
<1> SUFFICES ASSUME faults' + lost' = 0, NEW t \in Tid
             PROVE  /\ HasEvidence(t)' => \/ Told(t, "granted")'
                                         \/ Finishing(t, {"verify_finish", "authorize_finish"})'
                    /\ killed'[t] => Told(t, "revoked")' \/ Finishing(t, {"revoke_finish"})'
  BY DEF RInv, GrantIsRecorded, RevokeIsRecorded
<1>0. faults = 0 /\ lost = 0 /\ faults' = faults /\ lost' = lost
  BY CountsGrow
<1>1. faults + lost = 0
  BY <1>0
<1>2. ASSUME NEW k \in {"granted", "revoked"}, Told(t, k) PROVE Told(t, k)'
  BY <1>0, <1>2, ToldLasts
<1>3. CASE UNCHANGED allVars
  BY <1>1, <1>3 DEF allVars, auditVars, vars, RInv, GrantIsRecorded, RevokeIsRecorded, Told,
     Finishing, HasEvidence, RowsOf
<1>4. CASE AuditNext
  <2>1. Finishing(t, {"verify_finish", "authorize_finish"}) =>
          Told(t, "granted")' \/ Finishing(t, {"verify_finish", "authorize_finish"})'
    <3>1. ASSUME NEW q \in Req, call[q].target = t, call[q].step \in {"verify_finish", "authorize_finish"}
          PROVE  Told(t, "granted")' \/ call'[q] = call[q]
      BY <1>0, <1>4, <3>1, FinishingLasts
    <3> QED BY <3>1 DEF Finishing
  <2>2. Finishing(t, {"revoke_finish"}) => Told(t, "revoked")' \/ Finishing(t, {"revoke_finish"})'
    <3>1. ASSUME NEW q \in Req, call[q].target = t, call[q].step = "revoke_finish"
          PROVE  Told(t, "revoked")' \/ call'[q] = call[q]
      BY <1>0, <1>4, <3>1, FinishingLasts
    <3> QED BY <3>1 DEF Finishing
  <2>3. ASSUME HasEvidence(t)', ~HasEvidence(t)
        PROVE  Told(t, "granted")' \/ Finishing(t, {"verify_finish", "authorize_finish"})'
    <3>1. PICK r \in Req : Handle(r)
      BY <2>3, OthersGrantNothing
    <3>2. call[r].target = t /\ (\/ ProgramAttest(r)
                                \/ /\ call'[r].step \in {"verify_finish", "authorize_finish"}
                                   /\ call'[r].target = t)
      BY <2>3, <3>1, HandleContinues, NewEvidence
    <3>3. CASE ProgramAttest(r)
      <4>1. Emit(r, "granted")
        <5>1. call[r].step = "program_attest"
          BY <3>3 DEF ProgramAttest, At
        <5> QED BY <3>1, <3>3, <5>1 DEF Handle, Unreported, Emitting, EmitTargetVerified,
                EmitVerificationFailed, EmitAdminTargetCreated, EmitAdminTargetAuthorized,
                EmitAdminTargetRevoked, VerifyFinish, VerifyDemote, AuthorizeFinish,
                RevokeFinish, At
      <4> QED BY <3>2, <4>1, EmitTells
    <3> QED BY <3>2, <3>3 DEF Finishing
  <2>4. ASSUME killed'[t], ~killed[t]
        PROVE  Told(t, "revoked")' \/ Finishing(t, {"revoke_finish"})'
    <3>1. PICK r \in Req : Handle(r)
      BY <2>4, OthersGrantNothing
    <3>2. call'[r].step = "revoke_finish" /\ call'[r].target = t
      BY <2>4, <3>1, HandleContinues, NewKill
    <3> QED BY <3>2 DEF Finishing
  <2>5. HasEvidence(t) => Told(t, "granted") \/ Finishing(t, {"verify_finish", "authorize_finish"})
    BY <1>1 DEF RInv, GrantIsRecorded
  <2>6. killed[t] => Told(t, "revoked") \/ Finishing(t, {"revoke_finish"})
    BY <1>1 DEF RInv, RevokeIsRecorded
  <2>7. HasEvidence(t)' => \/ Told(t, "granted")'
                          \/ Finishing(t, {"verify_finish", "authorize_finish"})'
    BY <1>2, <2>1, <2>3, <2>5
  <2>8. killed'[t] => Told(t, "revoked")' \/ Finishing(t, {"revoke_finish"})'
    BY <1>2, <2>2, <2>4, <2>6
  <2> QED BY <2>7, <2>8
<1> QED BY <1>3, <1>4

LEMMA RecordedInit == AuditInit => RInv
BY DEF AuditInit, Init, RInv, GrantIsRecorded, RevokeIsRecorded, HasEvidence, RowsOf, NoAuth,
       Live, Active, Unused

LEMMA RecordedInvariant == AuditSpec => []RInv
<1>1. (IInv /\ TInv) /\ (IInv /\ TInv)' /\ RInv /\ [AuditNext]_allVars => RInv'
  BY RecordedStep
<1> QED BY <1>1, RecordedInit, AuditInvariant, PTL DEF AuditSpec

\* No grant goes unrecorded while nothing fails and no event is lost.
THEOREM GrantsRecorded == AuditSpec => []GrantIsRecorded
<1>1. RInv => GrantIsRecorded
  BY DEF RInv
<1> QED BY <1>1, RecordedInvariant, PTL

\* Nor does a revocation.
THEOREM RevocationsRecorded == AuditSpec => []RevokeIsRecorded
<1>1. RInv => RevokeIsRecorded
  BY DEF RInv
<1> QED BY <1>1, RecordedInvariant, PTL
==================================================================================
