------------------------------ MODULE AuditTrail ------------------------------
(***************************************************************************)
(* TargetLifecycle together with the audit events its handlers emit        *)
(* (internal/producer/producer.go).  An event is published after the       *)
(* statement it reports, by the same request, over the network, and the    *)
(* error of the emission is ignored: the request goes on and the event is  *)
(* lost.  Between the write and the event other requests write the same    *)
(* target.                                                                 *)
(***************************************************************************)
EXTENDS TargetLifecycle

CONSTANT MaxLost   \* bound: events lost, to NATS or to a crash

ASSUME LostAssumption == MaxLost \in Nat

VARIABLES
  sending,  \* per slot: the event being emitted, or the deletion it will report
  trail,    \* the events published, failures left out
  lost      \* events lost so far

auditVars == <<sending, trail, lost>>
allVars   == <<vars, auditVars>>

\* What an event says of its target: target.verified, admin.target.created and
\* admin.target.authorized say that access was granted, target.verification_failed
\* that it was not, and admin.target.revoked and admin.target.deleted that it ended.
EventType == {"granted", "failed", "revoked", "deleted"}
Event   == [type : EventType, target : Tid]
Nothing == [type |-> "none", target |-> NoTarget]
Deletes == [type : {"delete"}, target : Tid]

Quiet(r)   == sending[r] = Nothing
Emit(r, e) == sending' = [sending EXCEPT ![r] = [type |-> e, target |-> call[r].target]]

--------------------------------------------------------------------------------
(* Handlers that emit.  Each starts sending with its last write. *)

\* Mutant: the event is sent as soon as the check has passed.
VerifiedOnPass(r) ==
  \/ VerifyFinish(r) /\ UNCHANGED sending
  \/ VerifyPass(r) /\ Emit(r, "granted")

EmitTargetVerified(r)     == VerifyFinish(r)  /\ Emit(r, "granted")
EmitVerificationFailed(r) == VerifyDemote(r)  /\ Emit(r, "failed")
EmitAdminTargetCreated(r) == ProgramAttest(r) /\ Emit(r, "granted")

\* Mutant: an administrator's grant goes unreported.
AuthorizedInSilence(r) == AuthorizeFinish(r) /\ UNCHANGED sending

EmitAdminTargetAuthorized(r) == AuthorizeFinish(r) /\ Emit(r, "granted")

\* Mutant: a revocation that found nothing to expire is not reported.
RevokedIfAnyExpired(r) ==
  /\ RevokeFinish(r)
  /\ \/ Emit(r, "revoked")
     \/ ~HasEvidence(call[r].target) /\ UNCHANGED sending

EmitAdminTargetRevoked(r) == RevokeFinish(r) /\ Emit(r, "revoked")

Emitting(r) ==
  \/ EmitTargetVerified(r) \/ EmitVerificationFailed(r) \/ EmitAdminTargetCreated(r)
  \/ EmitAdminTargetAuthorized(r) \/ EmitAdminTargetRevoked(r)

\* DeleteAny reads the target first: a miss is the 404.
DeleteAny(r, t) ==
  /\ At(r, "idle") /\ Quiet(r) /\ Exists(t)
  /\ sending' = [sending EXCEPT ![r] = [type |-> "delete", target |-> t]]
  /\ UNCHANGED <<vars, trail, lost>>

\* Then it deletes, and reports that whether or not the DELETE found the row.
EmitAdminTargetDeleted(r) ==
  \E t \in Tid :
    /\ sending[r] = [type |-> "delete", target |-> t]
    /\ DeleteTarget(t) \/ (~Exists(t) /\ UNCHANGED vars)
    /\ sending' = [sending EXCEPT ![r] = [type |-> "deleted", target |-> t]]
    /\ UNCHANGED <<trail, lost>>

\* The DELETE fails, or the request is aborted before it: nothing to report.
DeleteFails(r) ==
  /\ sending[r].type = "delete"
  /\ lost < MaxLost /\ lost' = lost + 1
  /\ sending' = [sending EXCEPT ![r] = Nothing]
  /\ UNCHANGED <<vars, trail>>

--------------------------------------------------------------------------------
(* The producer *)

Publish(r) ==
  /\ sending[r] \in Event
  /\ trail' = trail \cup {e \in {sending[r]} : e.type # "failed"}
  /\ sending' = [sending EXCEPT ![r] = Nothing]
  /\ UNCHANGED <<vars, lost>>

\* No connection, a refused publish, a cancelled context, a crash.  The handler
\* ignores the error.
Lose(r) ==
  /\ sending[r] \in Event
  /\ lost < MaxLost /\ lost' = lost + 1
  /\ sending' = [sending EXCEPT ![r] = Nothing]
  /\ UNCHANGED <<vars, trail>>

--------------------------------------------------------------------------------
AuditInit == Init /\ sending = [r \in Req |-> Nothing] /\ trail = {} /\ lost = 0

\* The other statements, and what needs no slot, report nothing.
Unreported(r) ==
  /\ Continue(r)
  /\ ~(VerifyFinish(r) \/ VerifyDemote(r) \/ ProgramAttest(r)
       \/ AuthorizeFinish(r) \/ RevokeFinish(r))
  /\ UNCHANGED sending

Handle(r) == Quiet(r) /\ (Emitting(r) \/ Unreported(r)) /\ UNCHANGED <<trail, lost>>

Background ==
  /\ \/ \E r \in Req : Quiet(r) /\ ((\E t \in Tid : Arrive(r, t)) \/ Abort(r))
     \/ \E t \in Tid : DeleteTarget(t)
     \/ \E i \in AuthId : Lapse(i)
  /\ UNCHANGED auditVars

Answering(r) == Handle(r) \/ EmitAdminTargetDeleted(r) \/ Publish(r)

AuditNext ==
  \/ Background
  \/ \E r \in Req :
       Answering(r) \/ (\E t \in Tid : DeleteAny(r, t)) \/ DeleteFails(r) \/ Lose(r)

AuditSpec == AuditInit /\ [][AuditNext]_allVars

\* A handler that does not fail runs on to its return: every statement, every outbound
\* check of verification_service.go and every emission has a timeout.
FairAuditSpec == AuditSpec /\ \A r \in Req : WF_allVars(Answering(r))

--------------------------------------------------------------------------------
(* Properties *)

\* The producer's state has its types.
AuditTypeOK ==
  /\ sending \in [Req -> Event \cup Deletes \cup {Nothing}]
  /\ trail \subseteq Event
  /\ lost \in 0..MaxLost

\* The trail tells no lies: a published grant is of a target that has the row to show
\* for it, unless the target has been deleted, and a published deletion is of a target
\* that is gone, however long the event took and whoever wrote meanwhile.
EventsAreTrue ==
  \A e \in trail :
    /\ e.type = "granted" => status[e.target] = "deleted" \/ HasEvidence(e.target)
    /\ e.type = "deleted" => status[e.target] = "deleted"

\* An event of this type about t is published, or is being sent.
Told(t, type) ==
  LET e == [type |-> type, target |-> t] IN e \in trail \/ \E r \in Req : sending[r] = e

Finishing(t, steps) == \E r \in Req : call[r].target = t /\ call[r].step \in steps

\* README.md:38 "Every write emits an audit event" holds of grants while nothing
\* fails: a target with evidence has its grant told, or the request that made it is on
\* its way to the event.
GrantIsRecorded ==
  faults + lost = 0 =>
    \A t \in Tid : HasEvidence(t) =>
      Told(t, "granted") \/ Finishing(t, {"verify_finish", "authorize_finish"})

\* And of the kill switch: a target on which an admin has pulled it has that told,
\* or the revocation is on its way to the event.
RevokeIsRecorded ==
  faults + lost = 0 =>
    \A t \in Tid : killed[t] => Told(t, "revoked") \/ Finishing(t, {"revoke_finish"})
================================================================================
