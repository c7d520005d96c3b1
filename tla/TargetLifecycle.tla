---------------------------- MODULE TargetLifecycle ----------------------------
(***************************************************************************)
(* The ownership state machine of the target service: what the handlers of *)
(* internal/service/target_service.go and target_admin_service.go do to    *)
(* the rows of target.targets and target.authorizations.                   *)
(*                                                                         *)
(* No handler runs in a transaction, so a request is a sequence of single  *)
(* SQL statements and every statement is one action here.  Requests run    *)
(* concurrently.  A request may stop between any two statements (the       *)
(* process dies, the client's context is cancelled, a statement fails and  *)
(* the handler returns): that is Abort.  Where a failed statement makes    *)
(* the handler do something else than return, the failure is a branch of   *)
(* the statement's own action.                                             *)
(***************************************************************************)
EXTENDS Naturals

CONSTANTS
  Tid,              \* target ids; a BIGSERIAL, so an id is never used again
  Req,              \* request slots: how many requests may be in flight
  NoTarget,         \* the target of a slot or of a row not in use
  ChallengeMethod,  \* dns_txt, http_file, meta_tag: RunCheck can prove them
  OutOfBandMethod,  \* email, ip_registry: an admin confirms them
  DefaultMethod,    \* what defaultMethodForKind gives an enabled kind
  MaxAuths,         \* bound: rows of target.authorizations
  MaxFaults         \* bound: aborted requests and failed statements

\* The admin methods are written only by target_admin_service.go; the validator
\* of VerifyTargetRequest lets a customer name any of the others.
AdminMethod    == {"program", "manual"}
CustomerMethod == ChallengeMethod \cup OutOfBandMethod

ASSUME TargetAssumption == NoTarget \notin Tid
ASSUME MethodAssumption ==
  /\ DefaultMethod \in ChallengeMethod
  /\ ChallengeMethod \cap OutOfBandMethod = {}
  /\ CustomerMethod \cap AdminMethod = {}
ASSUME BoundAssumption == MaxAuths \in Nat /\ MaxFaults \in Nat

VARIABLES
  status,   \* targets.status, or absent / deleted
  source,   \* targets.source, none while the target is absent
  auths,    \* target.authorizations, by id; later ids were created later
  call,     \* what each request slot is doing: next statement and its locals
  faults,   \* aborts and failed statements so far
  killed    \* history: revoked, and not granted again by an admin since

vars == <<status, source, auths, call, faults, killed>>

AuthId == 1..MaxAuths
Source == {"none", "customer", "program"}
Status == {"absent", "unverified", "verifying", "verified", "revoked", "deleted"}

\* The life of a row.  verified_at and expires_at make it pending, active or
\* lapsed; an active row is "proved" or "attested" by who set verified_at last.
\* "gone" is a row the ON DELETE CASCADE removed.
Unused    == "unused"
Active    == {"proved", "attested"}
Live      == Active \cup {"pending", "lapsed"}
AuthState == Live \cup {Unused, "gone"}
NoAuth    == [target |-> NoTarget, method |-> "none", state |-> Unused]
Row       == [target : Tid \cup {NoTarget},
              method : CustomerMethod \cup AdminMethod \cup {"none"},
              state  : AuthState]

Exists(t)    == status[t] \notin {"absent", "deleted"}
RowsOf(t)    == {i \in AuthId : auths[i].target = t /\ auths[i].state \in Live}

\* Why a target may be verified: a row whose verified_at was once set.
HasEvidence(t) == \E i \in RowsOf(t) : auths[i].state # "pending"

\* GetByTargetID: ORDER BY created_at DESC, id DESC LIMIT 1.
IsLatest(t, i) == i \in RowsOf(t) /\ \A j \in RowsOf(t) : j <= i

--------------------------------------------------------------------------------
(* Requests *)

Idle == [step |-> "idle", target |-> NoTarget, row |-> 0]

VerifyStep ==
  {"verify_issue", "verify_switch", "verify_begin", "verify_check",
   "verify_demote", "verify_mark", "verify_finish", "verify_refetch"}
Step == VerifyStep \cup
  {"idle", "issue_default", "get_latest", "verify_latest",
   "program_attest", "program_undo",
   "authorize_latest", "authorize_mark", "authorize_insert", "authorize_finish",
   "revoke_expire", "revoke_finish"}
Call == [step : Step, target : Tid \cup {NoTarget}, row : 0..MaxAuths]

At(r, s)      == call[r].step = s
Begin(r, s, t) ==
  /\ At(r, "idle")
  /\ call' = [call EXCEPT ![r] = [step |-> s, target |-> t, row |-> 0]]
Goto(r, s)    == call' = [call EXCEPT ![r].step = s]
Hold(r, s, i) == call' = [call EXCEPT ![r] = [@ EXCEPT !.step = s, !.row = i]]
Return(r)     == call' = [call EXCEPT ![r] = Idle]

Fail == faults < MaxFaults /\ faults' = faults + 1

\* A read of a target's latest row that finds none, or fails.
NoneOrFail(t) == (RowsOf(t) = {} /\ UNCHANGED faults) \/ Fail

--------------------------------------------------------------------------------
(* Statements *)

\* Mutant: the row is saved, which inserts it where it is missing.
SaveStatus(t, s) == status' = [status EXCEPT ![t] = s]

\* UpdateStatus: no row matches once the target is deleted, and that is no error.
UpdateStatus(t, s) ==
  status' = IF Exists(t) THEN [status EXCEPT ![t] = s] ELSE status

\* authorizationRepository.Create: the next id; the foreign key makes the
\* statement fail when the target is gone.
NextId(i) ==
  /\ auths[i].state = Unused
  /\ \A j \in AuthId : j < i => auths[j].state # Unused

InsertAuth(i, t, m, s) ==
  /\ Exists(t)
  /\ NextId(i)
  /\ auths' = [auths EXCEPT ![i] = [target |-> t, method |-> m, state |-> s]]

\* Mutant: the UPDATE carries the WHERE clause of the active rows.
MarkActiveOnly(i, s) ==
  auths' = IF auths[i].state \in Active
           THEN [auths EXCEPT ![i].state = s] ELSE auths

\* MarkVerified: UPDATE by primary key, whatever the row's state is.
MarkVerified(i, s) ==
  auths' = IF auths[i].state \in Live
           THEN [auths EXCEPT ![i].state = s] ELSE auths

\* Mutant: only challenges a customer proved are expired.
ExpireProvedOnly(t) ==
  auths' = [i \in AuthId |->
              IF i \in RowsOf(t) /\ auths[i].state = "proved"
              THEN [auths[i] EXCEPT !.state = "lapsed"] ELSE auths[i]]

\* ExpireActiveAuthorizations: one UPDATE over the target's active rows.
ExpireActive(t) ==
  auths' = [i \in AuthId |->
              IF i \in RowsOf(t) /\ auths[i].state \in Active
              THEN [auths[i] EXCEPT !.state = "lapsed"] ELSE auths[i]]

\* Mutant: the foreign key does not cascade.
DropOnlyTarget(t) == status' = [status EXCEPT ![t] = "deleted"] /\ auths' = auths

\* DELETE FROM target.targets, with the ON DELETE CASCADE of authorizations.
DropTarget(t) ==
  /\ status' = [status EXCEPT ![t] = "deleted"]
  /\ auths'  = [i \in AuthId |-> IF i \in RowsOf(t)
                                 THEN [auths[i] EXCEPT !.state = "gone"]
                                 ELSE auths[i]]

--------------------------------------------------------------------------------
(* Customer requests *)

\* CreateTarget inserts (unverified, customer) and goes on to IssueChallenge.
\* A duplicate (user, kind, value) or a refused kind inserts nothing.
CreateTarget(r, t) ==
  /\ status[t] = "absent"
  /\ Begin(r, "issue_default", t)
  /\ status' = [status EXCEPT ![t] = "unverified"]
  /\ source' = [source EXCEPT ![t] = "customer"]
  /\ UNCHANGED <<auths, faults, killed>>

\* IssueChallenge with the default method, for CreateTarget and GetTarget.
IssueDefault(r) ==
  /\ At(r, "issue_default")
  /\ \E i \in AuthId : InsertAuth(i, call[r].target, DefaultMethod, "pending")
  /\ Return(r)
  /\ UNCHANGED <<status, source, faults, killed>>

\* The target was deleted before its row could be inserted: the foreign key
\* refuses, and each of these four callers returns.
InsertRefused(r) ==
  /\ call[r].step \in {"issue_default", "verify_issue", "verify_switch", "authorize_insert"}
  /\ ~Exists(call[r].target)
  /\ Return(r)
  /\ UNCHANGED <<status, source, auths, faults, killed>>

\* GetTarget writes only when a target that is neither verified nor a program's
\* turns out to have no row; other reads change nothing and are left out.
GetTarget(r, t) ==
  /\ Exists(t) /\ status[t] # "verified" /\ source[t] # "program"
  /\ Begin(r, "get_latest", t)
  /\ UNCHANGED <<status, source, auths, faults, killed>>

\* `auth, _ := GetByTargetID`: a failed read counts as no row.
GetLatestNone(r) ==
  /\ At(r, "get_latest")
  /\ NoneOrFail(call[r].target)
  /\ Goto(r, "issue_default")
  /\ UNCHANGED <<status, source, auths, killed>>

GetLatestFound(r) ==
  /\ At(r, "get_latest")
  /\ RowsOf(call[r].target) # {}
  /\ Return(r)
  /\ UNCHANGED <<status, source, auths, faults, killed>>

TriggerVerification(r, t) ==
  /\ Exists(t)
  /\ Begin(r, "verify_latest", t)
  /\ UNCHANGED <<status, source, auths, faults, killed>>

\* Mutant: the 409 looks at the latest row only, not at the target's source.
RefusedByRowOnly(t, rows) == \E i \in rows : auths[i].method \in AdminMethod

\* ErrTargetAdminAuthorized; rows holds the latest row that was read, if any.
AdminAuthorized(t, rows) ==
  source[t] = "program" \/ \E i \in rows : auths[i].method \in AdminMethod

VerifyRefused(r) ==
  LET t == call[r].target IN
  /\ At(r, "verify_latest")
  /\ AdminAuthorized(t, {i \in AuthId : IsLatest(t, i)})
  /\ Return(r)
  /\ UNCHANGED <<status, source, auths, faults, killed>>

\* No row, or none that could be read: a challenge is issued for the method the
\* customer names.
VerifyNone(r) ==
  LET t == call[r].target IN
  /\ At(r, "verify_latest")
  /\ NoneOrFail(t)
  /\ ~AdminAuthorized(t, {})
  /\ Goto(r, "verify_issue")
  /\ UNCHANGED <<status, source, auths, killed>>

\* The latest row is checked, or switched when the customer names another
\* challenge method than the row's.
VerifyFound(r, i) ==
  LET t == call[r].target IN
  /\ At(r, "verify_latest")
  /\ IsLatest(t, i)
  /\ ~AdminAuthorized(t, {i})
  /\ \E s \in {"verify_begin"} \cup
            (IF auths[i].method \in ChallengeMethod THEN {"verify_switch"} ELSE {}) :
       Hold(r, s, i)
  /\ UNCHANGED <<status, source, auths, faults, killed>>

VerifyInsert(r, i, m) ==
  /\ InsertAuth(i, call[r].target, m, "pending")
  /\ Hold(r, "verify_begin", i)

VerifyIssue(r) ==
  /\ At(r, "verify_issue")
  /\ \E i \in AuthId, m \in CustomerMethod : VerifyInsert(r, i, m)
  /\ UNCHANGED <<status, source, faults, killed>>

\* SwitchMethod inserts a second pending row and leaves the first alone.
VerifySwitch(r) ==
  /\ At(r, "verify_switch")
  /\ \E i \in AuthId, m \in ChallengeMethod \ {auths[call[r].row].method} :
       VerifyInsert(r, i, m)
  /\ UNCHANGED <<status, source, faults, killed>>

VerifyBegin(r) ==
  /\ At(r, "verify_begin")
  /\ UpdateStatus(call[r].target, "verifying")
  /\ Goto(r, "verify_check")
  /\ UNCHANGED <<source, auths, faults, killed>>

\* Mutant: an out-of-band method is reported as passed instead of pending.
RunCheckAcceptsAny(i) == TRUE

\* RunCheck: whether the owner has published the token is up to the owner; the
\* out-of-band methods never pass here.
RunCheckMayPass(i) == auths[i].method \in ChallengeMethod

VerifyPass(r) ==
  /\ At(r, "verify_check")
  /\ RunCheckMayPass(call[r].row)
  /\ Goto(r, "verify_mark")
  /\ UNCHANGED <<status, source, auths, faults, killed>>

VerifyFail(r) ==
  /\ At(r, "verify_check")
  /\ Goto(r, "verify_demote")
  /\ UNCHANGED <<status, source, auths, faults, killed>>

\* Mutant: a failed check returns without taking "verifying" back.
LeaveVerifying(t) == UNCHANGED status

\* A check that failed, or could not run, takes the target back.
Demote(t) == UpdateStatus(t, "unverified")

VerifyDemote(r) ==
  /\ At(r, "verify_demote")
  /\ Demote(call[r].target)
  /\ Return(r)
  /\ UNCHANGED <<source, auths, faults, killed>>

VerifyMark(r) ==
  /\ At(r, "verify_mark")
  /\ MarkVerified(call[r].row, "proved")
  /\ Goto(r, "verify_finish")
  /\ UNCHANGED <<status, source, faults, killed>>

VerifyFinish(r) ==
  /\ At(r, "verify_finish")
  /\ UpdateStatus(call[r].target, "verified")
  /\ Goto(r, "verify_refetch")
  /\ UNCHANGED <<source, auths, faults, killed>>

\* The response is built from a second read of the target.
VerifyRefetch(r) ==
  /\ At(r, "verify_refetch")
  /\ Return(r)
  /\ UNCHANGED <<status, source, auths, faults, killed>>

\* DeleteTarget by the owner and DeleteAny by an admin end in the same DELETE.
DeleteTarget(t) ==
  /\ Exists(t)
  /\ DropTarget(t)
  /\ UNCHANGED <<source, call, faults, killed>>

--------------------------------------------------------------------------------
(* Admin requests *)

\* An admin's grant ends what an earlier Revoke promised.
Granted(t) == killed' = [killed EXCEPT ![t] = FALSE]

CreateProgramTarget(r, t) ==
  /\ status[t] = "absent"
  /\ Begin(r, "program_attest", t)
  /\ status' = [status EXCEPT ![t] = "verified"]
  /\ source' = [source EXCEPT ![t] = "program"]
  /\ UNCHANGED <<auths, faults, killed>>

ProgramAttest(r) ==
  LET t == call[r].target IN
  /\ At(r, "program_attest")
  /\ \E i \in AuthId : InsertAuth(i, t, "program", "attested")
  /\ Granted(t)
  /\ Return(r)
  /\ UNCHANGED <<status, source, faults>>

\* The insert fails, or the target has been deleted meanwhile.
ProgramNotAttested(r) ==
  /\ At(r, "program_attest")
  /\ \/ ~Exists(call[r].target) /\ UNCHANGED faults
     \/ Fail
  /\ Goto(r, "program_undo")
  /\ UNCHANGED <<status, source, auths, killed>>

\* DeleteByUID, whose own error is ignored (Abort).
ProgramUndo(r) ==
  LET t == call[r].target IN
  /\ At(r, "program_undo")
  /\ IF Exists(t) THEN DropTarget(t) ELSE UNCHANGED <<status, auths>>
  /\ Return(r)
  /\ UNCHANGED <<source, faults, killed>>

AuthorizeManually(r, t) ==
  /\ Exists(t)
  /\ Begin(r, "authorize_latest", t)
  /\ UNCHANGED <<status, source, auths, faults, killed>>

\* A pending latest row is confirmed in place; no row, a failed read or a row
\* verified before gets a new manual row.
AuthorizePending(r, i) ==
  /\ At(r, "authorize_latest")
  /\ IsLatest(call[r].target, i)
  /\ auths[i].state = "pending"
  /\ Hold(r, "authorize_mark", i)
  /\ UNCHANGED <<status, source, auths, faults, killed>>

AuthorizeOther(r) ==
  LET t == call[r].target IN
  /\ At(r, "authorize_latest")
  /\ \/ NoneOrFail(t)
     \/ /\ \E i \in AuthId : IsLatest(t, i) /\ auths[i].state # "pending"
        /\ UNCHANGED faults
  /\ Goto(r, "authorize_insert")
  /\ UNCHANGED <<status, source, auths, killed>>

AuthorizeMark(r) ==
  /\ At(r, "authorize_mark")
  /\ MarkVerified(call[r].row, "attested")
  /\ Granted(call[r].target)
  /\ Goto(r, "authorize_finish")
  /\ UNCHANGED <<status, source, faults>>

AuthorizeInsert(r) ==
  LET t == call[r].target IN
  /\ At(r, "authorize_insert")
  /\ \E i \in AuthId : InsertAuth(i, t, "manual", "attested")
  /\ Granted(t)
  /\ Goto(r, "authorize_finish")
  /\ UNCHANGED <<status, source, faults>>

AuthorizeFinish(r) ==
  /\ At(r, "authorize_finish")
  /\ UpdateStatus(call[r].target, "verified")
  /\ Return(r)
  /\ UNCHANGED <<source, auths, faults, killed>>

Revoke(r, t) ==
  /\ Exists(t)
  /\ Begin(r, "revoke_expire", t)
  /\ UNCHANGED <<status, source, auths, faults, killed>>

\* From here on the kill switch is pulled, even if the status update is lost.
RevokeExpire(r) ==
  LET t == call[r].target IN
  /\ At(r, "revoke_expire")
  /\ ExpireActive(t)
  /\ killed' = [killed EXCEPT ![t] = TRUE]
  /\ Goto(r, "revoke_finish")
  /\ UNCHANGED <<status, source, faults>>

RevokeFinish(r) ==
  /\ At(r, "revoke_finish")
  /\ UpdateStatus(call[r].target, "revoked")
  /\ Return(r)
  /\ UNCHANGED <<source, auths, faults, killed>>

--------------------------------------------------------------------------------
(* The environment *)

\* expires_at passes: 60 days for a challenge, authorized_days for an admin's row.
Lapse(i) ==
  /\ auths[i].state \in Active
  /\ auths' = [auths EXCEPT ![i].state = "lapsed"]
  /\ UNCHANGED <<status, source, call, faults, killed>>

\* A request stops where it is: crash, cancelled context, failed statement.
Abort(r) ==
  /\ ~At(r, "idle")
  /\ Fail
  /\ Return(r)
  /\ UNCHANGED <<status, source, auths, killed>>

--------------------------------------------------------------------------------
Init ==
  /\ status = [t \in Tid |-> "absent"]
  /\ source = [t \in Tid |-> "none"]
  /\ auths  = [i \in AuthId |-> NoAuth]
  /\ call   = [r \in Req |-> Idle]
  /\ faults = 0
  /\ killed = [t \in Tid |-> FALSE]

\* A request's arrival, and every statement after it.
Arrive(r, t) ==
  \/ CreateTarget(r, t) \/ GetTarget(r, t) \/ TriggerVerification(r, t)
  \/ CreateProgramTarget(r, t) \/ AuthorizeManually(r, t) \/ Revoke(r, t)

Continue(r) ==
  \/ IssueDefault(r) \/ InsertRefused(r) \/ GetLatestNone(r) \/ GetLatestFound(r)
  \/ VerifyRefused(r) \/ VerifyNone(r) \/ (\E i \in AuthId : VerifyFound(r, i))
  \/ VerifyIssue(r) \/ VerifySwitch(r) \/ VerifyBegin(r) \/ VerifyPass(r)
  \/ VerifyFail(r) \/ VerifyDemote(r) \/ VerifyMark(r) \/ VerifyFinish(r)
  \/ VerifyRefetch(r)
  \/ ProgramAttest(r) \/ ProgramNotAttested(r) \/ ProgramUndo(r)
  \/ (\E i \in AuthId : AuthorizePending(r, i)) \/ AuthorizeOther(r)
  \/ AuthorizeMark(r) \/ AuthorizeInsert(r) \/ AuthorizeFinish(r)
  \/ RevokeExpire(r) \/ RevokeFinish(r)

Next ==
  \/ \E r \in Req : (\E t \in Tid : Arrive(r, t)) \/ Continue(r) \/ Abort(r)
  \/ \E t \in Tid : DeleteTarget(t)
  \/ \E i \in AuthId : Lapse(i)

Spec == Init /\ [][Next]_vars

--------------------------------------------------------------------------------
(* Properties *)

\* The tables keep what their schema promises: the columns' types, and the
\* foreign key, by which a live row belongs to a target that exists.
TablesOK ==
  /\ status \in [Tid -> Status]
  /\ source \in [Tid -> Source]
  /\ auths  \in [AuthId -> Row]
  /\ killed \in [Tid -> BOOLEAN]
  /\ \A i \in AuthId :
       auths[i].state \in Live => auths[i].target \in Tid /\ Exists(auths[i].target)

\* Tables and request slots have their types, whatever statements overlap.
TypeOK ==
  /\ TablesOK
  /\ call \in [Req -> Call]
  /\ faults \in 0..MaxFaults

\* A target a program vouches for is verified until an admin revokes it or it is
\* deleted: no customer request, alone or racing an admin's, takes it back to
\* unverified or verifying (the 409 of TriggerVerification and the source test
\* of GetTarget).
ProgramNeverDemoted ==
  \A t \in Tid : source[t] = "program" => status[t] \in {"verified", "revoked", "deleted"}

\* The kill switch: once Revoke has expired a target's authorizations, and until
\* an admin grants again, only a challenge the owner of a customer target has
\* proved can be active on it.  A program target stays shut, and so does
\* whatever an admin had attested, whichever requests were already under way.
KillSwitchHolds ==
  \A t \in Tid : killed[t] =>
    \A i \in RowsOf(t) : auths[i].state \in Active =>
      source[t] = "customer" /\ auths[i].state = "proved"

\* Nobody becomes an owner by waiting: a row a customer's own request made active
\* is a challenge of a customer target, never an out-of-band method or an
\* admin's row (RunCheck never passes those).
OnlyChallengesAreProved ==
  \A i \in AuthId : auths[i].state = "proved" =>
    auths[i].method \in ChallengeMethod /\ source[auths[i].target] = "customer"

\* A request between the two inserts of CreateProgramTarget, and one that has set
\* its target verifying and has yet to write its next status.
Creating(c, t)  == c.target = t /\ c.step \in {"program_attest", "program_undo"}
Verifying(c, t) == c.target = t
  /\ c.step \in {"verify_check", "verify_demote", "verify_mark", "verify_finish"}

\* A verified target has the row that says why, except while the request that
\* creates a program target is between its two inserts; a fault in that window
\* can leave a program target without one (README.md:102 says that this never
\* happens, which holds without faults), never a customer's.
VerifiedHasRow ==
  \A t \in Tid : status[t] = "verified" =>
    \/ HasEvidence(t)
    \/ /\ source[t] = "program"
       /\ faults > 0 \/ \E r \in Req : Creating(call[r], t)

\* While nothing fails, a verifying target has a verification under way that
\* will still write its status: two verifications that overlap, or one that
\* overlaps Revoke or AuthorizeManually, strand nothing.
VerifyingIsOwned ==
  faults = 0 => \A t \in Tid : status[t] = "verifying" =>
    \E r \in Req : Verifying(call[r], t)

\* What the rows of a target amount to for those who ask whether it may be
\* scanned (ScanBoundary).
Grounds(t) == {auths[i].state : i \in RowsOf(t)} \cap Active

AccessTo(t) ==
  [kind     |-> IF status[t] = "deleted" THEN "deleted" ELSE source[t],
   grounds  |-> Grounds(t),
   backed   |-> HasEvidence(t),
   standing |-> IF status[t] \in {"verified", "revoked"} THEN status[t] ELSE "open",
   shut     |-> killed[t] /\ Exists(t)]

AllAccess == [t \in Tid |-> AccessTo(t)]

Boundary == INSTANCE ScanBoundary WITH access <- AllAccess

\* The statements of all requests, however they overlap and wherever they stop,
\* amount to whole proofs, grants, expiries, revocations and deletions: no
\* statement opens a target for a scan, or shows it as verified, but as one of
\* these, a revocation takes every reason away in one step, and what is deleted
\* does not come back.
BoundaryKept == Boundary!Spec

\* The same as progress, for runs without faults (MaxFaults = 0): no target stays
\* verifying.
VerifyingResolves ==
  \A t \in Tid : status[t] = "verifying" ~> status[t] # "verifying"

--------------------------------------------------------------------------------
(* What the documentation says and the code does not keep *)

\* target_service.go:29 "ErrTargetAdminAuthorized is returned when a customer runs
\* the ownership challenge on a target whose authorization was granted by an
\* administrator": a target verified by an admin's active row is not demoted.
AdminGrantNotDemoted ==
  [][\A t \in Tid :
       status[t] = "verified" /\ (\E i \in RowsOf(t) : auths[i].state = "attested")
       => status'[t] \notin {"unverified", "verifying"}]_vars

\* target_service.go:208 "Re-fetch to get final state.": the target a passed
\* verification re-reads, and whose fields it goes on to use, is there.
RefetchFindsTarget ==
  \A r \in Req : At(r, "verify_refetch") => Exists(call[r].target)
================================================================================
