-------------------------------- MODULE ScopeGate ------------------------------
(***************************************************************************)
(* The authorization gate of scope_service.go, read against the requests   *)
(* of TargetLifecycle: CheckVerified, which lets a scan start, and         *)
(* CheckScope, which lets each of its tasks run.  Both read the target     *)
(* row, then its active authorizations, in two statements and outside any  *)
(* transaction; requests change both tables in between.                    *)
(*                                                                         *)
(* A check that is refused for what it asks (no host, an IP while IP       *)
(* targets are disabled, an authenticated phase without its attestation, a *)
(* host that resolves to a reserved or shared address, a host outside the  *)
(* scope) reads and is denied; which of these it was makes no difference   *)
(* here.  What a program's policy answers is ProgramPolicy's.              *)
(***************************************************************************)
EXTENDS TargetLifecycle

CONSTANT Gate  \* slots of checks

VARIABLES
  gate  \* each check: next step, target, rows read, the row that allowed it

gvars == <<vars, gate>>

\* shut is history: an admin's kill has been in force since the check began.
GateIdle == [step |-> "idle", target |-> NoTarget, rows |-> {}, by |-> NoAuth,
             shut |-> FALSE]

Answered(k) == k.step \in {"verified", "allowed"}

--------------------------------------------------------------------------------
(* Checks *)

\* GetByUIDInternal; a target that is absent or not verified is refused here.
ReadTarget(g, t) ==
  /\ gate[g].step = "idle"
  /\ status[t] = "verified"
  /\ gate' = [gate EXCEPT ![g] =
       [GateIdle EXCEPT !.step = "auths", !.target = t, !.shut = killed[t]]]
  /\ UNCHANGED vars

\* Mutant: the query forgets expires_at.
EverVerified(t) == {auths[i] : i \in {j \in RowsOf(t) : auths[j].state # "pending"}}

\* GetActiveAuthorizations.
ActiveRows(t) == {auths[i] : i \in {j \in RowsOf(t) : auths[j].state \in Active}}

\* No active row is a denial.
ReadAuths(g) ==
  LET rows == ActiveRows(gate[g].target) IN
  /\ gate[g].step = "auths"
  /\ gate' = [gate EXCEPT ![g] = IF rows = {} THEN GateIdle
                                 ELSE [@ EXCEPT !.step = "decide", !.rows = rows]]
  /\ UNCHANGED vars

\* CheckVerified: one active row is enough.
Verified(g) ==
  /\ gate[g].step = "decide"
  /\ gate' = [gate EXCEPT ![g].step = "verified"]
  /\ UNCHANGED vars

\* CheckScope: the rows come in no order, and the first that applies decides.  One
\* that is linked to a program always applies, and the program's policy decides;
\* any other allows each host in its scope, which is the target's for all rows.
Allowed(g, row) ==
  /\ gate[g].step = "decide"
  /\ row \in gate[g].rows
  /\ gate' = [gate EXCEPT ![g] = [@ EXCEPT !.step = "allowed", !.by = row]]
  /\ UNCHANGED vars

\* A denial at any step, or the end of a check that was answered.
Leave(g) ==
  /\ gate[g].step # "idle"
  /\ gate' = [gate EXCEPT ![g] = GateIdle]
  /\ UNCHANGED vars

--------------------------------------------------------------------------------
(* A check between its reads sees what a request's statement does. *)
Watch(k) ==
  IF k.step = "auths" THEN [k EXCEPT !.shut = k.shut /\ killed'[k.target]] ELSE k

Lifecycle ==
  /\ Next
  /\ gate' = [g \in Gate |-> Watch(gate[g])]

CheckStep(g) ==
  \/ \E t \in Tid : ReadTarget(g, t)
  \/ ReadAuths(g)
  \/ Verified(g)
  \/ \E row \in gate[g].rows : Allowed(g, row)
  \/ Leave(g)

GateInit ==
  /\ Init
  /\ gate = [g \in Gate |-> GateIdle]

GateNext == Lifecycle \/ \E g \in Gate : CheckStep(g)

GateSpec == GateInit /\ [][GateNext]_gvars

--------------------------------------------------------------------------------
(* Properties *)

GateTypeOK ==
  /\ TypeOK
  /\ gate \in [Gate -> [step : {"idle", "auths", "decide", "verified", "allowed"},
                        target : Tid \cup {NoTarget}, rows : SUBSET Row, by : Row,
                        shut : BOOLEAN]]

\* The kill switch at the gate: a check that began after Revoke expired the target's
\* authorizations, with no admin's grant before it read them, is answered in favour
\* only of a customer target and only on challenges its owner proved.  Whatever
\* state the revocation, a verification or a deletion is in, a program target and
\* an admin's attestation are refused, by CheckVerified and by CheckScope.
GateHonoursKill ==
  \A g \in Gate : Answered(gate[g]) /\ gate[g].shut =>
    /\ source[gate[g].target] = "customer"
    /\ \A row \in gate[g].rows : row.state = "proved"

================================================================================
