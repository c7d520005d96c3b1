------------------------- MODULE TargetLifecycleProofs -------------------------
(***************************************************************************)
(* What TLAPS proves of TargetLifecycle, for every set of targets, methods *)
(* and request slots and every bound: its safety invariants.               *)
(*                                                                         *)
(* The inductive invariant has a part about the tables alone (DataInv) and *)
(* a part about the requests in flight.  A statement is shown once to keep *)
(* DataInv and whatever a request may have read before it (Stable); an     *)
(* action then only has to account for its own request (RequestStep).      *)
(***************************************************************************)
EXTENDS TargetLifecycle, TLAPS

--------------------------------------------------------------------------------
(* The inductive invariant *)

\* A source is given once, together with the row of the target, and no target is
\* revoked before.
SourceOK ==
  \A t \in Tid : /\ status[t] = "absent" <=> source[t] = "none"
                 /\ killed[t] => source[t] # "none"

\* A row in use keeps the target it was inserted for.
RowsOK ==
  \A i \in AuthId : auths[i].state # Unused =>
    /\ auths[i].target \in Tid
    /\ source[auths[i].target] # "none"
    /\ auths[i].state = "gone" => status[auths[i].target] = "deleted"

DataInv ==
  /\ TablesOK
  /\ SourceOK
  /\ RowsOK
  /\ ProgramNeverDemoted
  /\ KillSwitchHolds
  /\ OnlyChallengesAreProved

\* The steps a program target's source keeps a request out of.
CustomerStep == VerifyStep \cup {"issue_default", "get_latest"}

\* The steps of a request that holds a row it read or inserted.
RowStep == (VerifyStep \ {"verify_issue"}) \cup {"authorize_mark"}

\* What a request may rely on, however long ago it read it: its target's source
\* and its row's target and method are never updated, evidence never withdrawn.
Fine(c) ==
  /\ c.step # "idle" => c.target \in Tid /\ source[c.target] # "none"
  /\ c.step \in CustomerStep => source[c.target] = "customer"
  /\ c.step \in {"program_attest", "program_undo"} => source[c.target] = "program"
  /\ c.step \in RowStep => /\ c.row \in AuthId
                           /\ auths[c.row].state # Unused
                           /\ auths[c.row].target = c.target
  /\ c.step = "verify_mark" => auths[c.row].method \in ChallengeMethod
  /\ c.step \in {"verify_finish", "authorize_finish"} /\ Exists(c.target) => HasEvidence(c.target)

IInv ==
  /\ TypeOK
  /\ DataInv
  /\ \A r \in Req : Fine(call[r])
  /\ VerifiedHasRow
  /\ VerifyingIsOwned

--------------------------------------------------------------------------------
(* What no statement takes back *)

Stable ==
  /\ \A t \in Tid : source[t] # "none" => source'[t] = source[t] /\ (Exists(t)' => Exists(t))
  /\ \A i \in AuthId : auths[i].state # Unused =>
       /\ auths'[i].state # Unused
       /\ auths'[i].target = auths[i].target
       /\ auths'[i].method = auths[i].method
  /\ \A t \in Tid : HasEvidence(t) /\ Exists(t)' => HasEvidence(t)'

\* A request that does not move stays fine.
LEMMA StaysFine ==
  ASSUME Stable, DataInv, NEW c \in Call, Fine(c)
  PROVE  Fine(c)'
<1>1. c.step # "idle" => (c.target \in Tid /\ source[c.target] # "none")'
  BY DEF Stable, Fine
<1>2. c.step \in RowStep => (/\ c.row \in AuthId
                             /\ auths[c.row].state # Unused
                             /\ auths[c.row].target = c.target)'
  BY DEF Stable, Fine, AuthId
<1>3. (c.step = "verify_mark" => auths[c.row].method \in ChallengeMethod)'
  BY DEF Stable, Fine, RowStep, VerifyStep, AuthId
<1>4. (c.step \in {"verify_finish", "authorize_finish"} /\ Exists(c.target)
         => HasEvidence(c.target))'
  <2> SUFFICES ASSUME c.step \in {"verify_finish", "authorize_finish"}, Exists(c.target)'
               PROVE  HasEvidence(c.target)'
    OBVIOUS
  <2>1. c.target \in Tid /\ source[c.target] # "none"
    BY DEF Fine
  <2>2. HasEvidence(c.target)
    BY <2>1 DEF Stable, Fine
  <2> QED BY <2>1, <2>2 DEF Stable
<1>5. (c.step \in CustomerStep => source[c.target] = "customer")'
  BY DEF Stable, Fine, CustomerStep, VerifyStep
<1>6. (c.step \in {"program_attest", "program_undo"} => source[c.target] = "program")'
  BY DEF Stable, Fine
<1> QED BY <1>1, <1>2, <1>3, <1>4, <1>5, <1>6 DEF Fine, AuthId

--------------------------------------------------------------------------------
(* The statements *)

Data == <<status, source, auths, killed>>

LEMMA NoWrite ==
  ASSUME DataInv, UNCHANGED Data
  PROVE  DataInv' /\ Stable
<1>1. DataInv'
  BY DEF Data, DataInv, TablesOK, SourceOK, RowsOK, ProgramNeverDemoted, KillSwitchHolds,
         OnlyChallengesAreProved, Exists, RowsOf
<1>2. Stable
  BY DEF Data, Stable, Exists, HasEvidence, RowsOf
<1> QED BY <1>1, <1>2

LEMMA StatusWrite ==
  ASSUME DataInv, NEW t \in Tid, source[t] # "none",
         NEW s \in {"unverified", "verifying", "verified", "revoked"},
         source[t] = "program" => s \in {"verified", "revoked"},
         UpdateStatus(t, s), UNCHANGED <<source, auths, killed>>
  PROVE  DataInv' /\ Stable
<1>1. \A u \in Tid : /\ u # t => status'[u] = status[u]
                     /\ Exists(u)' <=> Exists(u)
                     /\ status'[u] = status[u] \/ (u = t /\ Exists(t) /\ status'[t] = s)
  BY DEF UpdateStatus, Exists, DataInv, TablesOK, Status
<1>2. TablesOK'
  BY <1>1 DEF DataInv, TablesOK, UpdateStatus, Status, Row
<1>3. SourceOK' /\ RowsOK' /\ ProgramNeverDemoted'
  BY <1>1 DEF DataInv, SourceOK, RowsOK, ProgramNeverDemoted, Exists
<1>4. KillSwitchHolds' /\ OnlyChallengesAreProved'
  BY DEF DataInv, KillSwitchHolds, OnlyChallengesAreProved, RowsOf
<1>5. Stable
  BY <1>1 DEF Stable, HasEvidence, RowsOf
<1> QED BY <1>2, <1>3, <1>4, <1>5 DEF DataInv

\* The insert of a target: its source decides its first status.
LEMMA TargetInsert ==
  ASSUME DataInv, NEW t \in Tid, status[t] = "absent",
         NEW src, NEW s,
         (src = "customer" /\ s = "unverified") \/ (src = "program" /\ s = "verified"),
         status' = [status EXCEPT ![t] = s], source' = [source EXCEPT ![t] = src],
         UNCHANGED <<auths, killed>>
  PROVE  DataInv' /\ Stable /\ source'[t] = src
<1>1. source[t] = "none" /\ \A i \in AuthId : auths[i].state # Unused => auths[i].target # t
  BY DEF DataInv, SourceOK, RowsOK
<1>2. src \in {"customer", "program"} /\ s \in {"unverified", "verified"}
  OBVIOUS
<1>3. TablesOK'
  BY <1>1, <1>2 DEF DataInv, TablesOK, Status, Source, Exists, Live, Unused, Active
<1>4. SourceOK' /\ RowsOK' /\ ProgramNeverDemoted'
  BY <1>1, <1>2 DEF DataInv, TablesOK, SourceOK, RowsOK, ProgramNeverDemoted
<1>5. KillSwitchHolds'
  BY <1>1, <1>2 DEF DataInv, TablesOK, KillSwitchHolds, RowsOf, Live, Active, Unused
<1>6. OnlyChallengesAreProved'
  BY <1>1, <1>2 DEF DataInv, TablesOK, RowsOK, OnlyChallengesAreProved, Unused
<1>7. Stable
  BY <1>1, <1>2 DEF DataInv, TablesOK, Stable, Exists, HasEvidence, RowsOf
<1>8. source'[t] = src
  BY DEF DataInv, TablesOK
<1> QED BY <1>3, <1>4, <1>5, <1>6, <1>7, <1>8 DEF DataInv

\* The insert of a row: pending, or an admin's grant.
LEMMA AuthInsert ==
  ASSUME DataInv, NEW t \in Tid, NEW i \in AuthId,
         NEW m \in CustomerMethod \cup AdminMethod, NEW s \in {"pending", "attested"},
         InsertAuth(i, t, m, s), UNCHANGED <<status, source>>,
         \/ s = "pending" /\ UNCHANGED killed
         \/ s = "attested" /\ Granted(t)
  PROVE  /\ DataInv' /\ Stable
         /\ auths'[i] = [target |-> t, method |-> m, state |-> s]
         /\ s = "attested" => HasEvidence(t)'
<1> DEFINE new == [target |-> t, method |-> m, state |-> s]
<1>1. /\ Exists(t) /\ auths[i].state = Unused
      /\ auths' = [auths EXCEPT ![i] = new]
  BY DEF InsertAuth, NextId
<1>2. new \in Row /\ s \in Live
  BY DEF Row, AuthState, Live, Active
<1>3. auths' \in [AuthId -> Row] /\ auths'[i] = new /\ \A j \in AuthId \ {i} : auths'[j] = auths[j]
  BY <1>1, <1>2 DEF DataInv, TablesOK
<1>4. \A u \in Tid : killed'[u] => killed[u] /\ (u = t => s = "pending")
  BY DEF Granted, DataInv, TablesOK
<1>5. killed' \in [Tid -> BOOLEAN]
  BY DEF Granted, DataInv, TablesOK
<1>6. source[t] # "none"
  BY <1>1 DEF DataInv, SourceOK, Exists
<1>7. TablesOK'
  BY <1>1, <1>3, <1>5 DEF DataInv, TablesOK, Exists
<1>8. SourceOK' /\ ProgramNeverDemoted'
  BY <1>4 DEF DataInv, SourceOK, ProgramNeverDemoted
<1>9. RowsOK'
  BY <1>3, <1>6 DEF DataInv, RowsOK
<1>10. KillSwitchHolds'
  BY <1>3, <1>4 DEF DataInv, KillSwitchHolds, RowsOf, Active
<1>11. OnlyChallengesAreProved'
  BY <1>3 DEF DataInv, OnlyChallengesAreProved
<1>12. Stable
  BY <1>1, <1>3, <1>2 DEF Stable, Exists, HasEvidence, RowsOf, Unused, Live, Active
<1>13. s = "attested" => HasEvidence(t)'
  BY <1>2, <1>3 DEF HasEvidence, RowsOf
<1> QED BY <1>3, <1>7, <1>8, <1>9, <1>10, <1>11, <1>12, <1>13 DEF DataInv

\* A row changes its state and nothing else, and becomes active only by a proved
\* challenge of a customer target or by an admin's grant.
LEMMA RowWrite ==
  ASSUME DataInv, NEW i \in AuthId, auths[i].state # Unused,
         NEW t \in Tid, t = auths[i].target, NEW s \in Active \cup {"lapsed"},
         MarkVerified(i, s),
         s = "proved" => auths[i].method \in ChallengeMethod /\ source[t] = "customer",
         UNCHANGED <<status, source>>,
         \/ s # "attested" /\ UNCHANGED killed
         \/ s = "attested" /\ Granted(t)
  PROVE  /\ DataInv' /\ Stable
         /\ Exists(t) /\ auths[i].state \in Live => HasEvidence(t)'
<1>1. t \in Tid /\ source[t] # "none"
  BY DEF DataInv, RowsOK
<1>2. /\ auths' \in [AuthId -> Row]
      /\ \A j \in AuthId : /\ auths'[j].target = auths[j].target
                           /\ auths'[j].method = auths[j].method
                           /\ auths'[j].state = auths[j].state
                                \/ (j = i /\ auths[i].state \in Live /\ auths'[i].state = s)
  BY DEF MarkVerified, DataInv, TablesOK, Row, AuthState, Live, Active
<1>3. \A u \in Tid : killed'[u] => killed[u] /\ (u = t => s # "attested")
  BY <1>1 DEF Granted, DataInv, TablesOK
<1>4. killed' \in [Tid -> BOOLEAN]
  BY DEF Granted, DataInv, TablesOK
<1>5. TablesOK'
  BY <1>2, <1>4 DEF DataInv, TablesOK, Exists
<1>6. SourceOK' /\ ProgramNeverDemoted'
  BY <1>3 DEF DataInv, SourceOK, ProgramNeverDemoted
<1>7. RowsOK'
  BY <1>2 DEF DataInv, RowsOK, Live, Active, Unused
<1>8. KillSwitchHolds'
  BY <1>1, <1>2, <1>3 DEF DataInv, KillSwitchHolds, RowsOf, Active, Live
<1>9. OnlyChallengesAreProved'
  BY <1>2 DEF DataInv, OnlyChallengesAreProved
<1>10. Stable
  BY <1>2 DEF Stable, Exists, HasEvidence, RowsOf, Unused, Live, Active
<1>11. Exists(t) /\ auths[i].state \in Live => HasEvidence(t)'
  <2> SUFFICES ASSUME auths[i].state \in Live PROVE HasEvidence(t)'
    OBVIOUS
  <2>1. auths'[i].state = s /\ auths'[i].target = t
    BY DEF MarkVerified, DataInv, TablesOK, Row
  <2> QED BY <2>1 DEF HasEvidence, RowsOf, Active, Live
<1> QED BY <1>5, <1>6, <1>7, <1>8, <1>9, <1>10, <1>11 DEF DataInv

\* The kill switch: afterwards no row of the target is active.
LEMMA ExpireWrite ==
  ASSUME DataInv, NEW t \in Tid, source[t] # "none",
         ExpireActive(t), killed' = [killed EXCEPT ![t] = TRUE], UNCHANGED <<status, source>>
  PROVE  DataInv' /\ Stable
<1>1. /\ auths' \in [AuthId -> Row]
      /\ \A j \in AuthId : /\ auths'[j].target = auths[j].target
                           /\ auths'[j].method = auths[j].method
                           /\ auths[j].target # t \/ auths[j].state \notin Active =>
                                auths'[j].state = auths[j].state
                           /\ auths[j].target = t /\ auths[j].state \in Active =>
                                auths'[j].state = "lapsed"
  BY DEF ExpireActive, RowsOf, DataInv, TablesOK, Row, AuthState, Live, Active
<1>2. killed' \in [Tid -> BOOLEAN] /\ \A u \in Tid : u # t => killed'[u] = killed[u]
  BY DEF DataInv, TablesOK
<1>3. \A j \in AuthId : (auths'[j].state \in Live => auths[j].state \in Live)
                        /\ (auths[j].state = Unused <=> auths'[j].state = Unused)
                        /\ (auths'[j].state = "gone" <=> auths[j].state = "gone")
                        /\ (auths'[j].state = "proved" => auths[j].state = "proved")
                        /\ (auths[j].state \in Live => auths'[j].state \in Live)
                        /\ (auths'[j].state = "pending" <=> auths[j].state = "pending")
  BY <1>1 DEF Live, Active, Unused
<1>4. TablesOK'
  BY <1>1, <1>2, <1>3 DEF DataInv, TablesOK, Exists
<1>5. SourceOK' /\ RowsOK' /\ ProgramNeverDemoted' /\ OnlyChallengesAreProved'
  BY <1>1, <1>2, <1>3 DEF DataInv, SourceOK, RowsOK, ProgramNeverDemoted, OnlyChallengesAreProved
<1>6. KillSwitchHolds'
  BY <1>1, <1>2, <1>3 DEF DataInv, KillSwitchHolds, RowsOf, Active
<1>7. Stable
  BY <1>1, <1>3 DEF Stable, Exists, HasEvidence, RowsOf
<1> QED BY <1>4, <1>5, <1>6, <1>7 DEF DataInv

\* The delete of a target and, by cascade, of its rows.
LEMMA TargetDelete ==
  ASSUME DataInv, NEW t \in Tid, Exists(t), DropTarget(t), UNCHANGED <<source, killed>>
  PROVE  DataInv' /\ Stable
<1>1. /\ auths' \in [AuthId -> Row]
      /\ \A j \in AuthId : /\ auths'[j].target = auths[j].target
                           /\ auths'[j].method = auths[j].method
                           /\ auths[j].target # t \/ auths[j].state \notin Live =>
                                auths'[j].state = auths[j].state
                           /\ auths[j].target = t /\ auths[j].state \in Live =>
                                auths'[j].state = "gone"
  BY DEF DropTarget, RowsOf, DataInv, TablesOK, Row, AuthState
<1>2. /\ status' \in [Tid -> Status] /\ status'[t] = "deleted"
      /\ \A u \in Tid : u # t => status'[u] = status[u]
  BY DEF DropTarget, DataInv, TablesOK, Status
<1>3. \A j \in AuthId : /\ auths'[j].state \in Live => auths[j].target # t /\ auths'[j].state = auths[j].state
                        /\ auths[j].state # Unused => auths'[j].state # Unused
                        /\ auths'[j].state # Unused => auths[j].state # Unused
                        /\ auths'[j].state = "proved" => auths[j].state = "proved"
                        /\ auths'[j].state = "gone" => auths[j].state = "gone" \/ auths[j].target = t
  BY <1>1 DEF Live, Active, Unused
<1>4. TablesOK'
  BY <1>1, <1>2, <1>3 DEF DataInv, TablesOK, Exists
<1>5. SourceOK' /\ ProgramNeverDemoted'
  BY <1>2 DEF DataInv, SourceOK, ProgramNeverDemoted, Exists
<1>6. RowsOK'
  BY <1>1, <1>2, <1>3 DEF DataInv, RowsOK
<1>7. KillSwitchHolds'
  BY <1>1, <1>3 DEF DataInv, KillSwitchHolds, RowsOf
<1>8. OnlyChallengesAreProved'
  BY <1>1, <1>3 DEF DataInv, OnlyChallengesAreProved
<1>9. Stable
  BY <1>1, <1>2, <1>3 DEF Stable, Exists, HasEvidence, RowsOf
<1> QED BY <1>4, <1>5, <1>6, <1>7, <1>8, <1>9 DEF DataInv

--------------------------------------------------------------------------------
(* The requests *)

Moved(r) == call' \in [Req -> Call] /\ \A q \in Req \ {r} : call'[q] = call[q]

LEMMA Moves ==
  ASSUME TypeOK, NEW r \in Req
  PROVE  /\ \A s \in Step : Goto(r, s) =>
              Moved(r) /\ call'[r] = [step |-> s, target |-> call[r].target, row |-> call[r].row]
         /\ \A s \in Step, i \in AuthId : Hold(r, s, i) =>
              Moved(r) /\ call'[r] = [step |-> s, target |-> call[r].target, row |-> i]
         /\ \A s \in Step, t \in Tid : Begin(r, s, t) =>
              Moved(r) /\ call'[r] = [step |-> s, target |-> t, row |-> 0]
         /\ Return(r) => Moved(r) /\ call'[r] = Idle
<1> USE BoundAssumption DEF TypeOK, Call, Moved
<1>1. ASSUME NEW s \in Step, Goto(r, s)
      PROVE  Moved(r) /\ call'[r] = [step |-> s, target |-> call[r].target, row |-> call[r].row]
  BY <1>1 DEF Goto
<1>2. ASSUME NEW s \in Step, NEW i \in AuthId, Hold(r, s, i)
      PROVE  Moved(r) /\ call'[r] = [step |-> s, target |-> call[r].target, row |-> i]
  <2>1. i \in 0..MaxAuths
    BY DEF AuthId
  <2> QED BY <1>2, <2>1 DEF Hold
<1>3. ASSUME NEW s \in Step, NEW t \in Tid, Begin(r, s, t)
      PROVE  Moved(r) /\ call'[r] = [step |-> s, target |-> t, row |-> 0]
  BY <1>3 DEF Begin
<1>4. Return(r) => Moved(r) /\ call'[r] = Idle
  BY DEF Return, Idle, Step
<1> QED BY <1>1, <1>2, <1>3, <1>4

FaultsMove == faults' \in 0..MaxFaults /\ faults' >= faults

\* What a moving request owes the last two parts of the invariant: it accounts for
\* the verified and verifying targets it makes or leaves behind.
Accounts(r) ==
  \A t \in Tid :
    /\ status'[t] = "verified" =>
         \/ status[t] = "verified"
         \/ HasEvidence(t)'
         \/ source'[t] = "program" /\ Creating(call'[r], t)
    /\ status'[t] = "verifying" => status[t] = "verifying" \/ Verifying(call'[r], t)
    /\ \/ faults' > 0
       \/ /\ Verifying(call[r], t) /\ status'[t] = "verifying" => Verifying(call'[r], t)
          /\ Creating(call[r], t) /\ status'[t] = "verified" =>
               Creating(call'[r], t) \/ HasEvidence(t)'

LEMMA RequestStep ==
  ASSUME IInv, NEW r \in Req, Moved(r), FaultsMove,
         DataInv', Stable, Fine(call[r])', Accounts(r)
  PROVE  IInv'
<1>1. TypeOK'
  BY DEF DataInv, TypeOK, Moved, FaultsMove
<1>2. ASSUME NEW q \in Req PROVE Fine(call[q])'
  <2>1. CASE q = r
    BY <2>1
  <2>2. CASE q # r
    <3>1. PICK c \in Call : c = call[q]
      BY DEF IInv, TypeOK
    <3>2. Fine(c)'
      BY <3>1, StaysFine DEF IInv
    <3>3. call'[q] = c
      BY <2>2, <3>1 DEF Moved
    <3> QED BY <3>2, <3>3 DEF Fine, Exists, HasEvidence, RowsOf
  <2> QED BY <2>1, <2>2
<1>3. VerifiedHasRow'
  <2> SUFFICES ASSUME NEW t \in Tid, status'[t] = "verified"
               PROVE  \/ HasEvidence(t)'
                      \/ /\ source'[t] = "program"
                         /\ faults' > 0 \/ \E q \in Req : Creating(call'[q], t)
    BY DEF VerifiedHasRow, Creating
  <2>1. CASE status[t] = "verified"
    <3>1. source'[t] = source[t] /\ Exists(t)' /\ Exists(t)
      BY <2>1 DEF Stable, IInv, DataInv, SourceOK, Exists
    <3>2. CASE HasEvidence(t)
      BY <3>1, <3>2 DEF Stable
    <3>3. CASE source[t] = "program" /\ faults > 0
      BY <3>1, <3>3 DEF FaultsMove, IInv, TypeOK
    <3>4. ASSUME source[t] = "program", NEW q \in Req, Creating(call[q], t)
          PROVE  \/ HasEvidence(t)'
                 \/ faults' > 0 \/ \E p \in Req : Creating(call'[p], t)
      BY <3>4 DEF Accounts, Moved
    <3> QED BY <2>1, <3>1, <3>2, <3>3, <3>4 DEF IInv, VerifiedHasRow
  <2>2. CASE status[t] # "verified"
    BY <2>2 DEF Accounts
  <2> QED BY <2>1, <2>2
<1>4. VerifyingIsOwned'
  <2> SUFFICES ASSUME faults' = 0, NEW t \in Tid, status'[t] = "verifying"
               PROVE  \E q \in Req : Verifying(call'[q], t)
    BY DEF VerifyingIsOwned, Verifying
  <2>1. faults = 0
    BY DEF FaultsMove, IInv, TypeOK
  <2>2. CASE status[t] = "verifying"
    <3>1. PICK q \in Req : Verifying(call[q], t)
      BY <2>1, <2>2 DEF IInv, VerifyingIsOwned
    <3> QED BY <3>1 DEF Accounts, Moved
  <2>3. CASE status[t] # "verifying"
    BY <2>3 DEF Accounts
  <2> QED BY <2>2, <2>3
<1> QED BY <1>1, <1>2, <1>3, <1>4 DEF IInv

--------------------------------------------------------------------------------
(* Requests that arrive, read, or return: no table is written *)

LEMMA Arrival ==
  ASSUME IInv, NEW r \in Req, NEW t \in Tid, Exists(t),
         NEW s \in {"get_latest", "verify_latest", "authorize_latest", "revoke_expire"},
         s = "get_latest" => source[t] # "program",
         Begin(r, s, t), UNCHANGED Data, UNCHANGED faults
  PROVE  IInv'
<1>1. Moved(r) /\ call'[r] = [step |-> s, target |-> t, row |-> 0] /\ call[r].step = "idle"
  BY Moves DEF IInv, Step, VerifyStep, Begin, At
<1>2. DataInv' /\ Stable
  BY NoWrite DEF IInv
<1>3. source'[t] \in {"customer", "program"} /\ source'[t] = source[t]
  BY DEF Data, IInv, DataInv, TablesOK, SourceOK, Source, Exists
<1>4. Fine(call[r])'
  BY <1>1, <1>3 DEF Fine, CustomerStep, RowStep, VerifyStep
<1>5. FaultsMove
  BY BoundAssumption DEF FaultsMove, IInv, TypeOK
<1>6. Accounts(r)
  BY <1>1 DEF Accounts, Creating, Verifying, Data
<1> QED BY <1>1, <1>2, <1>4, <1>5, <1>6, RequestStep

LEMMA Reading ==
  ASSUME IInv, NEW r \in Req, Moved(r), FaultsMove, UNCHANGED Data,
         call'[r].target = call[r].target, call[r].step # "idle",
         call'[r].step # "idle", Fine(call'[r]),
         \/ faults' > 0
         \/ /\ \A t \in Tid : Verifying(call[r], t) => Verifying(call'[r], t)
            /\ \A t \in Tid : Creating(call[r], t) => Creating(call'[r], t) \/ ~Exists(t)
  PROVE  IInv'
<1>1. DataInv' /\ Stable
  BY NoWrite DEF IInv
<1>2. Fine(call[r])'
  BY DEF Fine, Data, Exists, HasEvidence, RowsOf
<1>3. Accounts(r)
  BY DEF Accounts, Data, Exists
<1> QED BY <1>1, <1>2, <1>3, RequestStep

LEMMA Returning ==
  ASSUME IInv, NEW r \in Req, Return(r), FaultsMove, UNCHANGED Data,
         \/ faults' > 0
         \/ call[r].step \in {"issue_default", "get_latest", "verify_latest", "verify_issue",
                             "verify_switch", "verify_refetch", "authorize_insert"}
  PROVE  IInv'
<1>1. Moved(r) /\ call'[r] = Idle
  BY Moves DEF IInv
<1>2. DataInv' /\ Stable
  BY NoWrite DEF IInv
<1>3. Fine(call[r])'
  BY <1>1 DEF Fine, Idle, CustomerStep, RowStep, VerifyStep
<1>4. Accounts(r)
  BY DEF Accounts, Data, Creating, Verifying
<1> QED BY <1>1, <1>2, <1>3, <1>4, RequestStep

LEMMA ReadSteps ==
  ASSUME IInv, NEW r \in Req,
         \/ GetLatestNone(r) \/ VerifyNone(r) \/ \E i \in AuthId : VerifyFound(r, i)
         \/ VerifyPass(r) \/ VerifyFail(r) \/ ProgramNotAttested(r)
         \/ (\E i \in AuthId : AuthorizePending(r, i)) \/ AuthorizeOther(r)
  PROVE  IInv'
<1> DEFINE c == call[r]
<1> USE DEF At
<1>1. Fine(c) /\ TypeOK
  BY DEF IInv
<1>2. (UNCHANGED faults \/ Fail) => FaultsMove
  BY BoundAssumption, <1>1 DEF FaultsMove, TypeOK, Fail
<1>3. CASE GetLatestNone(r)
  <2>1. Moved(r) /\ call'[r] = [step |-> "issue_default", target |-> c.target, row |-> c.row]
    BY <1>1, <1>3, Moves DEF GetLatestNone, Step
  <2>2. Fine(call'[r])
    BY <1>1, <1>3, <2>1 DEF Fine, GetLatestNone, CustomerStep, RowStep, VerifyStep
  <2> QED BY <1>2, <1>3, <2>1, <2>2, Reading
          DEF GetLatestNone, NoneOrFail, Data, Verifying, Creating
<1>4. CASE VerifyNone(r)
  <2>1. Moved(r) /\ call'[r] = [step |-> "verify_issue", target |-> c.target, row |-> c.row]
    BY <1>1, <1>4, Moves DEF VerifyNone, Step, VerifyStep
  <2>2. c.target \in Tid /\ source[c.target] = "customer"
    BY <1>1, <1>4 DEF Fine, VerifyNone, AdminAuthorized, TypeOK, TablesOK, Source
  <2>3. Fine(call'[r])
    BY <2>1, <2>2 DEF Fine, CustomerStep, RowStep, VerifyStep
  <2> QED BY <1>2, <1>4, <2>1, <2>3, Reading
          DEF VerifyNone, NoneOrFail, Data, Verifying, Creating
<1>5. ASSUME NEW i \in AuthId, VerifyFound(r, i) PROVE IInv'
  <2>1. PICK s \in {"verify_begin", "verify_switch"} : Hold(r, s, i)
    BY <1>5 DEF VerifyFound
  <2>2. Moved(r) /\ call'[r] = [step |-> s, target |-> c.target, row |-> i]
    BY <1>1, <2>1, Moves DEF Step, VerifyStep
  <2>3. c.target \in Tid /\ source[c.target] = "customer"
    BY <1>1, <1>5 DEF Fine, VerifyFound, AdminAuthorized, TypeOK, TablesOK, Source
  <2>4. auths[i].target = c.target /\ auths[i].state # Unused
    BY <1>5 DEF VerifyFound, IsLatest, RowsOf, Live, Active, Unused
  <2>5. Fine(call'[r])
    BY <2>2, <2>3, <2>4 DEF Fine, CustomerStep, RowStep, VerifyStep
  <2> QED BY <1>2, <1>5, <2>2, <2>5, Reading DEF VerifyFound, Data, Verifying, Creating
<1>6. CASE VerifyPass(r)
  <2>1. Moved(r) /\ call'[r] = [step |-> "verify_mark", target |-> c.target, row |-> c.row]
    BY <1>1, <1>6, Moves DEF VerifyPass, Step, VerifyStep
  <2>2. Fine(call'[r])
    BY <1>1, <1>6, <2>1 DEF Fine, VerifyPass, RunCheckMayPass, CustomerStep, RowStep, VerifyStep
  <2> QED BY <1>2, <1>6, <2>1, <2>2, Reading DEF VerifyPass, Data, Verifying, Creating
<1>7. CASE VerifyFail(r)
  <2>1. Moved(r) /\ call'[r] = [step |-> "verify_demote", target |-> c.target, row |-> c.row]
    BY <1>1, <1>7, Moves DEF VerifyFail, Step, VerifyStep
  <2>2. Fine(call'[r])
    BY <1>1, <1>7, <2>1 DEF Fine, VerifyFail, CustomerStep, RowStep, VerifyStep
  <2> QED BY <1>2, <1>7, <2>1, <2>2, Reading DEF VerifyFail, Data, Verifying, Creating
<1>8. CASE ProgramNotAttested(r)
  <2>1. Moved(r) /\ call'[r] = [step |-> "program_undo", target |-> c.target, row |-> c.row]
    BY <1>1, <1>8, Moves DEF ProgramNotAttested, Step
  <2>2. Fine(call'[r])
    BY <1>1, <1>8, <2>1 DEF Fine, ProgramNotAttested, CustomerStep, RowStep, VerifyStep
  <2> QED BY <1>2, <1>8, <2>1, <2>2, Reading
          DEF ProgramNotAttested, Data, Verifying, Creating
<1>9. ASSUME NEW i \in AuthId, AuthorizePending(r, i) PROVE IInv'
  <2>1. Moved(r) /\ call'[r] = [step |-> "authorize_mark", target |-> c.target, row |-> i]
    BY <1>1, <1>9, Moves DEF AuthorizePending, Step
  <2>2. auths[i].target = c.target /\ auths[i].state # Unused
    BY <1>9 DEF AuthorizePending, IsLatest, RowsOf, Unused
  <2>3. Fine(call'[r])
    BY <1>1, <1>9, <2>1, <2>2 DEF Fine, AuthorizePending, CustomerStep, RowStep, VerifyStep
  <2> QED BY <1>2, <1>9, <2>1, <2>3, Reading DEF AuthorizePending, Data, Verifying, Creating
<1>10. CASE AuthorizeOther(r)
  <2>1. Moved(r) /\ call'[r] = [step |-> "authorize_insert", target |-> c.target, row |-> c.row]
    BY <1>1, <1>10, Moves DEF AuthorizeOther, Step
  <2>2. Fine(call'[r])
    BY <1>1, <1>10, <2>1 DEF Fine, AuthorizeOther, CustomerStep, RowStep, VerifyStep
  <2> QED BY <1>2, <1>10, <2>1, <2>2, Reading
          DEF AuthorizeOther, NoneOrFail, Data, Verifying, Creating
<1> QED BY <1>3, <1>4, <1>5, <1>6, <1>7, <1>8, <1>9, <1>10

--------------------------------------------------------------------------------
(* Requests that write *)

LEMMA NoFault == ASSUME IInv, UNCHANGED faults PROVE FaultsMove
BY BoundAssumption DEF IInv, TypeOK, FaultsMove

LEMMA StatusSteps ==
  ASSUME IInv, NEW r \in Req,
         \/ VerifyBegin(r) \/ VerifyDemote(r) \/ VerifyFinish(r)
         \/ AuthorizeFinish(r) \/ RevokeFinish(r)
  PROVE  IInv'
<1> USE DEF At, CustomerStep, RowStep, VerifyStep
<1>1. Fine(call[r]) /\ TypeOK /\ DataInv
  BY DEF IInv
<1>2. PICK t \in Tid : t = call[r].target /\ source[t] # "none"
  BY <1>1 DEF Fine, VerifyBegin, VerifyDemote, VerifyFinish, AuthorizeFinish, RevokeFinish
<1>3. \A s : UpdateStatus(t, s) => \A u \in Tid : status'[u] = status[u] \/ (u = t /\ Exists(t) /\ status'[u] = s)
  BY <1>1 DEF UpdateStatus, TypeOK, TablesOK
<1>4. \A s : UpdateStatus(t, s) /\ Exists(t) => status'[t] = s
  BY <1>1, <1>2 DEF UpdateStatus, TypeOK, TablesOK
<1>5. CASE VerifyBegin(r)
  <2>1. Moved(r) /\ call'[r] = [step |-> "verify_check", target |-> t, row |-> call[r].row]
    BY <1>2, <1>1, <1>5, Moves DEF VerifyBegin, Step
  <2>2. DataInv' /\ Stable
    BY <1>1, <1>2, <1>5, StatusWrite DEF VerifyBegin, Fine
  <2>3. Fine(call[r])'
    BY <1>2, <1>1, <1>5, <2>1 DEF Fine, VerifyBegin
  <2>4. Accounts(r)
    BY <1>2, <1>3, <1>5, <2>1 DEF Accounts, VerifyBegin, Verifying, Creating
  <2> QED BY <1>2, <1>5, <2>1, <2>2, <2>3, <2>4, NoFault, RequestStep DEF VerifyBegin
<1>6. CASE VerifyDemote(r)
  <2>1. Moved(r) /\ call'[r] = Idle
    BY <1>2, <1>1, <1>6, Moves DEF VerifyDemote
  <2>2. DataInv' /\ Stable
    BY <1>1, <1>2, <1>6, StatusWrite DEF VerifyDemote, Demote, Fine
  <2>3. Fine(call[r])'
    BY <2>1 DEF Fine, Idle
  <2>4. Accounts(r)
    BY <1>2, <1>3, <1>4, <1>6, <2>1 DEF Accounts, VerifyDemote, Demote, Verifying, Creating, Exists
  <2> QED BY <1>2, <1>6, <2>1, <2>2, <2>3, <2>4, NoFault, RequestStep DEF VerifyDemote
<1>7. CASE VerifyFinish(r)
  <2>1. Moved(r) /\ call'[r] = [step |-> "verify_refetch", target |-> t, row |-> call[r].row]
    BY <1>2, <1>1, <1>7, Moves DEF VerifyFinish, Step
  <2>2. DataInv' /\ Stable
    BY <1>1, <1>2, <1>7, StatusWrite DEF VerifyFinish, Fine
  <2>3. Fine(call[r])'
    BY <1>2, <1>1, <1>7, <2>1 DEF Fine, VerifyFinish
  <2>4. status'[t] = "verified" => HasEvidence(t)'
    <3>1. Exists(t) => HasEvidence(t)
      BY <1>2, <1>1, <1>7 DEF Fine, VerifyFinish
    <3>2. status'[t] = "verified" => Exists(t) /\ Exists(t)'
      BY <1>2, <1>3, <1>7 DEF Exists, VerifyFinish
    <3> QED BY <1>2, <2>2, <3>1, <3>2 DEF Stable
  <2>5. Accounts(r)
    BY <1>2, <1>3, <1>4, <1>7, <2>1, <2>4 DEF Accounts, VerifyFinish, Verifying, Creating, Exists
  <2> QED BY <1>2, <1>7, <2>1, <2>2, <2>3, <2>5, NoFault, RequestStep DEF VerifyFinish
<1>8. CASE AuthorizeFinish(r)
  <2>1. Moved(r) /\ call'[r] = Idle
    BY <1>2, <1>1, <1>8, Moves DEF AuthorizeFinish
  <2>2. DataInv' /\ Stable
    BY <1>1, <1>2, <1>8, StatusWrite DEF AuthorizeFinish
  <2>3. Fine(call[r])'
    BY <2>1 DEF Fine, Idle
  <2>4. status'[t] = "verified" => HasEvidence(t)'
    <3>1. Exists(t) => HasEvidence(t)
      BY <1>2, <1>1, <1>8 DEF Fine, AuthorizeFinish
    <3>2. status'[t] = "verified" => Exists(t) /\ Exists(t)'
      BY <1>2, <1>3, <1>8 DEF Exists, AuthorizeFinish
    <3> QED BY <1>2, <2>2, <3>1, <3>2 DEF Stable
  <2>5. Accounts(r)
    BY <1>2, <1>3, <1>8, <2>1, <2>4 DEF Accounts, AuthorizeFinish, Verifying, Creating
  <2> QED BY <1>2, <1>8, <2>1, <2>2, <2>3, <2>5, NoFault, RequestStep DEF AuthorizeFinish
<1>9. CASE RevokeFinish(r)
  <2>1. Moved(r) /\ call'[r] = Idle
    BY <1>2, <1>1, <1>9, Moves DEF RevokeFinish
  <2>2. DataInv' /\ Stable
    BY <1>1, <1>2, <1>9, StatusWrite DEF RevokeFinish
  <2>3. Fine(call[r])'
    BY <2>1 DEF Fine, Idle
  <2>4. Accounts(r)
    BY <1>2, <1>3, <1>9, <2>1 DEF Accounts, RevokeFinish, Verifying, Creating
  <2> QED BY <1>2, <1>9, <2>1, <2>2, <2>3, <2>4, NoFault, RequestStep DEF RevokeFinish
<1> QED BY <1>5, <1>6, <1>7, <1>8, <1>9

LEMMA InsertSteps ==
  ASSUME IInv, NEW r \in Req,
         \/ IssueDefault(r) \/ VerifyIssue(r) \/ VerifySwitch(r)
         \/ ProgramAttest(r) \/ AuthorizeInsert(r)
  PROVE  IInv'
<1> USE DEF At, CustomerStep, RowStep, VerifyStep
<1>1. Fine(call[r]) /\ TypeOK /\ DataInv
  BY DEF IInv
<1>2. PICK t \in Tid : t = call[r].target /\ source[t] # "none"
  BY <1>1 DEF Fine, IssueDefault, VerifyIssue, VerifySwitch, ProgramAttest, AuthorizeInsert
<1>3. ASSUME NEW i \in AuthId, InsertAuth(i, t, DefaultMethod, "pending"), IssueDefault(r)
      PROVE  IInv'
  <2>1. Moved(r) /\ call'[r] = Idle
    BY <1>1, <1>3, Moves DEF IssueDefault
  <2>2. DataInv' /\ Stable
    BY <1>1, <1>3, AuthInsert, MethodAssumption DEF IssueDefault, CustomerMethod
  <2>3. Fine(call[r])'
    BY <2>1 DEF Fine, Idle
  <2>4. Accounts(r)
    BY <1>3 DEF Accounts, IssueDefault, Verifying, Creating
  <2> QED BY <1>3, <2>1, <2>2, <2>3, <2>4, NoFault, RequestStep DEF IssueDefault
<1>4. ASSUME NEW i \in AuthId, NEW m \in CustomerMethod, VerifyInsert(r, i, m),
             call[r].step \in {"verify_issue", "verify_switch"},
             UNCHANGED <<status, source, faults, killed>>
      PROVE  IInv'
  <2>1. Moved(r) /\ call'[r] = [step |-> "verify_begin", target |-> t, row |-> i]
    BY <1>1, <1>2, <1>4, Moves DEF VerifyInsert, Step
  <2>2. DataInv' /\ Stable /\ auths'[i] = [target |-> t, method |-> m, state |-> "pending"]
    BY <1>1, <1>2, <1>4, AuthInsert DEF VerifyInsert
  <2>3. Fine(call[r])'
    BY <1>1, <1>2, <1>4, <2>1, <2>2 DEF Fine, Unused, AuthId
  <2>4. Accounts(r)
    BY <1>4 DEF Accounts, Verifying, Creating
  <2> QED BY <1>4, <2>1, <2>2, <2>3, <2>4, NoFault, RequestStep
<1>5. ASSUME NEW i \in AuthId, InsertAuth(i, t, "program", "attested"), ProgramAttest(r)
      PROVE  IInv'
  <2>1. Moved(r) /\ call'[r] = Idle
    BY <1>1, <1>5, Moves DEF ProgramAttest
  <2>2. DataInv' /\ Stable /\ HasEvidence(t)'
    BY <1>1, <1>2, <1>5, AuthInsert DEF ProgramAttest, AdminMethod
  <2>3. Fine(call[r])'
    BY <2>1 DEF Fine, Idle
  <2>4. Accounts(r)
    BY <1>2, <1>5, <2>2 DEF Accounts, ProgramAttest, Verifying, Creating
  <2> QED BY <1>5, <2>1, <2>2, <2>3, <2>4, NoFault, RequestStep DEF ProgramAttest
<1>6. ASSUME NEW i \in AuthId, InsertAuth(i, t, "manual", "attested"), AuthorizeInsert(r)
      PROVE  IInv'
  <2>1. Moved(r) /\ call'[r] = [step |-> "authorize_finish", target |-> t, row |-> call[r].row]
    BY <1>1, <1>2, <1>6, Moves DEF AuthorizeInsert, Step
  <2>2. DataInv' /\ Stable /\ HasEvidence(t)'
    BY <1>1, <1>2, <1>6, AuthInsert DEF AuthorizeInsert, AdminMethod
  <2>3. Fine(call[r])'
    BY <1>2, <1>6, <2>1, <2>2 DEF Fine, AuthorizeInsert
  <2>4. Accounts(r)
    BY <1>6 DEF Accounts, AuthorizeInsert, Verifying, Creating
  <2> QED BY <1>6, <2>1, <2>2, <2>3, <2>4, NoFault, RequestStep DEF AuthorizeInsert
<1>7. CASE IssueDefault(r)
  BY <1>2, <1>3, <1>7 DEF IssueDefault
<1>8. CASE VerifyIssue(r)
  BY <1>4, <1>8 DEF VerifyIssue
<1>9. CASE VerifySwitch(r)
  BY <1>4, <1>9 DEF VerifySwitch, CustomerMethod
<1>10. CASE ProgramAttest(r)
  BY <1>2, <1>5, <1>10 DEF ProgramAttest
<1>11. CASE AuthorizeInsert(r)
  BY <1>2, <1>6, <1>11 DEF AuthorizeInsert
<1> QED BY <1>7, <1>8, <1>9, <1>10, <1>11

LEMMA MarkSteps ==
  ASSUME IInv, NEW r \in Req, VerifyMark(r) \/ AuthorizeMark(r)
  PROVE  IInv'
<1> USE DEF At, CustomerStep, RowStep, VerifyStep
<1>1. Fine(call[r]) /\ TypeOK /\ DataInv
  BY DEF IInv
<1>2. PICK t \in Tid : t = call[r].target /\ source[t] # "none"
  BY <1>1 DEF Fine, VerifyMark, AuthorizeMark
<1>3. PICK i \in AuthId : i = call[r].row /\ auths[i].state # Unused /\ auths[i].target = t
  BY <1>1, <1>2 DEF Fine, VerifyMark, AuthorizeMark
<1>4. auths[i].state = "gone" => ~Exists(t)
  BY <1>1, <1>3 DEF DataInv, RowsOK, Exists
<1>5. Exists(t) => auths[i].state \in Live
  BY <1>1, <1>3, <1>4 DEF DataInv, TablesOK, Row, AuthState
<1>6. CASE VerifyMark(r)
  <2>1. Moved(r) /\ call'[r] = [step |-> "verify_finish", target |-> t, row |-> i]
    BY <1>1, <1>2, <1>3, <1>6, Moves DEF VerifyMark, Step
  <2>2. MarkVerified(i, "proved") /\ auths[i].method \in ChallengeMethod /\ source[t] = "customer"
    BY <1>1, <1>2, <1>3, <1>6 DEF VerifyMark, Fine
  <2>3. DataInv' /\ Stable /\ (Exists(t) => HasEvidence(t)')
    BY <1>1, <1>3, <1>5, <1>6, <2>2, RowWrite DEF VerifyMark, Active
  <2>4. Fine(call[r])'
    <3>1. Exists(t)' => Exists(t)
      BY <1>6 DEF VerifyMark, Exists
    <3>2. /\ source'[t] = "customer" /\ auths'[i].state # Unused /\ auths'[i].target = t
      BY <1>2, <1>3, <2>2, <2>3 DEF Stable
    <3> QED BY <2>1, <2>3, <3>1, <3>2 DEF Fine, AuthId
  <2>5. Accounts(r)
    BY <1>2, <1>6, <2>1 DEF Accounts, VerifyMark, Verifying, Creating
  <2> QED BY <1>6, <2>1, <2>3, <2>4, <2>5, NoFault, RequestStep DEF VerifyMark
<1>7. CASE AuthorizeMark(r)
  <2>1. Moved(r) /\ call'[r] = [step |-> "authorize_finish", target |-> t, row |-> i]
    BY <1>1, <1>2, <1>3, <1>7, Moves DEF AuthorizeMark, Step
  <2>2. MarkVerified(i, "attested") /\ Granted(t)
    BY <1>2, <1>3, <1>7 DEF AuthorizeMark
  <2>3. DataInv' /\ Stable /\ (Exists(t) => HasEvidence(t)')
    BY <1>1, <1>3, <1>5, <1>7, <2>2, RowWrite DEF AuthorizeMark, Active
  <2>4. Fine(call[r])'
    <3>1. (Exists(t)' => Exists(t)) /\ source'[t] # "none"
      BY <1>2, <1>7 DEF AuthorizeMark, Exists
    <3> QED BY <2>1, <2>3, <3>1 DEF Fine
  <2>5. Accounts(r)
    BY <1>7 DEF Accounts, AuthorizeMark, Verifying, Creating
  <2> QED BY <1>7, <2>1, <2>3, <2>4, <2>5, NoFault, RequestStep DEF AuthorizeMark
<1> QED BY <1>6, <1>7

LEMMA CreateSteps ==
  ASSUME IInv, NEW r \in Req, NEW t \in Tid, CreateTarget(r, t) \/ CreateProgramTarget(r, t)
  PROVE  IInv'
<1> USE DEF At, CustomerStep, RowStep, VerifyStep
<1>1. TypeOK /\ DataInv
  BY DEF IInv
<1>2. CASE CreateTarget(r, t)
  <2>1. Moved(r) /\ call'[r] = [step |-> "issue_default", target |-> t, row |-> 0] /\ call[r].step = "idle"
    <3>1. Begin(r, "issue_default", t) /\ call[r].step = "idle"
      BY <1>2 DEF CreateTarget, Begin
    <3> QED BY <1>1, <3>1, Moves DEF Step
  <2>2. DataInv' /\ Stable /\ source'[t] = "customer"
    BY <1>1, <1>2, TargetInsert DEF CreateTarget
  <2>3. Fine(call[r])'
    BY <2>1, <2>2 DEF Fine
  <2>4. Accounts(r)
    BY <1>1, <1>2, <2>1 DEF Accounts, CreateTarget, Verifying, Creating, TypeOK, TablesOK
  <2> QED BY <1>2, <2>1, <2>2, <2>3, <2>4, NoFault, RequestStep DEF CreateTarget
<1>3. CASE CreateProgramTarget(r, t)
  <2>1. Moved(r) /\ call'[r] = [step |-> "program_attest", target |-> t, row |-> 0] /\ call[r].step = "idle"
    <3>1. Begin(r, "program_attest", t) /\ call[r].step = "idle"
      BY <1>3 DEF CreateProgramTarget, Begin
    <3> QED BY <1>1, <3>1, Moves DEF Step
  <2>2. DataInv' /\ Stable /\ source'[t] = "program"
    BY <1>1, <1>3, TargetInsert DEF CreateProgramTarget
  <2>3. Fine(call[r])'
    BY <2>1, <2>2 DEF Fine
  <2>4. Accounts(r)
    BY <1>1, <1>3, <2>1, <2>2 DEF Accounts, CreateProgramTarget, Verifying, Creating, TypeOK, TablesOK
  <2> QED BY <1>3, <2>1, <2>2, <2>3, <2>4, NoFault, RequestStep DEF CreateProgramTarget
<1> QED BY <1>2, <1>3

LEMMA RevokeExpireStep ==
  ASSUME IInv, NEW r \in Req, RevokeExpire(r)
  PROVE  IInv'
<1>1. Fine(call[r]) /\ TypeOK /\ DataInv
  BY DEF IInv
<1>2. PICK t \in Tid : t = call[r].target /\ source[t] # "none"
  BY <1>1 DEF Fine, RevokeExpire, At
<1>3. Moved(r) /\ call'[r] = [step |-> "revoke_finish", target |-> t, row |-> call[r].row]
  BY <1>1, <1>2, Moves DEF RevokeExpire, Step
<1>4. DataInv' /\ Stable
  BY <1>1, <1>2, ExpireWrite DEF RevokeExpire
<1>5. Fine(call[r])'
  BY <1>2, <1>3 DEF Fine, RevokeExpire, CustomerStep, RowStep, VerifyStep
<1>6. Accounts(r)
  BY DEF Accounts, RevokeExpire, At, Verifying, Creating
<1> QED BY <1>3, <1>4, <1>5, <1>6, NoFault, RequestStep DEF RevokeExpire

LEMMA ProgramUndoStep ==
  ASSUME IInv, NEW r \in Req, ProgramUndo(r)
  PROVE  IInv'
<1>1. Fine(call[r]) /\ TypeOK /\ DataInv
  BY DEF IInv
<1>2. PICK t \in Tid : t = call[r].target
  BY <1>1 DEF Fine, ProgramUndo, At
<1>3. Moved(r) /\ call'[r] = Idle
  BY <1>1, Moves DEF ProgramUndo
<1>4. DataInv' /\ Stable
  <2>1. CASE Exists(t)
    BY <1>1, <1>2, <2>1, TargetDelete DEF ProgramUndo
  <2>2. CASE ~Exists(t)
    BY <1>1, <1>2, <2>2, NoWrite DEF ProgramUndo, Data
  <2> QED BY <2>1, <2>2
<1>5. Fine(call[r])'
  BY <1>3 DEF Fine, Idle, CustomerStep, RowStep, VerifyStep
<1>6. /\ status'[t] # "verified"
      /\ \A u \in Tid : status'[u] = status[u] \/ status'[u] = "deleted"
  BY <1>1, <1>2 DEF ProgramUndo, DropTarget, Exists, TypeOK, TablesOK
<1>7. Accounts(r)
  BY <1>2, <1>6 DEF Accounts, ProgramUndo, At, Verifying, Creating
<1> QED BY <1>3, <1>4, <1>5, <1>7, NoFault, RequestStep DEF ProgramUndo

--------------------------------------------------------------------------------
(* Steps of no request *)

LEMMA OtherStep ==
  ASSUME IInv, UNCHANGED <<call, faults>>, DataInv', Stable,
         \A t \in Tid : status'[t] = status[t] \/ status'[t] = "deleted"
  PROVE  IInv'
<1>1. TypeOK'
  BY DEF DataInv, TypeOK, IInv
<1>2. ASSUME NEW q \in Req PROVE Fine(call[q])'
  <2>1. PICK c \in Call : c = call[q]
    BY DEF IInv, TypeOK
  <2>2. Fine(c)'
    BY <2>1, StaysFine DEF IInv
  <2>3. call'[q] = c
    BY <2>1
  <2> QED BY <2>2, <2>3 DEF Fine, Exists, HasEvidence, RowsOf
<1>3. VerifiedHasRow'
  <2> SUFFICES ASSUME NEW t \in Tid, status'[t] = "verified"
               PROVE  \/ HasEvidence(t)'
                      \/ /\ source'[t] = "program"
                         /\ faults > 0 \/ \E q \in Req : Creating(call[q], t)
    BY DEF VerifiedHasRow, Creating
  <2>1. status[t] = "verified" /\ source'[t] = source[t] /\ Exists(t)'
    BY DEF Stable, IInv, DataInv, SourceOK, Exists
  <2> QED BY <2>1 DEF IInv, VerifiedHasRow, Stable
<1>4. VerifyingIsOwned'
  BY DEF IInv, VerifyingIsOwned, Verifying
<1> QED BY <1>1, <1>2, <1>3, <1>4 DEF IInv

LEMMA DeleteStep == ASSUME IInv, NEW t \in Tid, DeleteTarget(t) PROVE IInv'
<1>1. DataInv' /\ Stable
  BY TargetDelete DEF IInv, DeleteTarget
<1>2. \A u \in Tid : status'[u] = status[u] \/ status'[u] = "deleted"
  BY DEF DeleteTarget, DropTarget, IInv, TypeOK, TablesOK
<1> QED BY <1>1, <1>2, OtherStep DEF DeleteTarget

LEMMA LapseStep == ASSUME IInv, NEW i \in AuthId, Lapse(i) PROVE IInv'
<1>1. MarkVerified(i, "lapsed") /\ auths[i].state # Unused /\ auths[i].target \in Tid
  BY DEF Lapse, MarkVerified, Live, Active, Unused, IInv, DataInv, RowsOK
<1>2. DataInv' /\ Stable
  BY <1>1, RowWrite DEF IInv, Lapse
<1> QED BY <1>2, OtherStep DEF Lapse

--------------------------------------------------------------------------------
(* The theorems *)

LEMMA InitInv == Init => IInv
<1> SUFFICES ASSUME Init PROVE IInv
  OBVIOUS
<1> USE DEF Init
<1>1. TypeOK
  BY BoundAssumption DEF TypeOK, TablesOK, Status, Source, Row, NoAuth, AuthState, Live, Active,
                         Unused, Call, Idle, Step
<1>2. DataInv
  BY <1>1 DEF TypeOK, DataInv, SourceOK, RowsOK, ProgramNeverDemoted, KillSwitchHolds,
              OnlyChallengesAreProved, NoAuth, Unused
<1>3. \A r \in Req : Fine(call[r])
  BY DEF Fine, Idle, CustomerStep, RowStep, VerifyStep
<1>4. VerifiedHasRow /\ VerifyingIsOwned
  BY DEF VerifiedHasRow, VerifyingIsOwned
<1> QED BY <1>1, <1>2, <1>3, <1>4 DEF IInv

LEMMA NextInv == IInv /\ [Next]_vars => IInv'
<1> SUFFICES ASSUME IInv, [Next]_vars PROVE IInv'
  OBVIOUS
<1>1. ASSUME NEW r \in Req, NEW t \in Tid, Arrive(r, t) PROVE IInv'
  <2>1. CASE CreateTarget(r, t) \/ CreateProgramTarget(r, t)
    BY <2>1, CreateSteps
  <2>2. CASE GetTarget(r, t)
    BY <2>2, Arrival DEF GetTarget, Data
  <2>3. CASE TriggerVerification(r, t)
    BY <2>3, Arrival DEF TriggerVerification, Data
  <2>4. CASE AuthorizeManually(r, t)
    BY <2>4, Arrival DEF AuthorizeManually, Data
  <2>5. CASE Revoke(r, t)
    BY <2>5, Arrival DEF Revoke, Data
  <2> QED BY <1>1, <2>1, <2>2, <2>3, <2>4, <2>5 DEF Arrive
<1>2. ASSUME NEW r \in Req, Continue(r) PROVE IInv'
  <2>1. CASE InsertRefused(r) \/ GetLatestFound(r) \/ VerifyRefused(r) \/ VerifyRefetch(r)
    BY <2>1, Returning, NoFault
       DEF InsertRefused, GetLatestFound, VerifyRefused, VerifyRefetch, At, Data
  <2> QED BY <1>2, <2>1, ReadSteps, StatusSteps, InsertSteps, MarkSteps, RevokeExpireStep,
             ProgramUndoStep DEF Continue
<1>3. ASSUME NEW r \in Req, Abort(r) PROVE IInv'
  <2>1. FaultsMove /\ faults' > 0
    BY <1>3, BoundAssumption DEF Abort, Fail, FaultsMove, IInv, TypeOK
  <2> QED BY <1>3, <2>1, Returning DEF Abort, Data
<1>4. CASE UNCHANGED vars
  <2>1. DataInv' /\ Stable
    BY <1>4, NoWrite DEF vars, Data, IInv
  <2> QED BY <1>4, <2>1, OtherStep DEF vars
<1> QED BY <1>1, <1>2, <1>3, <1>4, DeleteStep, LapseStep DEF Next

THEOREM SpecInv == Spec => []IInv
BY InitInv, NextInv, PTL DEF Spec

\* Whatever requests overlap and wherever they stop, the tables keep their types
\* and no live authorization row outlives its target.
THEOREM TypeCorrect == Spec => []TypeOK
<1>1. IInv => TypeOK
  BY DEF IInv
<1> QED BY <1>1, SpecInv, PTL

\* No customer request demotes a target that came from a program.
THEOREM ProgramTargetsStay == Spec => []ProgramNeverDemoted
<1>1. IInv => ProgramNeverDemoted
  BY DEF IInv, DataInv
<1> QED BY <1>1, SpecInv, PTL

\* The kill switch: after Revoke's first statement only a challenge proved by the
\* owner of a customer target can be active, until an admin grants again.
THEOREM KillSwitch == Spec => []KillSwitchHolds
<1>1. IInv => KillSwitchHolds
  BY DEF IInv, DataInv
<1> QED BY <1>1, SpecInv, PTL

\* A customer's request never activates an out-of-band or an admin's row.
THEOREM ProofNeedsChallenge == Spec => []OnlyChallengesAreProved
<1>1. IInv => OnlyChallengesAreProved
  BY DEF IInv, DataInv
<1> QED BY <1>1, SpecInv, PTL

\* A verified target has the row that says why, save a program target while it is
\* created or after a fault.
THEOREM VerifiedIsExplained == Spec => []VerifiedHasRow
<1>1. IInv => VerifiedHasRow
  BY DEF IInv
<1> QED BY <1>1, SpecInv, PTL

\* Without faults no target is left verifying by a request that has returned.
THEOREM NothingStranded == Spec => []VerifyingIsOwned
<1>1. IInv => VerifyingIsOwned
  BY DEF IInv
<1> QED BY <1>1, SpecInv, PTL

--------------------------------------------------------------------------------
(* The promise about scans: every statement is a step of ScanBoundary *)

LEMMA AccessAt == ASSUME NEW t \in Tid PROVE AllAccess[t] = AccessTo(t)
BY DEF AllAccess

LEMMA AllTheSame ==
  ASSUME \A u \in Tid : AccessTo(u)' = AccessTo(u)
  PROVE  UNCHANGED AllAccess
BY DEF AllAccess

LEMMA OneTarget ==
  ASSUME NEW t \in Tid, NEW a, AccessTo(t)' = a,
         \A u \in Tid \ {t} : AccessTo(u)' = AccessTo(u)
  PROVE  Boundary!Set(t, a)
<1>1. \A u \in Tid : AccessTo(u)' = IF u = t THEN a ELSE AccessTo(u)
  OBVIOUS
<1> QED BY <1>1 DEF AllAccess, Boundary!Set

\* A target whose columns and live rows a statement leaves alone.
LEMMA Untouched ==
  ASSUME NEW u \in Tid,
         status'[u] = status[u], source'[u] = source[u], killed'[u] = killed[u],
         \A i \in AuthId : auths'[i] = auths[i] \/ (i \notin RowsOf(u) /\ i \notin RowsOf(u)')
  PROVE  AccessTo(u)' = AccessTo(u)
<1>1. RowsOf(u)' = RowsOf(u) /\ \A i \in RowsOf(u) : auths'[i] = auths[i]
  BY DEF RowsOf
<1>2. Grounds(u)' = Grounds(u) /\ HasEvidence(u)' = HasEvidence(u)
  BY <1>1 DEF Grounds, HasEvidence
<1> QED BY <1>2 DEF AccessTo, Exists

LEMMA NothingDone == ASSUME UNCHANGED Data PROVE UNCHANGED AllAccess
<1>1. \A u \in Tid : AccessTo(u)' = AccessTo(u)
  BY DEF Data, AccessTo, Grounds, HasEvidence, RowsOf, Exists
<1> QED BY <1>1, AllTheSame

LEMMA StatusDone ==
  ASSUME DataInv, NEW t \in Tid, source[t] # "none",
         NEW s \in {"unverified", "verifying", "verified", "revoked"},
         s \in {"unverified", "verifying"} => source[t] = "customer",
         s = "verified" /\ Exists(t) => HasEvidence(t),
         UpdateStatus(t, s), UNCHANGED <<source, auths, killed>>
  PROVE  [Boundary!Next]_AllAccess
<1>1. CASE ~Exists(t)
  BY <1>1, NothingDone DEF UpdateStatus, Data
<1>2. CASE Exists(t)
  <2>1. status[t] \in Status /\ status'[t] = s /\ \A u \in Tid \ {t} : status'[u] = status[u]
    BY <1>2 DEF UpdateStatus, DataInv, TablesOK
  <2>2. source[t] \in {"customer", "program"} /\ status[t] # "deleted" /\ Exists(t)'
    BY <1>2, <2>1 DEF DataInv, TablesOK, Source, Exists
  <2>3. \A u \in Tid \ {t} : AccessTo(u)' = AccessTo(u)
    BY <2>1, Untouched
  <2>4. Grounds(t)' = Grounds(t) /\ HasEvidence(t)' = HasEvidence(t)
    BY DEF Grounds, HasEvidence, RowsOf
  <2>5. AccessTo(t)' = [AccessTo(t) EXCEPT !.standing =
                          IF s \in {"verified", "revoked"} THEN s ELSE "open"]
    BY <1>2, <2>1, <2>2, <2>4 DEF AccessTo
  <2>6. AllAccess[t] = AccessTo(t) /\ AccessTo(t).kind = source[t] /\ AccessTo(t).backed = HasEvidence(t)
    BY <2>2, AccessAt DEF AccessTo
  <2>7. Boundary!Set(t, [AllAccess[t] EXCEPT !.standing =
                           IF s \in {"verified", "revoked"} THEN s ELSE "open"])
    BY <2>3, <2>5, <2>6, OneTarget
  <2>8. CASE s = "verified"
    BY <1>2, <2>6, <2>7, <2>8 DEF Boundary!Next, Boundary!Confirm
  <2>9. CASE s = "revoked"
    BY <2>2, <2>6, <2>7, <2>9 DEF Boundary!Next, Boundary!Suspend, Boundary!Present
  <2>10. CASE s \in {"unverified", "verifying"}
    BY <2>6, <2>7, <2>10 DEF Boundary!Next, Boundary!Reopen
  <2> QED BY <2>8, <2>9, <2>10
<1> QED BY <1>1, <1>2

LEMMA TargetInserted ==
  ASSUME DataInv, NEW t \in Tid, status[t] = "absent",
         NEW src, NEW s,
         (src = "customer" /\ s = "unverified") \/ (src = "program" /\ s = "verified"),
         status' = [status EXCEPT ![t] = s], source' = [source EXCEPT ![t] = src],
         UNCHANGED <<auths, killed>>
  PROVE  [Boundary!Next]_AllAccess
<1>1. /\ source[t] = "none" /\ source'[t] = src /\ status'[t] = s
      /\ \A u \in Tid \ {t} : source'[u] = source[u] /\ status'[u] = status[u]
  BY DEF DataInv, SourceOK, TablesOK
<1>2. RowsOf(t) = {} /\ RowsOf(t)' = {}
  BY <1>1 DEF DataInv, RowsOK, RowsOf, Live, Active, Unused
<1>3. /\ Grounds(t) = {} /\ HasEvidence(t) = FALSE
      /\ Grounds(t)' = {} /\ HasEvidence(t)' = FALSE
  BY <1>2 DEF Grounds, HasEvidence
<1>4. killed[t] = FALSE
  BY DEF DataInv, TablesOK, SourceOK
<1>5. AccessTo(t) = Boundary!Bare("none", "open")
  BY <1>1, <1>3, <1>4 DEF AccessTo, Boundary!Bare
<1>6. AccessTo(t)' = Boundary!Bare(src, IF src = "program" THEN "verified" ELSE "open")
  BY <1>1, <1>3, <1>4 DEF AccessTo, Boundary!Bare
<1>7. \A u \in Tid \ {t} : AccessTo(u)' = AccessTo(u)
  BY <1>1, Untouched
<1>8. AllAccess[t].kind = "none"
  BY <1>5, AccessAt DEF Boundary!Bare
<1>9. CASE src = "customer"
  <2>1. AccessTo(t)' = Boundary!Bare("customer", "open")
    BY <1>6, <1>9
  <2> QED BY <1>7, <1>8, <2>1, OneTarget DEF Boundary!Next, Boundary!RegisterCustomer
<1>10. CASE src = "program"
  <2>1. AccessTo(t)' = Boundary!Bare("program", "verified")
    BY <1>6, <1>10
  <2> QED BY <1>7, <1>8, <2>1, OneTarget DEF Boundary!Next, Boundary!RegisterProgram
<1> QED BY <1>9, <1>10

\* One row, live afterwards, has changed its state: all that a target's access
\* depends on besides its own columns.
RowChanged(t, i, s) ==
  /\ \A j \in AuthId \ {i} : auths'[j] = auths[j]
  /\ auths'[i].target = t /\ auths'[i].state = s
  /\ i \in RowsOf(t) \/ auths[i].state \notin Live

LEMMA RowChange ==
  ASSUME NEW t \in Tid, NEW i \in AuthId, NEW s \in Live, RowChanged(t, i, s)
  PROVE  /\ \E kept \in SUBSET Grounds(t) : Grounds(t)' = kept \cup ({s} \cap Active)
         /\ s # "pending" => HasEvidence(t)'
         /\ s = "pending" /\ auths[i].state \notin Live => HasEvidence(t)' = HasEvidence(t)
         /\ s # "pending" /\ auths[i].state \in Active => HasEvidence(t)
<1>1. /\ RowsOf(t)' = RowsOf(t) \cup {i} /\ auths'[i].state = s
      /\ \A j \in RowsOf(t) \ {i} : auths'[j] = auths[j]
  BY DEF RowChanged, RowsOf
<1>2. \E kept \in SUBSET Grounds(t) : Grounds(t)' = kept \cup ({s} \cap Active)
  <2> DEFINE kept == {auths[j].state : j \in RowsOf(t) \ {i}} \cap Active
  <2>1. kept \in SUBSET Grounds(t)
    BY DEF Grounds
  <2>2. Grounds(t)' = kept \cup ({s} \cap Active)
    BY <1>1 DEF Grounds
  <2> QED BY <2>1, <2>2
<1>3. s # "pending" => HasEvidence(t)'
  BY <1>1 DEF HasEvidence
<1>4. s = "pending" /\ auths[i].state \notin Live => HasEvidence(t)' = HasEvidence(t)
  BY <1>1 DEF HasEvidence, RowsOf
<1>5. s # "pending" /\ auths[i].state \in Active => HasEvidence(t)
  BY DEF HasEvidence, RowChanged, Live, Active
<1> QED BY <1>2, <1>3, <1>4, <1>5

\* A row becomes active: its target is proved, or granted.
LEMMA RowActivated ==
  ASSUME DataInv, NEW t \in Tid, Exists(t), NEW i \in AuthId, NEW s \in Active,
         RowChanged(t, i, s), \A u \in Tid \ {t} : i \notin RowsOf(u) /\ i \notin RowsOf(u)',
         UNCHANGED <<status, source>>,
         \/ s = "proved" /\ source[t] = "customer" /\ UNCHANGED killed
         \/ s = "attested" /\ Granted(t)
  PROVE  [Boundary!Next]_AllAccess
<1>1. s \in Live /\ s # "pending" /\ {s} \cap Active = {s}
  BY DEF Live, Active
<1>2. PICK kept \in SUBSET Grounds(t) : Grounds(t)' = kept \cup {s}
  BY <1>1, RowChange
<1>3. HasEvidence(t)' = TRUE
  <2>1. HasEvidence(t)'
    BY <1>1, RowChange
  <2> QED BY <2>1 DEF HasEvidence
<1>4. source[t] \in {"customer", "program"} /\ status[t] # "deleted" /\ Exists(t)'
  BY DEF DataInv, SourceOK, TablesOK, Source, Exists
<1>5. \A u \in Tid \ {t} : killed'[u] = killed[u]
  BY DEF Granted, DataInv, TablesOK
<1>6. \A u \in Tid \ {t} : AccessTo(u)' = AccessTo(u)
  <2> SUFFICES ASSUME NEW u \in Tid \ {t} PROVE AccessTo(u)' = AccessTo(u)
    OBVIOUS
  <2>1. \A j \in AuthId : auths'[j] = auths[j] \/ (j \notin RowsOf(u) /\ j \notin RowsOf(u)')
    BY DEF RowChanged
  <2> QED BY <1>5, <2>1, Untouched
<1> DEFINE shown == IF status[t] \in {"verified", "revoked"} THEN status[t] ELSE "open"
<1>7. AllAccess[t] = AccessTo(t)
  BY AccessAt
<1>8. /\ AccessTo(t).kind = source[t] /\ AccessTo(t).grounds = Grounds(t)
       /\ AccessTo(t).standing = shown /\ AccessTo(t).shut = (killed[t] /\ Exists(t))
  BY <1>4 DEF AccessTo
<1>9. CASE s = "proved" /\ source[t] = "customer" /\ UNCHANGED killed
  <2>1. AccessTo(t)' = Boundary!On(t, kept \cup {"proved"}, TRUE, AllAccess[t].shut)
    BY <1>2, <1>3, <1>4, <1>7, <1>9, <1>8 DEF AccessTo, Boundary!On
  <2>2. Boundary!Set(t, Boundary!On(t, kept \cup {"proved"}, TRUE, AllAccess[t].shut))
    BY <1>6, <2>1, OneTarget
  <2> QED BY <1>7, <1>9, <1>8, <2>2 DEF Boundary!Next, Boundary!Prove
<1>10. CASE s = "attested" /\ Granted(t)
  <2>1. (killed'[t] /\ Exists(t)') = FALSE
    BY <1>10 DEF Granted, DataInv, TablesOK
  <2>2. AccessTo(t)' = Boundary!On(t, kept \cup {"attested"}, TRUE, FALSE)
    BY <1>2, <1>3, <1>4, <1>7, <1>10, <1>8, <2>1 DEF AccessTo, Boundary!On
  <2>3. Boundary!Set(t, Boundary!On(t, kept \cup {"attested"}, TRUE, FALSE))
    BY <1>6, <2>2, OneTarget
  <2> QED BY <1>4, <1>7, <1>8, <2>3 DEF Boundary!Next, Boundary!Grant, Boundary!Present
<1> QED BY <1>9, <1>10

\* A row is inserted pending, or lapses: reasons can only go.
LEMMA RowRested ==
  ASSUME DataInv, NEW t \in Tid, Exists(t), NEW i \in AuthId, NEW s \in {"pending", "lapsed"},
         RowChanged(t, i, s), \A u \in Tid \ {t} : i \notin RowsOf(u) /\ i \notin RowsOf(u)',
         UNCHANGED <<status, source, killed>>,
         IF s = "pending" THEN auths[i].state \notin Live ELSE auths[i].state \in Active
  PROVE  [Boundary!Next]_AllAccess
<1>1. s \in Live /\ {s} \cap Active = {}
  BY DEF Live, Active
<1>2. PICK kept \in SUBSET Grounds(t) : Grounds(t)' = kept
  BY <1>1, RowChange
<1>3. HasEvidence(t)' = HasEvidence(t)
  <2>1. CASE s = "pending"
    BY <1>1, <2>1, RowChange
  <2>2. CASE s = "lapsed"
    <3>1. HasEvidence(t) /\ HasEvidence(t)'
      BY <1>1, <2>2, RowChange
    <3> QED BY <3>1 DEF HasEvidence
  <2> QED BY <2>1, <2>2
<1>4. source[t] \in {"customer", "program"} /\ status[t] # "deleted" /\ Exists(t)' = Exists(t)
  BY DEF DataInv, SourceOK, TablesOK, Source, Exists
<1>5. \A u \in Tid \ {t} : AccessTo(u)' = AccessTo(u)
  <2> SUFFICES ASSUME NEW u \in Tid \ {t} PROVE AccessTo(u)' = AccessTo(u)
    OBVIOUS
  <2>1. \A j \in AuthId : auths'[j] = auths[j] \/ (j \notin RowsOf(u) /\ j \notin RowsOf(u)')
    BY DEF RowChanged
  <2> QED BY <2>1, Untouched
<1> DEFINE shown == IF status[t] \in {"verified", "revoked"} THEN status[t] ELSE "open"
<1>6. AllAccess[t] = AccessTo(t)
  BY AccessAt
<1>7. /\ AccessTo(t).kind = source[t] /\ AccessTo(t).grounds = Grounds(t)
      /\ AccessTo(t).backed = HasEvidence(t)
      /\ AccessTo(t).standing = shown /\ AccessTo(t).shut = (killed[t] /\ Exists(t))
  BY <1>4 DEF AccessTo
<1>8. AccessTo(t)' = Boundary!On(t, kept, AllAccess[t].backed, AllAccess[t].shut)
  BY <1>2, <1>3, <1>4, <1>6, <1>7 DEF AccessTo, Boundary!On
<1>9. Boundary!Set(t, Boundary!On(t, kept, AllAccess[t].backed, AllAccess[t].shut))
  BY <1>5, <1>8, OneTarget
<1> QED BY <1>4, <1>6, <1>7, <1>9 DEF Boundary!Next, Boundary!Expire, Boundary!Present

\* What is said of a target that does not exist changes nothing.
LEMMA NoSuchTarget ==
  ASSUME NEW t \in Tid, ~Exists(t), UNCHANGED <<status, source, auths>>,
         \A u \in Tid \ {t} : killed'[u] = killed[u]
  PROVE  UNCHANGED AllAccess
<1>1. \A u \in Tid \ {t} : AccessTo(u)' = AccessTo(u)
  BY Untouched
<1>2. AccessTo(t)' = AccessTo(t)
  <2>1. /\ (killed[t] /\ Exists(t)) = FALSE /\ (killed'[t] /\ Exists(t)') = FALSE
        /\ Grounds(t)' = Grounds(t) /\ HasEvidence(t)' = HasEvidence(t)
    BY DEF Exists, Grounds, HasEvidence, RowsOf
  <2> QED BY <2>1 DEF AccessTo
<1> QED BY <1>1, <1>2, AllTheSame

LEMMA RowsExpired ==
  ASSUME DataInv, NEW t \in Tid, ExpireActive(t), killed' = [killed EXCEPT ![t] = TRUE],
         UNCHANGED <<status, source>>
  PROVE  [Boundary!Next]_AllAccess
<1>1. \A j \in AuthId : /\ auths'[j].target = auths[j].target
                        /\ j \notin RowsOf(t) => auths'[j] = auths[j]
                        /\ j \in RowsOf(t) => auths'[j].state =
                             IF auths[j].state \in Active THEN "lapsed" ELSE auths[j].state
  BY DEF ExpireActive, DataInv, TablesOK, Row
<1>2. \A u \in Tid \ {t} : killed'[u] = killed[u]
  BY DEF DataInv, TablesOK
<1>3. CASE ~Exists(t)
  <2>1. RowsOf(t) = {}
    BY <1>3 DEF RowsOf, DataInv, TablesOK
  <2>2. auths' = auths
    BY <2>1 DEF ExpireActive, DataInv, TablesOK
  <2> QED BY <1>2, <1>3, <2>2, NoSuchTarget
<1>4. CASE Exists(t)
  <2>1. RowsOf(t)' = RowsOf(t)
    BY <1>1 DEF RowsOf, Live
  <2>2. \A j \in RowsOf(t) : /\ auths'[j].state \notin Active
                             /\ auths'[j].state = "pending" <=> auths[j].state = "pending"
    BY <1>1 DEF RowsOf, Active
  <2>3. Grounds(t)' = {} /\ HasEvidence(t)' = HasEvidence(t)
    BY <2>1, <2>2 DEF Grounds, HasEvidence
  <2>4. \A u \in Tid \ {t} : AccessTo(u)' = AccessTo(u)
    <3> SUFFICES ASSUME NEW u \in Tid \ {t} PROVE AccessTo(u)' = AccessTo(u)
      OBVIOUS
    <3>1. \A j \in AuthId : auths'[j] = auths[j] \/ (j \notin RowsOf(u) /\ j \notin RowsOf(u)')
      BY <1>1 DEF RowsOf
    <3> QED BY <1>2, <3>1, Untouched
  <2>5. /\ source[t] \in {"customer", "program"} /\ status[t] # "deleted"
        /\ (killed'[t] /\ Exists(t)') = TRUE
    BY <1>4 DEF DataInv, SourceOK, TablesOK, Source, Exists
  <2> DEFINE shown == IF status[t] \in {"verified", "revoked"} THEN status[t] ELSE "open"
  <2>6. AllAccess[t] = AccessTo(t)
    BY AccessAt
  <2>7. /\ AccessTo(t).kind = source[t] /\ AccessTo(t).backed = HasEvidence(t)
        /\ AccessTo(t).standing = shown
    BY <2>5 DEF AccessTo
  <2>8. AccessTo(t)' = Boundary!On(t, {}, AllAccess[t].backed, TRUE)
    BY <2>3, <2>5, <2>6, <2>7 DEF AccessTo, Boundary!On
  <2>9. Boundary!Set(t, Boundary!On(t, {}, AllAccess[t].backed, TRUE))
    BY <2>4, <2>8, OneTarget
  <2> QED BY <2>5, <2>6, <2>7, <2>9 DEF Boundary!Next, Boundary!Revoke, Boundary!Present
<1> QED BY <1>3, <1>4

LEMMA TargetDropped ==
  ASSUME DataInv, NEW t \in Tid, Exists(t), DropTarget(t), UNCHANGED <<source, killed>>
  PROVE  [Boundary!Next]_AllAccess
<1>1. \A j \in AuthId : /\ auths'[j].target = auths[j].target
                        /\ j \notin RowsOf(t) => auths'[j] = auths[j]
                        /\ j \in RowsOf(t) => auths'[j].state = "gone"
  BY DEF DropTarget, DataInv, TablesOK, Row
<1>2. status'[t] = "deleted" /\ \A u \in Tid \ {t} : status'[u] = status[u]
  BY DEF DropTarget, DataInv, TablesOK
<1>3. RowsOf(t)' = {}
  BY <1>1 DEF RowsOf, Live, Active
<1>4. Grounds(t)' = {} /\ HasEvidence(t)' = FALSE /\ (killed'[t] /\ Exists(t)') = FALSE
  BY <1>2, <1>3 DEF Grounds, HasEvidence, Exists
<1>5. \A u \in Tid \ {t} : AccessTo(u)' = AccessTo(u)
  <2> SUFFICES ASSUME NEW u \in Tid \ {t} PROVE AccessTo(u)' = AccessTo(u)
    OBVIOUS
  <2>1. \A j \in AuthId : auths'[j] = auths[j] \/ (j \notin RowsOf(u) /\ j \notin RowsOf(u)')
    BY <1>1 DEF RowsOf
  <2> QED BY <1>2, <2>1, Untouched
<1>6. AccessTo(t)' = Boundary!Bare("deleted", "open")
  BY <1>2, <1>4 DEF AccessTo, Boundary!Bare
<1>7. AllAccess[t].kind \in {"customer", "program"}
  <2>1. source[t] \in {"customer", "program"} /\ status[t] # "deleted"
    BY DEF DataInv, SourceOK, TablesOK, Source, Exists
  <2>2. AccessTo(t).kind = source[t]
    BY <2>1 DEF AccessTo
  <2> QED BY <2>1, <2>2, AccessAt
<1>8. Boundary!Set(t, Boundary!Bare("deleted", "open"))
  BY <1>5, <1>6, OneTarget
<1> QED BY <1>7, <1>8 DEF Boundary!Next, Boundary!Delete, Boundary!Present

LEMMA RowInserted ==
  ASSUME DataInv, NEW t \in Tid, NEW i \in AuthId, NEW m, NEW s \in Live, InsertAuth(i, t, m, s)
  PROVE  /\ Exists(t) /\ RowChanged(t, i, s) /\ auths[i].state \notin Live
         /\ \A u \in Tid \ {t} : i \notin RowsOf(u) /\ i \notin RowsOf(u)'
<1>1. Exists(t) /\ auths[i].state = Unused /\ auths' = [auths EXCEPT ![i] = [target |-> t, method |-> m, state |-> s]]
  BY DEF InsertAuth, NextId
<1>2. auths[i].state \notin Live
  BY <1>1 DEF Live, Active, Unused
<1>3. auths'[i].target = t /\ auths'[i].state = s /\ \A j \in AuthId \ {i} : auths'[j] = auths[j]
  BY <1>1 DEF DataInv, TablesOK
<1> QED BY <1>1, <1>2, <1>3 DEF RowChanged, RowsOf

LEMMA RowWritten ==
  ASSUME DataInv, NEW i \in AuthId, NEW s \in Live, auths[i].state \in Live,
         auths' = [auths EXCEPT ![i].state = s], NEW t, t = auths[i].target
  PROVE  /\ t \in Tid /\ Exists(t) /\ RowChanged(t, i, s)
         /\ \A u \in Tid \ {t} : i \notin RowsOf(u) /\ i \notin RowsOf(u)'
<1>1. t \in Tid /\ Exists(t)
  BY DEF DataInv, TablesOK
<1>2. auths'[i].target = t /\ auths'[i].state = s /\ \A j \in AuthId \ {i} : auths'[j] = auths[j]
  BY DEF DataInv, TablesOK, Row
<1> QED BY <1>1, <1>2 DEF RowChanged, RowsOf

\* MarkVerified finds its row gone only if the target is.
LEMMA RowMarked ==
  ASSUME DataInv, NEW i \in AuthId, NEW s \in Active, MarkVerified(i, s),
         NEW t, t = auths[i].target, auths[i].state # Unused, UNCHANGED <<status, source>>,
         \/ s = "proved" /\ source[t] = "customer" /\ UNCHANGED killed
         \/ s = "attested" /\ Granted(t)
  PROVE  [Boundary!Next]_AllAccess
<1>1. t \in Tid
  BY DEF DataInv, RowsOK
<1>2. CASE auths[i].state \in Live
  <2>1. s \in Live /\ auths' = [auths EXCEPT ![i].state = s]
    BY <1>2 DEF MarkVerified, Live
  <2>2. /\ Exists(t) /\ RowChanged(t, i, s)
        /\ \A u \in Tid \ {t} : i \notin RowsOf(u) /\ i \notin RowsOf(u)'
    BY <1>2, <2>1, RowWritten
  <2> QED BY <1>1, <2>2, RowActivated
<1>3. CASE auths[i].state \notin Live
  <2>1. auths' = auths /\ auths[i].state = "gone"
    BY <1>3 DEF MarkVerified, DataInv, TablesOK, Row, AuthState
  <2>2. ~Exists(t)
    BY <2>1 DEF DataInv, RowsOK, Exists
  <2>3. \A u \in Tid \ {t} : killed'[u] = killed[u]
    BY DEF Granted, DataInv, TablesOK
  <2> QED BY <1>1, <2>1, <2>2, <2>3, NoSuchTarget
<1> QED BY <1>2, <1>3

LEMMA ArrivalBoundary ==
  ASSUME IInv, NEW r \in Req, NEW t \in Tid, Arrive(r, t)
  PROVE  [Boundary!Next]_AllAccess
<1>1. CASE CreateTarget(r, t) \/ CreateProgramTarget(r, t)
  BY <1>1, TargetInserted DEF IInv, CreateTarget, CreateProgramTarget
<1>2. CASE GetTarget(r, t) \/ TriggerVerification(r, t) \/ AuthorizeManually(r, t) \/ Revoke(r, t)
  BY <1>2, NothingDone DEF GetTarget, TriggerVerification, AuthorizeManually, Revoke, Data
<1> QED BY <1>1, <1>2 DEF Arrive

\* The steps of a request that write no table.
LEMMA ReadsOnly ==
  ASSUME NEW r \in Req,
         \/ InsertRefused(r) \/ GetLatestNone(r) \/ GetLatestFound(r)
         \/ VerifyRefused(r) \/ VerifyNone(r) \/ (\E i \in AuthId : VerifyFound(r, i))
         \/ VerifyPass(r) \/ VerifyFail(r) \/ VerifyRefetch(r) \/ ProgramNotAttested(r)
         \/ (\E i \in AuthId : AuthorizePending(r, i)) \/ AuthorizeOther(r) \/ Abort(r)
  PROVE  UNCHANGED AllAccess
<1>1. UNCHANGED Data
  BY DEF InsertRefused, GetLatestNone, GetLatestFound, VerifyRefused, VerifyNone, VerifyFound,
         VerifyPass, VerifyFail, VerifyRefetch, ProgramNotAttested, AuthorizePending,
         AuthorizeOther, Abort, Data
<1> QED BY <1>1, NothingDone

LEMMA RequestBoundary ==
  ASSUME IInv, NEW r \in Req, Continue(r)
  PROVE  [Boundary!Next]_AllAccess
<1> DEFINE t == call[r].target
           i == call[r].row
<1>1. DataInv /\ Fine(call[r])
  BY DEF IInv
<1>2. CASE VerifyBegin(r) \/ VerifyDemote(r) \/ VerifyFinish(r) \/ AuthorizeFinish(r) \/ RevokeFinish(r)
  <2>1. /\ t \in Tid /\ source[t] # "none"
        /\ call[r].step \in CustomerStep => source[t] = "customer"
        /\ call[r].step \in {"verify_finish", "authorize_finish"} /\ Exists(t) => HasEvidence(t)
    BY <1>1, <1>2 DEF Fine, VerifyBegin, VerifyDemote, VerifyFinish, AuthorizeFinish, RevokeFinish, At
  <2>2. PICK s \in {"unverified", "verifying", "verified", "revoked"} :
          /\ UpdateStatus(t, s) /\ UNCHANGED <<source, auths, killed>>
          /\ s \in {"unverified", "verifying"} => call[r].step \in CustomerStep
          /\ s = "verified" => call[r].step \in {"verify_finish", "authorize_finish"}
    BY <1>2 DEF VerifyBegin, VerifyDemote, Demote, VerifyFinish, AuthorizeFinish, RevokeFinish,
                At, CustomerStep, VerifyStep
  <2> QED BY <1>1, <2>1, <2>2, StatusDone
<1>3. CASE IssueDefault(r) \/ VerifyIssue(r) \/ VerifySwitch(r)
  <2>1. t \in Tid
    BY <1>1, <1>3 DEF Fine, IssueDefault, VerifyIssue, VerifySwitch, At
  <2>2. PICK j \in AuthId, m \in CustomerMethod : InsertAuth(j, t, m, "pending")
    BY <1>3, MethodAssumption
       DEF IssueDefault, VerifyIssue, VerifySwitch, VerifyInsert, CustomerMethod
  <2>3. /\ Exists(t) /\ RowChanged(t, j, "pending") /\ auths[j].state \notin Live
        /\ \A u \in Tid \ {t} : j \notin RowsOf(u) /\ j \notin RowsOf(u)'
    BY <1>1, <2>1, <2>2, RowInserted DEF Live
  <2>4. UNCHANGED <<status, source, killed>>
    BY <1>3 DEF IssueDefault, VerifyIssue, VerifySwitch
  <2> QED BY <1>1, <2>1, <2>3, <2>4, RowRested
<1>4. CASE ProgramAttest(r) \/ AuthorizeInsert(r)
  <2>1. t \in Tid
    BY <1>1, <1>4 DEF Fine, ProgramAttest, AuthorizeInsert, At
  <2>2. PICK j \in AuthId, m \in AdminMethod : InsertAuth(j, t, m, "attested")
    BY <1>4 DEF ProgramAttest, AuthorizeInsert, AdminMethod
  <2>3. /\ Exists(t) /\ RowChanged(t, j, "attested")
        /\ \A u \in Tid \ {t} : j \notin RowsOf(u) /\ j \notin RowsOf(u)'
    BY <1>1, <2>1, <2>2, RowInserted DEF Live, Active
  <2>4. UNCHANGED <<status, source>> /\ Granted(t)
    BY <1>4 DEF ProgramAttest, AuthorizeInsert
  <2> QED BY <1>1, <2>1, <2>3, <2>4, RowActivated DEF Active
<1>5. CASE VerifyMark(r)
  <2>1. /\ i \in AuthId /\ auths[i].state # Unused /\ auths[i].target = t /\ source[t] = "customer"
    BY <1>1, <1>5 DEF Fine, VerifyMark, At, RowStep, CustomerStep, VerifyStep
  <2>2. MarkVerified(i, "proved") /\ UNCHANGED <<status, source>> /\ UNCHANGED killed
    BY <1>5 DEF VerifyMark
  <2> QED BY <1>1, <2>1, <2>2, RowMarked DEF Active
<1>6. CASE AuthorizeMark(r)
  <2>1. /\ i \in AuthId /\ auths[i].state # Unused /\ auths[i].target = t
    BY <1>1, <1>6 DEF Fine, AuthorizeMark, At, RowStep, VerifyStep
  <2>2. MarkVerified(i, "attested") /\ UNCHANGED <<status, source>> /\ Granted(t)
    BY <1>6 DEF AuthorizeMark
  <2> QED BY <1>1, <2>1, <2>2, RowMarked DEF Active
<1>7. CASE RevokeExpire(r)
  <2>1. t \in Tid
    BY <1>1, <1>7 DEF Fine, RevokeExpire, At
  <2> QED BY <1>1, <1>7, <2>1, RowsExpired DEF RevokeExpire
<1>8. CASE ProgramUndo(r)
  <2>1. t \in Tid
    BY <1>1, <1>8 DEF Fine, ProgramUndo, At
  <2>2. CASE Exists(t)
    BY <1>1, <1>8, <2>1, <2>2, TargetDropped DEF ProgramUndo
  <2>3. CASE ~Exists(t)
    BY <1>8, <2>3, NothingDone DEF ProgramUndo, Data
  <2> QED BY <2>2, <2>3
<1> QED BY <1>2, <1>3, <1>4, <1>5, <1>6, <1>7, <1>8, ReadsOnly DEF Continue

\* The rows, statuses and sources the requests leave behind are those of the
\* promise about scans, and every statement is one of its steps or none: whatever
\* overlaps and wherever it stops, only a proof or a grant opens a target, a
\* revocation closes it at once, and a deletion is for good.
THEOREM LifecycleKeepsBoundary == Spec => BoundaryKept
<1>1. Init => Boundary!Init
  <2> SUFFICES ASSUME Init PROVE AllAccess = [t \in Tid |-> Boundary!Bare("none", "open")]
    BY DEF Boundary!Init
  <2>1. ASSUME NEW t \in Tid PROVE AccessTo(t) = Boundary!Bare("none", "open")
    <3>1. RowsOf(t) = {}
      BY DEF Init, RowsOf, NoAuth, Live, Active, Unused
    <3>2. /\ Grounds(t) = {} /\ HasEvidence(t) = FALSE /\ (killed[t] /\ Exists(t)) = FALSE
          /\ status[t] = "absent" /\ source[t] = "none"
      BY <3>1 DEF Init, Grounds, HasEvidence
    <3> QED BY <3>2 DEF AccessTo, Boundary!Bare
  <2> QED BY <2>1 DEF AllAccess
<1>2. IInv /\ [Next]_vars => [Boundary!Next]_AllAccess
  <2> SUFFICES ASSUME IInv, [Next]_vars PROVE [Boundary!Next]_AllAccess
    OBVIOUS
  <2>1. ASSUME NEW t \in Tid, DeleteTarget(t) PROVE [Boundary!Next]_AllAccess
    BY <2>1, TargetDropped DEF IInv, DeleteTarget
  <2>2. ASSUME NEW i \in AuthId, Lapse(i) PROVE [Boundary!Next]_AllAccess
    <3>1. /\ auths[i].state \in Active /\ auths[i].state \in Live
          /\ auths' = [auths EXCEPT ![i].state = "lapsed"] /\ UNCHANGED <<status, source, killed>>
      BY <2>2 DEF Lapse, Live
    <3>2. /\ auths[i].target \in Tid /\ Exists(auths[i].target)
          /\ RowChanged(auths[i].target, i, "lapsed")
          /\ \A u \in Tid \ {auths[i].target} : i \notin RowsOf(u) /\ i \notin RowsOf(u)'
      BY <3>1, RowWritten DEF IInv, Live
    <3> QED BY <3>1, <3>2, RowRested DEF IInv
  <2>3. CASE UNCHANGED vars
    BY <2>3, NothingDone DEF vars, Data
  <2> QED BY <2>1, <2>2, <2>3, ArrivalBoundary, RequestBoundary, ReadsOnly DEF Next
<1> QED BY <1>1, <1>2, SpecInv, PTL DEF Spec, BoundaryKept, Boundary!Spec

\* What the promise comes to.  The invariant says, of every target whether it may
\* be scanned or not, what its grounds can be.
Grounded(a) ==
  /\ a.grounds \subseteq {"proved", "attested"}
  /\ "proved" \in a.grounds => a.kind = "customer"
  /\ a.shut => "attested" \notin a.grounds
  /\ a.grounds # {} => a.kind \in {"customer", "program"}

AllGrounded == \A t \in Tid : Grounded(AllAccess[t])

LEMMA SetGrounded ==
  ASSUME AllGrounded, NEW t \in Tid, NEW a, Grounded(a), Boundary!Set(t, a)
  PROVE  AllGrounded'
<1>1. \A u \in Tid : AllAccess'[u] = IF u = t THEN a ELSE AllAccess[u]
  BY DEF Boundary!Set, AllAccess
<1> QED BY <1>1 DEF AllGrounded, Grounded

LEMMA GroundedStep == AllGrounded /\ [Boundary!Next]_AllAccess => AllGrounded'
<1> SUFFICES ASSUME AllGrounded, [Boundary!Next]_AllAccess PROVE AllGrounded'
  OBVIOUS
<1>1. CASE UNCHANGED AllAccess
  BY <1>1 DEF AllGrounded
<1>2. ASSUME NEW t \in Tid,
             \/ Boundary!RegisterCustomer(t) \/ Boundary!RegisterProgram(t) \/ Boundary!Delete(t)
      PROVE  AllGrounded'
  <2>1. PICK k, s : Boundary!Set(t, Boundary!Bare(k, s))
    BY <1>2 DEF Boundary!RegisterCustomer, Boundary!RegisterProgram, Boundary!Delete
  <2>2. Grounded(Boundary!Bare(k, s))
    BY DEF Grounded, Boundary!Bare
  <2> QED BY <2>1, <2>2, SetGrounded
<1>3. ASSUME NEW t \in Tid, NEW g, NEW b, NEW s,
             Boundary!Set(t, Boundary!On(t, g, b, s)),
             AllAccess[t].kind \in {"customer", "program"},
             g \subseteq AllAccess[t].grounds \cup {"proved", "attested"},
             "proved" \in g => "proved" \in AllAccess[t].grounds \/ AllAccess[t].kind = "customer",
             s => "attested" \notin g \/ (AllAccess[t].shut /\ "attested" \in AllAccess[t].grounds)
      PROVE  AllGrounded'
  <2>1. Grounded(AllAccess[t])
    BY DEF AllGrounded
  <2>2. /\ Boundary!On(t, g, b, s).kind = AllAccess[t].kind
        /\ Boundary!On(t, g, b, s).grounds = g /\ Boundary!On(t, g, b, s).shut = s
    BY DEF Boundary!On
  <2>3. Grounded(Boundary!On(t, g, b, s))
    BY <1>3, <2>1, <2>2 DEF Grounded
  <2> QED BY <1>3, <2>3, SetGrounded
<1>4. ASSUME NEW t \in Tid, Boundary!Prove(t) PROVE AllGrounded'
  <2>1. PICK kept \in SUBSET AllAccess[t].grounds :
          Boundary!Set(t, Boundary!On(t, kept \cup {"proved"}, TRUE, AllAccess[t].shut))
    BY <1>4 DEF Boundary!Prove
  <2> QED BY <1>3, <1>4, <2>1 DEF Boundary!Prove
<1>5. ASSUME NEW t \in Tid, Boundary!Grant(t) PROVE AllGrounded'
  <2>1. PICK kept \in SUBSET AllAccess[t].grounds :
          Boundary!Set(t, Boundary!On(t, kept \cup {"attested"}, TRUE, FALSE))
    BY <1>5 DEF Boundary!Grant
  <2> QED BY <1>3, <1>5, <2>1 DEF Boundary!Grant, Boundary!Present
<1>6. ASSUME NEW t \in Tid, Boundary!Expire(t) PROVE AllGrounded'
  <2>1. PICK kept \in SUBSET AllAccess[t].grounds :
          Boundary!Set(t, Boundary!On(t, kept, AllAccess[t].backed, AllAccess[t].shut))
    BY <1>6 DEF Boundary!Expire
  <2> QED BY <1>3, <1>6, <2>1 DEF Boundary!Expire, Boundary!Present
<1>7. ASSUME NEW t \in Tid, Boundary!Revoke(t) PROVE AllGrounded'
  BY <1>3, <1>7 DEF Boundary!Revoke, Boundary!Present
<1>8. ASSUME NEW t \in Tid, Boundary!Confirm(t) \/ Boundary!Reopen(t) \/ Boundary!Suspend(t)
      PROVE  AllGrounded'
  <2>1. PICK s : Boundary!Set(t, [AllAccess[t] EXCEPT !.standing = s])
    BY <1>8 DEF Boundary!Confirm, Boundary!Reopen, Boundary!Suspend
  <2>2. Grounded([AllAccess[t] EXCEPT !.standing = s])
    BY DEF AllGrounded, Grounded, AllAccess, AccessTo
  <2> QED BY <2>1, <2>2, SetGrounded
<1> QED BY <1>1, <1>2, <1>4, <1>5, <1>6, <1>7, <1>8 DEF Boundary!Next

\* A scan always rests on a proof of the target's own customer or on an admin's
\* grant, on the former alone while an admin has revoked the target, and never on
\* a target that is not there.  It follows from the promise alone, so from Spec.
THEOREM ScansGrounded == Spec => []Boundary!ScansAreGrounded
<1>1. Boundary!Init => AllGrounded
  <2>1. Grounded(Boundary!Bare("none", "open"))
    BY DEF Grounded, Boundary!Bare
  <2> QED BY <2>1 DEF Boundary!Init, AllGrounded
<1>2. AllGrounded => Boundary!ScansAreGrounded
  <2> SUFFICES ASSUME AllGrounded, NEW t \in Tid, Boundary!MayScan(t)
               PROVE  /\ Boundary!Present(t)
                      /\ "proved" \in AllAccess[t].grounds => AllAccess[t].kind = "customer"
                      /\ AllAccess[t].shut => AllAccess[t].grounds = {"proved"}
    BY DEF Boundary!ScansAreGrounded
  <2>1. Grounded(AllAccess[t]) /\ AllAccess[t].grounds # {}
    BY DEF AllGrounded, Boundary!MayScan
  <2> QED BY <2>1 DEF Grounded, Boundary!Present
<1> QED BY <1>1, <1>2, GroundedStep, LifecycleKeepsBoundary, PTL DEF BoundaryKept, Boundary!Spec

================================================================================
