----------------------------- MODULE AssetInventory -----------------------------
(***************************************************************************)
(* The table target.assets (internal/service/asset_service.go, internal/   *)
(* repository/asset_repository.go): scan-service sends batches of assets,  *)
(* stored one INSERT at a time without a transaction, while other batches  *)
(* of the target are stored and the target may be deleted.  A batch that   *)
(* was stored whole is reported through the AuditProducer.                 *)
(***************************************************************************)
EXTENDS AuditProducer, Sequences, FiniteSets, Functions

CONSTANTS
  Tid,        \* targets
  Asset,      \* keys of assets: type and value
  Scanner,    \* values of discovered_by
  None,       \* no value, no row
  Batches,    \* the batches scan-service sends
  MaxBatches  \* bound: batches sent

Item == [asset : Asset, discovered_by : Scanner \cup {None}]

ASSUME InventoryAssumption ==
  /\ IsFiniteSet(Req) /\ None \notin Scanner /\ MaxBatches \in Nat
  /\ Batches \subseteq Seq(Item) /\ <<>> \notin Batches

VARIABLES
  live,      \* targets that exist
  assets,    \* the rows, by target and key
  batch,     \* per request: its target, the items left, what it has stored
  sent,      \* batches sent so far; also a coarse clock for now()
  reported   \* per target: the sum of asset_count over the events published

inventoryVars == <<producerVars, live, assets, batch, sent, reported>>

\* last_seen and metadata are those of the last upsert; scope_class is always "unknown".
AssetRow == [discovered_by : Scanner \cup {None}, first_seen : 1..MaxBatches]

NoBatch == [step |-> "idle", target |-> None, items |-> <<>>, upserted |-> 0]

Working(r, step) == batch[r].step = step
Continue(r, step) == batch' = [batch EXCEPT ![r].step = step]

--------------------------------------------------------------------------------
UpsertAssets(r, t, items) ==
  /\ Working(r, "idle") /\ sent < MaxBatches
  /\ sent' = sent + 1
  /\ batch' = [batch EXCEPT ![r] = [step |-> "read", target |-> t, items |-> items,
                                    upserted |-> 0]]
  /\ UNCHANGED <<producerVars, live, assets, reported>>

\* A target that does not exist is a 500, and so is a failed read.
GetByUIDInternal(r) ==
  /\ Working(r, "read")
  /\ IF batch[r].target \in live THEN Continue(r, "upsert") ELSE Continue(r, "done")
  /\ UNCHANGED <<producerVars, live, assets, sent, reported>>

\* Mutant: the update takes every column of the new row.
Overwritten(old, item) == [discovered_by |-> item.discovered_by, first_seen |-> sent]

\* ON CONFLICT DO UPDATE: COALESCE(EXCLUDED.discovered_by, assets.discovered_by).
Refreshed(old, item) ==
  [old EXCEPT !.discovered_by = IF item.discovered_by = None THEN @ ELSE item.discovered_by]

Upserted(old, item) ==
  IF old = None THEN [discovered_by |-> item.discovered_by, first_seen |-> sent]
  ELSE Refreshed(old, item)

\* Mutant: no foreign key.
UpsertAnyway(r) ==
  LET t == batch[r].target  item == Head(batch[r].items) IN
  /\ Working(r, "upsert") /\ batch[r].items # <<>>
  /\ assets' = [assets EXCEPT ![t][item.asset] = Upserted(@, item)]
  /\ batch' = [batch EXCEPT ![r].items = Tail(@), ![r].upserted = @ + 1]
  /\ UNCHANGED <<producerVars, live, sent, reported>>

\* One INSERT.  The foreign key refuses it once the target is gone.
Upsert(r) ==
  LET t == batch[r].target  item == Head(batch[r].items) IN
  /\ Working(r, "upsert") /\ batch[r].items # <<>>
  /\ IF t \in live
     THEN /\ assets' = [assets EXCEPT ![t][item.asset] = Upserted(@, item)]
          /\ batch' = [batch EXCEPT ![r].items = Tail(@), ![r].upserted = @ + 1]
     ELSE Continue(r, "done") /\ UNCHANGED assets
  /\ UNCHANGED <<producerVars, live, sent, reported>>

\* A statement fails, or the caller goes away: what is stored stays, unreported.
UpsertFails(r) ==
  /\ batch[r].step \in {"read", "upsert"}
  /\ Fault /\ Continue(r, "done")
  /\ UNCHANGED <<emitting, mu, producer, opened, live, assets, sent, reported>>

\* Mutant: fire and forget.
EmittedBehind(r) ==
  /\ Working(r, "upsert") /\ batch[r].items = <<>>
  /\ Continue(r, "done") /\ EmitTo(r, "lock")
  /\ UNCHANGED <<mu, producer, opened, faults, live, assets, sent, reported>>

\* The request waits for its emission.
EmitScopeExpanded(r) ==
  /\ Working(r, "upsert") /\ batch[r].items = <<>>
  /\ Continue(r, "emit") /\ EmitTo(r, "lock")
  /\ UNCHANGED <<mu, producer, opened, faults, live, assets, sent, reported>>

\* Mutant: the event's UID is the target's, and NATS drops the second as a duplicate.
EmittedOnce(r) ==
  /\ Working(r, "emit") /\ emitting[r] \in {"sent", "lost"}
  /\ reported' = [reported EXCEPT ![batch[r].target] =
                    IF At(r, "sent") /\ @ = 0 THEN batch[r].upserted ELSE @]
  /\ Continue(r, "done") /\ EmitTo(r, "off")
  /\ UNCHANGED <<mu, producer, opened, faults, live, assets, sent>>

\* The emission's outcome makes no difference to the answer.
Emitted(r) ==
  /\ Working(r, "emit") /\ emitting[r] \in {"sent", "lost"}
  /\ reported' = [reported EXCEPT ![batch[r].target] =
                    IF At(r, "sent") THEN @ + batch[r].upserted ELSE @]
  /\ Continue(r, "done") /\ EmitTo(r, "off")
  /\ UNCHANGED <<mu, producer, opened, faults, live, assets, sent>>

AnswerBatch(r) ==
  /\ Working(r, "done")
  /\ batch' = [batch EXCEPT ![r] = NoBatch]
  /\ UNCHANGED <<producerVars, live, assets, sent, reported>>

\* By its owner or an admin; ON DELETE CASCADE.
DeleteTarget(t) ==
  /\ t \in live /\ live' = live \ {t}
  /\ assets' = [assets EXCEPT ![t] = [a \in Asset |-> None]]
  /\ UNCHANGED <<producerVars, batch, sent, reported>>

--------------------------------------------------------------------------------
InventoryInit ==
  /\ ProducerInit
  /\ live = Tid /\ assets = [t \in Tid |-> [a \in Asset |-> None]]
  /\ batch = [r \in Req |-> NoBatch] /\ sent = 0 /\ reported = [t \in Tid |-> 0]

Producing(r) == Emit(r) /\ UNCHANGED <<live, assets, batch, sent, reported>>

\* What a running request does next.
Serve(r) ==
  \/ GetByUIDInternal(r) \/ Upsert(r) \/ EmitScopeExpanded(r) \/ Producing(r) \/ Emitted(r) \/ AnswerBatch(r)

Shutdown == (Close \/ Closed) /\ UNCHANGED <<live, assets, batch, sent, reported>>

InventoryNext ==
  \/ \E r \in Req :
       \/ Serve(r) \/ UpsertFails(r)
       \/ \E t \in Tid, items \in Batches : UpsertAssets(r, t, items)
  \/ \E t \in Tid : DeleteTarget(t)
  \/ Shutdown

InventorySpec == InventoryInit /\ [][InventoryNext]_inventoryVars

\* A running request goes on: its statements, connections and publishes end, in
\* success or not, and a free mutex is taken by one of those that wait.
FairInventorySpec ==
  /\ InventorySpec
  /\ \A r \in Req : WF_inventoryVars(Serve(r))
  /\ WF_inventoryVars(Closed /\ Shutdown)

--------------------------------------------------------------------------------
(* Properties *)

InventoryTypeOK ==
  /\ ProducerTypeOK
  /\ live \subseteq Tid /\ assets \in [Tid -> [Asset -> AssetRow \cup {None}]]
  /\ batch \in [Req -> [step : {"idle", "read", "upsert", "emit", "done"}, target : Tid \cup {None},
                        items : Seq(Item), upserted : Nat]]
  /\ sent \in 0..MaxBatches /\ reported \in [Tid -> Nat]
  /\ \A r \in Req : Working(r, "emit") \/ At(r, "off")

\* Deleting a target takes its inventory with it (README.md:47), a batch that is being
\* stored at the time included.
NoOrphans == \A t \in Tid, a \in Asset : assets[t][a] # None => t \in live

\* Unless something fails, the events about a target account for every asset it has
\* (asset_service.go:58), but for the batches that are being stored or reported.
StoredIsReported ==
  faults = 0 /\ producer # "closed" =>
    \A t \in live :
      LET open == {r \in Req : batch[r].target = t}
      IN  Cardinality({a \in Asset : assets[t][a] # None}) <=
            reported[t] + SumFunctionOnSet([r \in Req |-> batch[r].upserted], open)

\* However batches overlap, a row that stays is never dated back or forward, and what
\* is known of who discovered it is not forgotten.
ProvenanceKept ==
  [][\A t \in Tid, a \in Asset :
       assets[t][a] # None /\ assets'[t][a] # None =>
         /\ assets'[t][a].first_seen = assets[t][a].first_seen
         /\ assets[t][a].discovered_by # None => assets'[t][a].discovered_by # None]_inventoryVars

\* Every batch is answered, although it may wait for a connection that another request
\* is making, and that may fail.
Answered == \A r \in Req : Working(r, "read") ~> Working(r, "idle")
================================================================================
