# Formal model of target-service

TLA+ models of `target-service`, the safety boundary of the scanning platform: who
owns a target, whether a scan may run against it, and how much a customer may
register. Each module is translated from the Go source (paths below are relative to
the repository); TLC checks it on small instances and TLAPS proves its safety
properties for every instance. `PROJECT.json` holds the index: which lines each
definition models, which run checks which property, and a mutant that breaks each.

## 1. Inventory

| Component | Source | State | Operations | What makes it hard | Modules |
|---|---|---|---|---|---|
| Target ownership lifecycle | `internal/service/target_service.go`, `target_admin_service.go`, `internal/repository/{target,authorization}_repository.go` | rows of `target.targets`, `target.authorizations` | create, get, verify, delete; program create, manual authorize, revoke; the event each reports | no handler runs in a transaction: every request is a sequence of single SQL statements that interleave with others and may stop anywhere | `TargetLifecycle`, `ScanBoundary`, `AuditTrail`, `TargetLifecycleProofs`, `CompositionProofs` |
| Ownership challenges | `verification_service.go` | none of its own (writes authorizations) | IssueChallenge, SwitchMethod, RunCheck | slow outbound checks between two writes | in `TargetLifecycle` |
| Scope gate | `scope_service.go`, `handler/internal_handler.go` | none (reads both tables) | CheckVerified, CheckScope | reads outside a transaction; authorizations in no order; names that answer each lookup differently; many ways to be refused, failed reads among them | `ScopeGate`, `ScopeVerdict`, `CompositionProofs`, `ScopeVerdictProofs` |
| Program policy | `program_service.go`, `ingest/hackerone.go`, `program_repository.go`, `programVerdict` | `bugbounty_programs`, `program_assets` | SyncProgram, the verdict | paged fetch of a listing that changes; overlapping transactions; row and assets read separately; staleness window | `ProgramPolicy`, `ProgramPolicyProofs` |
| Target cap | `target_cap.go`, `client/entitlements.go`, `client/plan_resolver.go`, `handler/target_handler.go` | two in-memory TTL caches; the count of targets | Resolve, MaxTargets, Check, Create | count and insert are separate; concurrent cache misses; failing open | `TargetCap`, `TargetCapProofs` |
| Public tools: limiter | `handler/tools_handler.go` | token buckets by IP, a semaphore | allow, janitor, guard | tokens that fall due between two readings of the clock, shared buckets, eviction while in use | `ToolsLimiter`, `TokenBucket`, `ToolsLimiterProofs` |
| Public tools: checks | `tools_service.go`, `header_checker.go`, `header_grader.go`, `tls_checker.go`, `email_auth.go` | none beyond a request | WebsiteCheck, the three checks, grading | fork and join, retries and redirects under one deadline, ignored errors | `WebsiteCheck`, `WebsiteCheckProofs` |
| Target registry | `handler/{target,admin}_handler.go`, `handler/helpers.go`, `target_repository.go`, `target_admin_service.go`, `middleware/user_uid.go` | rows of `target.targets` | create, delete, list, statistics | pages and counts of a table that others write; two creates of one value; headers the gateway does not strip | `TargetRegistry`, `TableProofs` |
| Asset inventory | `asset_service.go`, `asset_repository.go` | `target.assets` | UpsertAssets, List | a batch without a transaction, against other batches and the deletion of the target | `AssetInventory`, `TableProofs` |
| Audit producer | `producer/producer.go` | one cached NATS producer, a mutex | producerFor, emit, Close | events after the writes they report, errors ignored; a mutex held over a connection attempt | `AuditProducer`, `AuditTrail`, `TableProofs`, `CompositionProofs` |
| Handlers, middleware, DTOs | `handler/*`, `middleware/*`, `model/*` | none | binding, validation, answers | - | what they decide is in the modules above |
| Start-up, store, generated docs, deployment files | `cmd/*`, `store/*`, `helm`, `gitops`, `ci` | none | wiring | - | not modelled, but for the producer's shutdown hook |

How they interact: customers and admins drive the lifecycle through HTTP, at any time
and concurrently. `scan-service` asks the gate twice, CheckVerified before a scan and
CheckScope before each of its tasks; the gate only reads the lifecycle's tables, and
for a program-linked authorization hands over to the program policy, which admins
sync from the platform. The cap sits in front of `POST /v1/targets` only. `scan-service`
also sends what it has discovered to the inventory, which hangs off the same targets.
Handlers report their writes to the audit producer, which all requests of the process
share. All shared state is in PostgreSQL, except the caches, the producer and the tools'
buckets.

What makes each correct:

- *Lifecycle*: a program target is never demoted; nobody becomes an owner except by a
  proved challenge or an admin's grant; after a revocation nothing attested is active;
  a verified target has the row that says why; no target is left `verifying`.
- *Gate*: an answer in favour respects a kill switch that was pulled before the check
  began, although it takes two reads; it rests on an authorization that covers what was
  asked and hands out only addresses that were vetted; and a check that nothing disturbs
  is refused only for a reason.
- *Audit*: no event tells what is not so, and while nothing fails every grant and every
  revocation is told, whatever overlaps.
- *Registry*: one row for a value and owner, however it was written; a Keycloak UUID only
  on its owner's rows; a reader of pages or statistics is wrong by no more than was
  written meanwhile.
- *Inventory and producer*: a deletion leaves no assets, an overlap loses no provenance,
  every stored asset is reported unless something fails, one connection is shared, and
  nobody waits for ever on its mutex.
- *Program policy*: what is stored is always one sync's policy, however their statements
  overlap; an allowance rests on fresh terms and on a scope that covers the host and does not exclude it; a fetch
  loses no part of a listing it can hold.
- *Target cap*: what a customer gets past the limit, and the age of the limit that is
  compared with, are bounded.
- *Tools*: a client is admitted no more often than an ideal token bucket allows, although
  buckets are shared, given back and forgotten; a grade is earned whatever was missed on
  the way; every visitor has an answer by the deadline.

## 2. Modules

`X` is a component, `MCX` gives its constants values for TLC, `XProofs` EXTENDS `X`
with its theorems. `CompositionProofs` holds those of the two modules built on
`TargetLifecycle`, `TableProofs` those of the registry and the inventory.

### TargetLifecycle

State: `status` and `source` of each target, the rows of `target.authorizations` by id
(`auths`), what each request in flight does next (`call`: a step, the target and the
row it holds), `faults`, and the history variable `killed`.

- One action per SQL statement, named after the handler: `TriggerVerification` is
  `verify_latest` (read), `verify_issue` / `verify_switch` (insert), `verify_begin`
  (status := verifying), `verify_check` (RunCheck), `verify_demote` or `verify_mark`,
  `verify_finish`, `verify_refetch`. A statement uses what an earlier one read: that
  is `call[r].row`.
- A row is `pending`, active or `lapsed`, by `verified_at` and `expires_at`. Active is
  split in `proved` and `attested`, by whose request set `verified_at` last.
- Ids are given in order and `ORDER BY created_at DESC, id DESC LIMIT 1` is the
  largest live id. The foreign key refuses an insert for a deleted target; its
  cascade makes rows `gone`.
- `RunCheck` may pass any challenge method and no other: whether the token is
  published is the owner's choice. `meta_tag` behaves as `http_file` and
  `ip_registry` as `email`, so the instances use one of each.
- `Abort(r)` is a crash, a cancelled context, or a failed statement after which the
  handler returns; where a failed statement makes the handler go on (`auth, _ :=
  GetByTargetID`), the failure is a branch of that statement.
- Requests that change nothing (lists, stats, a duplicate create) are left out.
  `DeleteTarget` and `DeleteAny` end in the same DELETE and are one action. Tokens,
  evidence and scopes are abstracted; the audit events are in `AuditTrail`.

### AuditTrail

EXTENDS `TargetLifecycle` with the event each slot is `sending` and the `trail` of those
published. The last write of a handler (`VerifyFinish`, `VerifyDemote`, `ProgramAttest`,
`AuthorizeFinish`, `RevokeFinish`) starts the emission; until it is published (`Publish`)
or lost (`Lose`) the slot does nothing else, and the other slots go on. `DeleteAny` is the
admin's deletion: it reads the target, deletes, and reports whether or not the DELETE
found a row. An event is its type and target: the three types that say that access was
granted are one, and `target.verification_failed`, of which nothing is claimed, is
emitted but not kept. The row of `README.md:38`, "Every write emits an audit event", is
true of the code only while nothing fails: emissions are not retried, and the events of
requests that are aborted after a write are never sent. That is the premise
`faults + lost = 0` of the two `Recorded` properties.

### ScopeGate

EXTENDS `TargetLifecycle`: a check reads the target (`ReadTarget`), then the active
authorizations (`ReadAuths`), then decides (`Verified`, `Allowed`, or `Leave`). Between
the two reads any request may run. `Allowed(g, row)` picks any row the check read,
because the query has no ORDER BY. A check that is denied for what it asks ends by
`Leave`. `shut` is history: whether a kill was in force the whole time from the start of
the check to its second read.

### ScopeVerdict

What a check decides, with everything it looks at: the fields of the request (absent ones
included), `world` (status, authorizations, what the program permits), which `Change`
alters between two steps, and the addresses of each lookup, which the name's owner
chooses anew each time. `ReadTarget`, `ReadAuths`, `VetDirect` / `Vet` / `VetNoHost`,
`DecideBy` and `DenyByDefault` are the stretches of `CheckScope` between two of its reads.

- Hosts, addresses, domains and blocks are sets with a membership relation: suffix
  matching and CIDR arithmetic are `Under` and `Within`. `Reserved` is go-safedial's
  denylist, `Shared` the CDN ranges.
- `ipTargets` is `IPTargetsEnabled`: FALSE as shipped; the variable is assigned by the
  repository's tests, so both values are explored.
- `DecideBy(row)` takes any row that applies, since the query has no order. A row linked
  to a program always applies, and `ProgramPermits` reads the program as it is then. What
  the program's verdict consists of is `ProgramPolicy`; here it is a set of hosts and
  addresses.
- With IP targets enabled, a request that names a host and an IP is pinned to both though
  only one need be covered; "exactly one must be provided" (model/target.go:204) is not
  validated. Every pin is vetted, which is what `PinsAreSafe` says.
- A read that fails is answered in three ways. The target's is a denial
  (`ReadTargetFails`, scope_service.go:266), and so are the program's row and assets, whose
  errors `resolveProgramAuth` drops (`ProgramUnread`); that of the authorizations is an
  error, and there is no answer (`Leave`).
- `lookups`, `calm` and `failed` are history.

### TargetRegistry

State: `targets` by id, the ids `taken`, one `query` under way, and history (`seen`,
`due`, `came`, `left`) of what a reader has been shown and what was written meanwhile.
Each SQL statement is one action. Ids come from a sequence, so inserts may commit out of
id order; `created_at` follows the id, and a page holds the rows whose rank is between
`OFFSET` and `OFFSET + LIMIT`.

- `Write` is every statement that changes the table, and keeps the history: a row that
  enters or leaves the filter, or changes its sort key, has come or left.
- `Create` and `CreateProgram` show the unique key on (user, kind, normalised value); the
  challenge and the authorization that follow are the lifecycle's, so `UpdateStatus` moves
  a status to any other.
- `UserUID` is the middleware's binding of `X-User-Uid` to `X-User-Id` by `deriveUserID`,
  and `KeycloakUID` the second one, to the owner of the row.
- The substring filter `q` and the other sort columns are left out: nothing else differs.
  `ValidatePagingParams` ignores its `allowedSortFields`; the repository's own list is
  what protects the query. `(page - 1) * size` wraps for absurd page numbers; the database
  refuses the negative OFFSET and nothing is shown.

### AuditProducer and AssetInventory

`AuditProducer` is the shared connection: `Lock`, `LookUp`, `Connect` or `ConnectFails`
are `producerFor` under its mutex, `PublishAudit` or `PublishFails` the rest of `emit`,
`Close` and `Closed` the shutdown hook. Whoever uses it says what is emitted.
`AssetInventory` uses it: a batch is read target, one INSERT per item, emit, answer, with
any other batch and the deletion of the target in between.

- `Refreshed` is the ON CONFLICT clause: a row keeps its `first_seen`, and its
  `discovered_by` when the new one is NULL. `sent` serves as a coarse clock.
- The event's `asset_count` counts every item, although its comments (asset_service.go:58,
  producer.go:133) speak of new assets: refreshed ones, and one item sent twice, count
  again. `StoredIsReported` therefore bounds the inventory by what is reported and not the
  other way round.
- "Close waits for pending fire-and-forget messages" (producer.go:85) has nothing to wait
  for, since no emission joins the group: a request that publishes after `Close` finds a
  closed producer in the map, and its event is lost. `StoredIsReported` excludes a closed
  producer.

### ProgramPolicy

State: the `edition` of its listing the platform shows, the stored `program` row and
`assets`, the `sync` requests, the `check`s, the clock, and `log`, the policies
committed so far. `FetchPage` reads one page of the edition that is current at that
moment, and the loop ends at an empty page, at a page without a next link, or at the cap.
`BeginSync` fixes `now()`; `UpsertProgram`, `DeleteAssets` and `CommitSync` are the statements
of the transaction, with the INSERTs of the assets in the last. From PostgreSQL, which is
external, the model takes that a statement sees what is committed, that the row a
transaction has written stays locked until it ends (`RowFree`), and that a failure rolls all
back (`SyncFails`). That the row is written before the DELETE is the code's own order, and
it is what keeps the assets of two syncs apart: `StoreIsOnePolicy` fails when the assets are
replaced first, because the second DELETE does not see what the first sync then inserts.
A check reads row
and assets in two actions and computes the set of all questions (host, phase) it would
allow, instead of picking one. Questions about an IP are left out: while
`IPTargetsEnabled` is false CheckScope denies them before the verdict.

### TargetCap

One customer. The plan cache and the entitlement cache are the same code shape, and
one table here: keys are the customer (value: a plan) and the plans (value: a limit).
A request looks up the customer or starts with the stamped plan, looks up the limit,
counts, inserts. On a miss it asks for itself (`Miss`, `Serve`, `Store`), outside the
mutex, as both clients do. `Edit` changes what a service holds. The clock may not pass a
pending request's timeout. `held` and `used` are history.

### ToolsLimiter and TokenBucket

State: the handler's map (`limiters` and `lastSeen` of each address); each `bucket` (its
level, in ticks of refill, and its last event); the requests in flight, each holding the
limiter it looked up; the semaphore; the clock. `spare` and `blurred` are history: the
ideal level of each client, and whether its refusals overlapped. `LookUp` is the part of `allow` under the
mutex; what follows is what it does with the limiter after the unlock,
so a request may hold a limiter the janitor (`Sweep`) has dropped from the map.

- `rate.Limiter` is a library. `Reserve`, `Delay` and `Cancel` (tools_handler.go:112 to 117)
  each read the clock: `Admit` and `ReserveLater` are the first, `AdmitLate` and `Refuse` the
  second, `Cancel` the third. A token that is not there at `Reserve` may be there when
  `Delay` is asked, and the request is then admitted (`AdmitLate`). `spare` counts such an
  admission when its token falls due, which is when the client may have it; a request that
  stalls may use it later.
- `Cancel` gives back only what no later reservation has taken, and nothing once the token
  was due. Two refused requests that overlap can therefore lose tokens: that is why
  `LoneRefusalIsFree` speaks of refusals alone.
- A 503 from the semaphore keeps the token it took, as the code does. The release is
  deferred in each of the four handlers as soon as it has its permit; a handler that forgot
  it would be seen at once, and no property is spent on it.
- `Stall` bounds how long a request may stay between the look-up and `Delay`. The
  idle time must cover a refill and that stall; the theorem assumes it, and the real
  values (2 h against 10 tokens an hour) satisfy it.
- `TokenBucket` is the promise: one bucket per address that is never forgotten, given
  back to or shared. It is stated over the admissions of each client; a client that is
  waiting for a token may take it as soon as it is there.

### WebsiteCheck

State: the `site` (protocol versions, chain, hours to expiry), where each of the three
checks is and what it has found, when its current operation `began`, the clock, the
`answer`, and the history variable `missed`. Each action is the end of one outbound
operation, in success or in failure. `Limit` combines the 20 s of the request's context
with the 10 s of each operation. `Graded` is what `GradeHeaders` gives for any combination
of verdicts its graders can reach.

- A lookup of `email_auth.go` that fails counts as no record and the check returns no
  error, so "every sub-check fails" (tools_service.go:61) cannot happen: the action is
  there, and no behaviour takes that branch.
- A handshake succeeds only if the site's chain is valid: the `tls.Config` of
  tls_checker.go:94 leaves Go's verification on, in the retry and in the probes too. A site
  whose chain is expired or untrusted has no grade, so the deductions for them are met only
  by a certificate that ends between the handshake and the grade (`Expire`), and the days
  left are zero then, not negative.
- A probe that fails although the site accepts its version counts as "not accepted" and can
  raise the TLS grade; `missed` marks those answers. The comment at tls_checker.go:40 ("always ends up with the worst grade")
  holds only if the first handshake failed over versions: after a transient failure the
  retry negotiates TLS 1.3 and an A is reachable, correctly.
- The error of reading the body is ignored (header_checker.go:112), so a page is graded when
  its headers were there in time, even if the body ran into the timeout (`Responded`).
- After the last hop, or without a Location, a redirect response is graded as a page.
- The nine DKIM lookups are one step. Record parsing and header syntax are left out.

### Abstract specifications

`ScanBoundary` is what the state machine of a target promises to those who ask whether it
may be scanned: registration, proof, grant, expiry, revocation, change of standing and
deletion, each done at once to one target, without rows, requests or statements. It says
that only a proof of a customer's own target or an admin's grant opens a target, that
nothing is shown as verified that was never proved or granted (but a new program target),
that a program target is never opened again, that a revocation takes every reason away in
one step and only a grant ends it, and that a deletion is for good. `TargetLifecycle`
implements it: `AllAccess` is the refinement mapping, which reads the abstract state off the
rows (`Grounds`, `HasEvidence`), the status and `killed`. `BoundaryKept` checks an
instance without faults; `LifecycleKeepsBoundary` is the theorem, for any faults. Reads, refused inserts, aborts and pending
rows are stutters; a statement on a target deleted meanwhile is one too.

`ScopeGate` is shown to implement `TargetLifecycle` (theorem
`GateImplementsLifecycle`): the checks take nothing from the state machine, so all that
is proved of it, `BoundaryKept` included, holds under the gate. The same is shown of
`AuditTrail` (`AuditImplementsLifecycle`). `ToolsLimiter` implements `TokenBucket`
(`WithinBudget` checks the instance, `KeptToBudget` is the theorem).

## 3. Runs

| Run | Shows | Bounds | States |
|---|---|---|---|
| `lifecycle_safety` | six invariants under every interleaving | 1 target, 2 requests, 3 rows, 1 fault | 2.03 M |
| `audit_trail` | true events, told grants and revocations, statements that amount to the steps of `ScanBoundary`, no target stays `verifying` | 1 target, 2 requests, 2 rows, no faults, 1 lost event | 501 k |
| `gate_safety` | the kill switch across the gate's two reads | 1 target, 2 requests, 2 rows, 1 check, 1 fault | 1.27 M |
| `verdict_safety` | safe pins, earned allowances, reasons for refusals | every request of 2 hosts and 3 addresses, 5 sets of rows, 4 answers, 3 programs, failing reads, 1 change | 381 k |
| `program_safety` | one policy stored, justified allowances, whole listings | 2 syncs, 1 check, editions of 2 and of 3 pages, cap of 2 pages, clock to 2 | 823 k |
| `cap_safety` | age of limits, overshoot | 2 requests, 1 plan, limits -1 and 1, clock to 3 | 523 k |
| `tools_safety` | admissions within an ideal bucket, lone refusals free | 2 clients, 2 requests, 2 buckets, burst 1, a token every 2 ticks, idle 4, stall 2, 1 permit, clock to 6 | 1.17 M |
| `website_safety` | grades, deadline, and that an answer comes | every site of the MC module, 1 redirect, up to 4 headers that do not pass, deadline 2, operations 1 | 851 k |
| `registry_safety` | unique values, bound UUIDs, bounded errors of readers | 2 users, 1 name written 2 ways, 2 ids, 1 status update, pages of 1 and 2 | 497 k |
| `inventory_safety` | no orphans, provenance, reports, one connection, every batch answered | 1 target, 2 assets, 2 requests, 3 batches, 1 fault, shutdown | 122 k |

Violations, each a statement of the documentation that the code does not keep:

| Run | Statement | What happens |
|---|---|---|
| `lifecycle_demoted` | target_service.go:29, the 409 for admin-authorized targets | the test looks at the method of the latest row, and at a moment before the grant |
| `lifecycle_refetch` | target_service.go:208 "Re-fetch to get final state." | the target is deleted meanwhile, the nil result is dereferenced |

What each property says, by run (each is stated in full above its definition):

- `lifecycle_safety`: `ProgramNeverDemoted` (no customer request takes a program target back
  to unverified), `KillSwitchHolds` (an admin's revocation), `OnlyChallengesAreProved` (only
  a challenge of a customer target becomes active through a check), `VerifiedHasRow` (a
  verified target has the row that says why, but for one named window) and `VerifyingIsOwned`.
- `audit_trail`: `EventsAreTrue`, `GrantIsRecorded`, `RevokeIsRecorded`, `BoundaryKept`
  (the refinement of `ScanBoundary`), and under fairness `VerifyingResolves`.
- `gate_safety`: `GateHonoursKill`. `verdict_safety`: `PinsAreSafe`, `AllowIsEarned`,
  `RefusalHasReason`.
- `program_safety`: `AllowIsJustified`, `StoreIsOnePolicy`, `SyncStoresWholeListing`.
- `cap_safety`: `UsedValuesAreRecent` (age of what a request was given) and
  `OvershootIsBounded` (the cap is exceeded by fewer than the requests at work).
- `tools_safety`: `LoneRefusalIsFree`, `WithinBudget` (the refinement of `TokenBucket`).
- `website_safety`: `TLSGradeIsEarned` (no grade without a trusted chain, nothing better than
  D for an outdated protocol, F for a certificate that ended meanwhile, and an A with nothing missed
  only for a site that refuses TLS 1.0 and 1.1), `HeaderGradeIsEarned`, `InDeadline`, and
  under fairness `Answered`.
- `registry_safety`: `OneRowPerValue`, `UIDBelongsToOwner`, `WalkIsAccountedFor` (what paging
  misses or repeats is bounded by what moved), `NumbersAddUp` (the statistics).
- `inventory_safety`: `NoOrphans`, `StoredIsReported`, `OneConnection`, `ProvenanceKept`, and
  under fairness `Answered`.
- `lifecycle_demoted`: `AdminGrantNotDemoted`. `lifecycle_refetch`: `RefetchFindsTarget`.

Four more statements are stronger than what the code keeps. What it does keep is checked,
and is what the properties above say:

- README.md:46 "the scope gate denies every new task" (of the revoke route). A
  verification under way when an admin revokes, or started by the owner afterwards,
  verifies a customer target again: `TriggerVerification` does not look at the status and
  `MarkVerified` sets `expires_at` of whatever row it is given. `KillSwitchHolds` and
  `GateHonoursKill` say what the switch does hold: only a proved challenge of a customer
  target can be active after it.
- scope_service.go:369 "It is authoritative and default-deny" (of a program's
  authorization). The loop stops at the first row that applies and the rows come in no
  order, so on a program target that an admin has also authorized manually, the manual
  row may decide. `AllowIsEarned` asks for any row that covers the request.
- scope_service.go:494 "it ALLOWS only when the program policy is established, active, not
  stale, the host/IP matches an in-scope asset and no excluded asset". A sync that commits
  between the read of the row and the read of the assets gives the verdict the terms of
  one policy and the scope of the next. `AllowIsJustified` says terms and scope are each
  of a policy stored during the check.
- src/README.md:81 "always denied for intrusive testing even if they resolve from a verified
  host" (of the shared CDN ranges; internal_handler.go:87 likewise: "Rejects hosts/IPs that
  resolve to known shared-infrastructure ranges"). scope_service.go:300-315 denies an answer
  in those ranges to a test that is both intrusive and of the network layer. An intrusive
  test of the application layer of a host behind a CDN is allowed, and pinned to the CDN's
  addresses; the comment above that loop says that this is meant. `PinsAreSafe` and
  `RefusalHasReason` state what the code does.

Why the bounds are enough. Targets share no rows, so one target shows what requests do
to each other; two requests overlap in every way a pair can, and three rows allow a
challenge, a switched or second one and an admin's. The theorems cover what a third
request or target might add. Two syncs overlap in every order of
their statements; two editions give a listing that changes between pages, and one that is
longer than the page cap. In `TargetCap` a TTL of 2
and a timeout of 1 let an entry expire, be re-read and be one timeout older than its
TTL, and the time bound lets the tight age occur. One plan is enough there because the
plan cache and the entitlement cache are one piece of code in the model; the theorem
covers any number of plans. In `ToolsLimiter` two requests of one client or of
two overlap on a bucket and meet the janitor; a burst of one and a stall of a whole refill
let a token fall due between `Reserve` and `Delay`, and the clock bound lets a bucket empty,
refill and be dropped. In `WebsiteCheck` one redirect suffices to be followed and to be one too many,
a deadline of two operations makes the third run out of time, and four headers that do
not pass reach every grade from A to F. In `ScopeVerdict` there is a public, a shared and a
reserved address, and a host that merely looks like the domain, and an answer may hold a
public and a reserved address at once; one change is enough to fall between any two
steps. In `TargetRegistry` two rows and pages of one make every page boundary a place
where a row can slip through or come twice, and deletions and inserts can both happen
during one walk. In `AssetInventory` two batches of two items overlap on an item, one
holds an item twice, and the one fault can be any statement, connection or publish.
Deadlock checking is off because the bounds (row ids,
clock, syncs) end every behaviour. Request and sync slots are symmetric where no temporal
property is checked.

Fairness. `audit_trail` assumes weak fairness of `Answering(r)` for each request: a handler
that is running takes its next step. The source justifies it: there is no lock to wait
for, statements, outbound checks (`verification_service.go`) and emissions have timeouts,
and the instance has no faults (`MaxFaults = 0`); after a crash the property does not hold, which
is what `VerifyingIsOwned` says by its `faults = 0`. `website_safety` assumes weak fairness
of each check and of the join: every operation ends by its context or its client's timeout
(a failure is always enabled), and the handler waits for the `WaitGroup` only.
`inventory_safety` assumes weak fairness of `Serve(r)` and of the end of `Close`: statements,
connections and publishes end, in success or not, and of the two requests that may want
the mutex one has it and gives it back. Nothing else is fair: requests need not arrive, rows need not lapse, and the clock need not run.

## 4. Theorems

All are proved for every value of the constants, from the named ASSUMEs only
(`NoTarget` is not a target, method sets are disjoint, bounds are naturals, limits have
an upper bound, there is at least one request slot and finitely many, `NULL` is not a
row of the registry). Two of them the proofs showed to be needed, and TLC's instances had
hidden it: the producer's own slot, `"Close"`, is not the name of a request, and the requests
of the inventory are finitely many (`StoredIsReported` adds up over them).

- `TargetLifecycleProofs`: `TypeCorrect`, `ProgramTargetsStay`, `KillSwitch`,
  `ProofNeedsChallenge`, `VerifiedIsExplained`, `NothingStranded`, and the refinement
  `LifecycleKeepsBoundary` with what follows from it, `ScansGrounded`. The invariants are
  not inductive by themselves: a request acts on what it read earlier. `IInv` adds `Fine`,
  what a request may still rely on (its target's source, its row's target and method,
  evidence once given), because nothing updates those; `Stable` states that for each
  kind of statement once, and each action then accounts for its own request only.
  The refinement goes the same way: one lemma for each kind of statement (status, insert of
  a target or a row, a row changed, expiry, deletion) says which step of `ScanBoundary` it
  is, and an action has to show that its request may take it. It needs `IInv`: that a proof
  is for a customer's target, and a status of verified for one with evidence, is what the
  request read earlier.
- `CompositionProofs`, the gate: `GateImplementsLifecycle`, `GateTypeCorrect`, `KillSwitchAtGate`.
  `GInv` says of a check between its reads that the kill it found is still in force, and
  after them that the rows it holds were read under it; the step to the second read uses
  `KillSwitchHolds` of the lifecycle.
- `CompositionProofs`, the audit trail: `AuditImplementsLifecycle`, `AuditTypeCorrect`, `EventsTrue`,
  `GrantsRecorded`, `RevocationsRecorded`. An event on its way holds a promise about its
  target that no other request can break: evidence is never taken back but by deletion,
  and a deletion is final; and while nothing is lost a write that is not told has its
  request still before the event.
- `ScopeVerdictProofs`: `VerdictTypeCorrect`, `PinsSafe`, `AllowEarned`,
  `RefusalsHaveReasons`. `Vetted`, `Consented` and `Granted` say what the earlier steps
  have established for the request, whatever the world does since; `Steady` says, for a
  check that nothing has disturbed, that what it read is still so.
- `ProgramPolicyProofs`: `TypeCorrect`, `Justified`, `OnePolicyStored`, `WholeListing`.
  The strengthening relates a fetch to the pages read so far of an edition that has not
  changed, and a check's row to the entry of `log` it came from. For the stored policy,
  `OneHolder` says that one transaction at most has written the row, so nobody commits
  between its DELETE and its COMMIT and the assets it saw are all there are (`SyncOK`); it
  would be lost if the DELETE came before the row is written.
- `TargetCapProofs`: `TypeCorrect`, `ValuesAreRecent`, `BoundedOvershoot`. An entry
  expires at most TTL + timeout after its value was last held, an answer on its way was
  true no earlier than it was asked for, and admission happens below the limit.
- `ToolsLimiterProofs`: `TypeCorrect`, `KeptToBudget`, `RefusalAloneIsFree`. In the invariant the reservations outstanding on a bucket are a
  token apart (`Chain`), so that the ideal level covers the real one also after any of
  them is given back, and is full again once the janitor may forget the bucket
  (`Covered`); `Lone` adds the equality for refusals that do not overlap.
- `WebsiteCheckProofs`: `TypeCorrect`, `TLSGradesEarned`, `HeaderGradesEarned`,
  `AnsweredInTime`. `Negotiated` ties the version and the first probe to the site while the
  check runs, and keeps that its chain was trusted when the handshake succeeded; the grading lemmas are arithmetic over every verdict.

- `TableProofs`, the inventory: `InventoryTypeCorrect`, `NeverOrphaned`,
  `NeverTwoConnections`, `AllStoredIsReported`, `ProvenanceIsKept`. `MutexInv` says that whoever
  looks up or connects has the mutex and that a connection attempt starts from none.
  `StoredInv` strengthens the report to every moment: the assets stored are at most those
  reported plus those of the batches that have an event to come. That is a sum over a finite
  set of requests (`SumFunctionOnSet` of the community modules); the first lemmas show, from
  the well-foundedness of strict inclusion (`WFMin`), that such a sum exists and changes by
  what one of its terms changes.
- `TableProofs`, the registry: `RegistryTypeCorrect`, `NeverTwoRows`, `UIDIsTheOwners`,
  `WalksAreAccountedFor`, `StatisticsAddUp`. Rows in their order have distinct places, and one
  write moves one row: the others sink by a place if it comes before them and rise by one if
  it leaves. So the rows a walk has missed or let go are no more than have `left`, and those
  it has shown again or not known of no more than have come (`WalkInv`); a short page is
  then the last one. `StatsInv` says the groups counted so far cover the table up to what
  was written meanwhile. `HistoryInv` and `RowsInv` split the invariant, so that a step
  accounts for readers and for rows apart.

Model-checked only: liveness (`VerifyingResolves` and the two `Answered`) and the
violations. Liveness and ENABLED are beyond the prover; nothing here is recursive. Five
type invariants (`TypeOK` of `ProgramPolicy`, `ScopeVerdict`, `TargetCap` and `ToolsLimiter`,
`AuditTypeOK`) and `GateTypeOK` are proved and not checked by a run besides.

## 5. Not modelled

Parsing (header values, SPF, DMARC and DKIM records) and the hostname rules of
`hostname.go`: one request's input, no state. The addresses a dial may reach (go-safedial,
external). Wording of reasons and of verification instructions, DTO layouts, the envelope
of an audit event. Database pool, migrations, configuration and wiring in `main.go`;
generated API documentation. The registry's free-text filter. In the inventory, metadata
and `last_seen`, which the last writer sets.

## 6. Plan

Done: every module of section 2 with its run, every safety property of a run with its
theorem, and the four refinements. Left:

1. Which of two pending challenges a customer has been shown, in `TargetLifecycle`
   (target_service.go:131): it needs the tokens as data.
2. The gate's answers against `ScanBoundary`: that an answer in favour of a check that
   nothing disturbs is given only when `MayScan`.
