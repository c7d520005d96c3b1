-------------------------------- MODULE TargetCap -------------------------------
(***************************************************************************)
(* The plan target cap in front of POST /v1/targets, for one customer:     *)
(* TargetCapService (target_cap.go) asks service-service for the plan when *)
(* the caller did not stamp it, scan-service for the plan's limit, counts  *)
(* the customer's targets, and the handler then inserts the target.        *)
(*                                                                         *)
(* PlanResolver and EntitlementsClient are the same cache: an entry is used*)
(* until it expires; on a miss every request asks for itself, outside the  *)
(* mutex, and stores what it was told when the answer arrives.  Both are   *)
(* modelled as one table of keys, the customer and the plans.  The two     *)
(* services are external: an operator changes their values at any time.    *)
(***************************************************************************)
EXTENDS Integers, FiniteSets

CONSTANTS
  Req,              \* slots of create requests
  User,             \* the key of the customer's plan
  Plan,             \* plans, and the keys of their limits
  DefaultPlan,      \* the plan assumed when none could be resolved
  Limit,            \* values of max_targets; negative is unlimited
  TopLimit,         \* a bound of the limits in use
  PlanTTL, EntitlementsTTL,
  Timeout,          \* of the HTTP client of either service
  MaxEdits,         \* bound: changes of a plan or a limit
  MaxExtra,         \* bound: inserts the cap did not judge
  MaxTime           \* bound: the clock

ASSUME PlanAssumption == DefaultPlan \in Plan /\ User \notin Plan
ASSUME LimitAssumption ==
  /\ Limit \subseteq Int /\ TopLimit \in Nat
  /\ \A l \in Limit : l <= TopLimit
ASSUME ReqAssumption == IsFiniteSet(Req) /\ Req # {}
ASSUME TimeAssumption ==
  /\ PlanTTL \in Nat \ {0} /\ EntitlementsTTL \in Nat \ {0} /\ Timeout \in Nat
  /\ MaxEdits \in Nat /\ MaxExtra \in Nat /\ MaxTime \in Nat

VARIABLES
  remote,  \* what the two services hold for each key
  held,    \* history: when a value they no longer hold was replaced
  edits,   \* changes so far
  cache,   \* the entry of each key, if any
  req,     \* each request: next step and its locals
  owned,   \* the customer's targets
  extra,   \* history: inserts the cap did not judge
  now      \* the clock

vars == <<remote, held, edits, cache, req, owned, extra, now>>

Key        == Plan \cup {User}
ValueOf(k) == IF k = User THEN Plan ELSE Limit
Value      == Plan \cup Limit
TtlOf(k)   == IF k = User THEN PlanTTL ELSE EntitlementsTTL
Time       == 0..MaxTime

\* key is what the request looks up, value what it was told, began when it asked;
\* used is history: what the last lookup gave it, and when.
Idle == [step |-> "idle", key |-> User, value |-> DefaultPlan, began |-> 0,
         judged |-> FALSE, used |-> {}]

At(r, s)   == req[r].step = s
Goto(r, s) == req' = [req EXCEPT ![r].step = s]
Return(r)  == req' = [req EXCEPT ![r] = Idle]

\* Towards the insert: with the cap's consent to that limit, or unjudged.
Consent(r) == req' = [req EXCEPT ![r] = [@ EXCEPT !.step = "insert", !.judged = TRUE]]
Bypass(r)  == req' = [req EXCEPT ![r] = [Idle EXCEPT !.step = "insert"]]

--------------------------------------------------------------------------------
(* A create request *)

\* The key of the first lookup: the plan of X-User-Plan, which the gateway stamps
\* as it sees fit, or the customer when there is none.
Create(r) ==
  /\ At(r, "idle")
  /\ \E k \in Key : req' = [req EXCEPT ![r] = [Idle EXCEPT !.step = "lookup", !.key = k]]
  /\ UNCHANGED <<remote, held, edits, cache, owned, extra, now>>

\* IsAdminRequest: the cap is not asked.
CreateAsAdmin(r) ==
  /\ At(r, "idle")
  /\ Bypass(r)
  /\ UNCHANGED <<remote, held, edits, cache, owned, extra, now>>

\* A plan leads to the lookup of its limit, a limit to the count.
LookedUp(q, v) ==
  IF q.key = User THEN [Idle EXCEPT !.step = "lookup", !.key = v, !.value = v]
                  ELSE [Idle EXCEPT !.step = "count", !.key = q.key, !.value = v]

Given(q, v) ==
  LET fact == [key |-> q.key, value |-> v, at |-> now] IN
  [LookedUp(q, v) EXCEPT !.used = {fact}]

\* Mutant: expires is not looked at.
Remembered(k) == cache[k]

Cached(k) == {e \in cache[k] : now < e.expires}

Hit(r, e) ==
  /\ At(r, "lookup")
  /\ e \in Cached(req[r].key)
  /\ req' = [req EXCEPT ![r] = Given(req[r], e.value)]
  /\ UNCHANGED <<remote, held, edits, cache, owned, extra, now>>

Miss(r) ==
  /\ At(r, "lookup")
  /\ Cached(req[r].key) = {}
  /\ req' = [req EXCEPT ![r] = [@ EXCEPT !.step = "asked", !.began = now]]
  /\ UNCHANGED <<remote, held, edits, cache, owned, extra, now>>

\* The service reads its table; the answer is on its way.
Serve(r) ==
  /\ At(r, "asked")
  /\ req' = [req EXCEPT ![r] = [@ EXCEPT !.step = "answered", !.value = remote[req[r].key]]]
  /\ UNCHANGED <<remote, held, edits, cache, owned, extra, now>>

\* The entry lives from the arrival of the answer, and replaces whatever a
\* concurrent request has stored.
Store(r) ==
  LET q == req[r] IN
  /\ At(r, "answered")
  /\ cache' = [cache EXCEPT ![q.key] = {[value |-> q.value, expires |-> now + TtlOf(q.key)]}]
  /\ req' = [req EXCEPT ![r] = Given(q, q.value)]
  /\ UNCHANGED <<remote, held, edits, owned, extra, now>>

FallbackPlan == DefaultPlan

\* No usable answer in time.  Without a plan the default one is assumed, and not
\* cached; without a limit the cap fails open.
NoAnswer(r) ==
  /\ req[r].step \in {"asked", "answered"}
  /\ IF req[r].key = User THEN req' = [req EXCEPT ![r] = LookedUp(req[r], FallbackPlan)]
                          ELSE Bypass(r)
  /\ UNCHANGED <<remote, held, edits, cache, owned, extra, now>>

\* Mutant: the comparison is off by one.
OverCap(n, max) == n > max

AtCap(n, max) == n >= max

Refuse(r) ==
  /\ At(r, "count")
  /\ req[r].value >= 0
  /\ AtCap(owned, req[r].value)
  /\ Return(r)
  /\ UNCHANGED <<remote, held, edits, cache, owned, extra, now>>

Admit(r) ==
  /\ At(r, "count")
  /\ req[r].value >= 0
  /\ ~AtCap(owned, req[r].value)
  /\ Consent(r)
  /\ UNCHANGED <<remote, held, edits, cache, owned, extra, now>>

\* An unlimited plan is not counted; a count that fails fails open.
NotCounted(r) ==
  /\ At(r, "count")
  /\ Bypass(r)
  /\ UNCHANGED <<remote, held, edits, cache, owned, extra, now>>

\* CreateTarget inserts the row.
Insert(r) ==
  /\ At(r, "insert")
  /\ extra' = IF req[r].judged THEN extra ELSE extra + 1
  /\ extra' <= MaxExtra
  /\ owned' = owned + 1
  /\ Return(r)
  /\ UNCHANGED <<remote, held, edits, cache, now>>

\* A duplicate or a refused kind inserts nothing; a request may stop anywhere.
Leave(r) ==
  /\ ~At(r, "idle")
  /\ Return(r)
  /\ UNCHANGED <<remote, held, edits, cache, owned, extra, now>>

DeleteTarget ==
  /\ owned > 0
  /\ owned' = owned - 1
  /\ UNCHANGED <<remote, held, edits, cache, req, extra, now>>

--------------------------------------------------------------------------------
(* The environment *)

\* The customer changes plan, or an operator edits a plan's limit.
Edit(k, v) ==
  /\ edits < MaxEdits
  /\ v # remote[k]
  /\ edits' = edits + 1
  /\ held' = [held EXCEPT ![k][remote[k]] = now]
  /\ remote' = [remote EXCEPT ![k] = v]
  /\ UNCHANGED <<cache, req, owned, extra, now>>

\* A request to a service ends, one way or the other, within the client's timeout.
Tick ==
  /\ now < MaxTime
  /\ \A r \in Req : req[r].step \in {"asked", "answered"} => now < req[r].began + Timeout
  /\ now' = now + 1
  /\ UNCHANGED <<remote, held, edits, cache, req, owned, extra>>

Init ==
  /\ remote \in [Key -> Value] /\ \A k \in Key : remote[k] \in ValueOf(k)
  /\ held = [k \in Key |-> [v \in Value |-> 0]]
  /\ edits = 0
  /\ cache = [k \in Key |-> {}]
  /\ req = [r \in Req |-> Idle]
  /\ owned = 0
  /\ extra = 0
  /\ now = 0

Request(r) ==
  \/ Create(r) \/ CreateAsAdmin(r)
  \/ (\E e \in Cached(req[r].key) : Hit(r, e)) \/ Miss(r) \/ Serve(r) \/ Store(r) \/ NoAnswer(r)
  \/ Refuse(r) \/ Admit(r) \/ NotCounted(r) \/ Insert(r) \/ Leave(r)

Next ==
  \/ \E r \in Req : Request(r)
  \/ \E k \in Key : \E v \in ValueOf(k) : Edit(k, v)
  \/ DeleteTarget
  \/ Tick

Spec == Init /\ [][Next]_vars

--------------------------------------------------------------------------------
(* Properties *)

Step  == {"idle", "lookup", "asked", "answered", "count", "insert"}
Entry == [value : Value, expires : Nat]
Fact  == [key : Key, value : Value, at : Time]
Call  == [step : Step, key : Key, value : Value, began : Time,
          judged : BOOLEAN, used : SUBSET Fact]

\* Services, caches and requests have their types; whatever a lookup returned, a
\* request that counts compares with a limit, and one that asks asks for a key.
TypeOK ==
  /\ remote \in [Key -> Value] /\ \A k \in Key : remote[k] \in ValueOf(k)
  /\ held \in [Key -> [Value -> Time]]
  /\ edits \in 0..MaxEdits
  /\ cache \in [Key -> SUBSET Entry]
  /\ \A k \in Key : \A e \in cache[k] : e.value \in ValueOf(k) /\ cache[k] = {e}
  /\ req \in [Req -> Call]
  /\ \A r \in Req : /\ At(r, "answered") => req[r].value \in ValueOf(req[r].key)
                    /\ At(r, "count") => req[r].key \in Plan /\ req[r].value \in Limit
  /\ owned \in Nat /\ extra \in 0..MaxExtra /\ now \in Time

\* The last time the services held a value they did hold.
LastHeld(k, v) == IF remote[k] = v THEN now ELSE held[k][v]

\* A plan or limit that a request was given was the service's own less than the
\* cache's TTL and one request timeout before, however requests for the same key
\* overlap and whichever of their answers is stored last.
UsedValuesAreRecent ==
  \A r \in Req : \A f \in req[r].used :
    f.at < LastHeld(f.key, f.value) + TtlOf(f.key) + Timeout

Admitted == {r \in Req : At(r, "insert") /\ req[r].judged}

\* Counting and inserting are not atomic, but the damage is bounded: the targets a
\* customer owns, with those about to be inserted, exceed the highest limit by
\* fewer than the requests that can run at once, the unjudged ones aside.
OvershootIsBounded ==
  owned + Cardinality(Admitted) <= TopLimit + Cardinality(Req) - 1 + extra
================================================================================
