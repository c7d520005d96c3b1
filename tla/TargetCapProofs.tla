----------------------------- MODULE TargetCapProofs -----------------------------
(***************************************************************************)
(* What TLAPS proves of TargetCap, for any plans, limits, TTLs, timeout    *)
(* and number of requests: its types, how old a value in use can be, and   *)
(* how far a customer can get past the limit.                              *)
(***************************************************************************)
EXTENDS TargetCap, FiniteSetTheorems, TLAPS

USE TimeAssumption DEF Time

\* What the services hold, held and the cache contain; and that what a cache
\* entry says was held less than its remaining life and a timeout ago.
Tables ==
  /\ remote \in [Key -> Value] /\ \A k \in Key : remote[k] \in ValueOf(k)
  /\ held \in [Key -> [Value -> Time]]
  /\ \A k \in Key, v \in Value : held[k][v] <= now
  /\ edits \in 0..MaxEdits
  /\ owned \in Nat /\ extra \in 0..MaxExtra /\ now \in Time

Entries ==
  /\ cache \in [Key -> SUBSET Entry]
  /\ \A k \in Key : \A e \in cache[k] :
       /\ e.value \in ValueOf(k) /\ cache[k] = {e}
       /\ e.expires <= LastHeld(k, e.value) + TtlOf(k) + Timeout

Recent(f) == f.at < LastHeld(f.key, f.value) + TtlOf(f.key) + Timeout

\* A request that waits for a service has waited no longer than the timeout, and
\* an answer on its way was true when, or after, it was asked for.
CallOK(q) ==
  /\ q \in Call
  /\ q.step \in {"asked", "answered"} => q.began <= now /\ now <= q.began + Timeout
  /\ q.step = "answered" => /\ q.value \in ValueOf(q.key)
                            /\ q.began <= LastHeld(q.key, q.value)
  /\ q.step = "count" => q.key \in Plan /\ q.value \in Limit
  /\ \A f \in q.used : Recent(f)

Calls == req \in [Req -> Call] /\ \A r \in Req : CallOK(req[r])

IInv == Tables /\ Entries /\ Calls /\ OvershootIsBounded

--------------------------------------------------------------------------------
(* Values, types and ages *)

LEMMA Keys ==
  /\ User \in Key /\ User \notin Plan /\ DefaultPlan \in Plan /\ Plan \subseteq Key
  /\ \A k \in Key : ValueOf(k) \subseteq Value /\ TtlOf(k) \in Nat /\ TtlOf(k) > 0
  /\ \A k \in Key : k # User => k \in Plan /\ ValueOf(k) = Limit
  /\ ValueOf(User) = Plan
BY PlanAssumption DEF Key, ValueOf, Value, TtlOf

LEMMA LastHeldType ==
  ASSUME Tables, NEW k \in Key, NEW v \in Value
  PROVE  LastHeld(k, v) \in Nat /\ LastHeld(k, v) <= now
BY DEF Tables, LastHeld

\* Ages only shrink: nothing makes a value that was held seem held less recently.
LEMMA LastHeldGrows ==
  ASSUME Tables, Tables', now <= now',
         \/ UNCHANGED <<remote, held>>
         \/ \E k \in Key : \E v \in ValueOf(k) : Edit(k, v)
  PROVE  \A k \in Key, v \in Value : LastHeld(k, v) <= LastHeld(k, v)'
<1>1. CASE UNCHANGED <<remote, held>>
  BY <1>1 DEF Tables, LastHeld
<1>2. ASSUME NEW j \in Key, NEW w \in ValueOf(j), Edit(j, w)
      PROVE  \A k \in Key, v \in Value : LastHeld(k, v) <= LastHeld(k, v)'
  <2> SUFFICES ASSUME NEW k \in Key, NEW v \in Value
               PROVE  LastHeld(k, v) <= LastHeld(k, v)'
    OBVIOUS
  <2>1. /\ held' = [held EXCEPT ![j][remote[j]] = now]
        /\ remote' = [remote EXCEPT ![j] = w] /\ now' = now
    BY <1>2 DEF Edit
  <2>2. CASE k = j /\ v = remote[j]
    BY <2>1, <2>2 DEF Tables, LastHeld
  <2>3. CASE ~(k = j /\ v = remote[j])
    <3>1. held'[k][v] = held[k][v]
      BY <2>1, <2>3 DEF Tables
    <3>2. remote[k] = v => remote'[k] = v
      BY <2>1, <2>3 DEF Tables
    <3> QED BY <2>1, <3>1, <3>2 DEF Tables, LastHeld
  <2> QED BY <2>2, <2>3
<1> QED BY <1>1, <1>2

\* What was recent stays so.
LEMMA AgesKept ==
  ASSUME Tables, Tables', \A k \in Key, v \in Value : LastHeld(k, v) <= LastHeld(k, v)'
  PROVE  /\ \A f \in Fact : Recent(f) => Recent(f)'
         /\ cache' = cache /\ Entries => Entries'
<1>1. \A k \in Key, v \in Value : LastHeld(k, v) \in Nat /\ LastHeld(k, v)' \in Nat
  BY LastHeldType DEF Tables, LastHeld
<1>2. \A f \in Fact : Recent(f) => Recent(f)'
  <2> SUFFICES ASSUME NEW f \in Fact, Recent(f) PROVE Recent(f)'
    OBVIOUS
  <2>1. f.key \in Key /\ f.value \in Value /\ f.at \in Nat /\ TtlOf(f.key) \in Nat
    BY Keys DEF Fact
  <2> QED BY <1>1, <2>1 DEF Recent
<1>3. ASSUME cache' = cache, Entries PROVE Entries'
  <2> SUFFICES ASSUME NEW k \in Key, NEW e \in cache[k]
               PROVE  e.expires <= LastHeld(k, e.value)' + TtlOf(k) + Timeout
    BY <1>3 DEF Entries
  <2>1. e.expires \in Nat /\ e.value \in Value /\ TtlOf(k) \in Nat
    BY <1>3, Keys DEF Entries, Entry
  <2>2. e.expires <= LastHeld(k, e.value) + TtlOf(k) + Timeout
    BY <1>3 DEF Entries
  <2> QED BY <1>1, <2>1, <2>2
<1> QED BY <1>2, <1>3

LEMMA IdleOK == CallOK(Idle) /\ Idle.step = "idle"
BY Keys DEF Idle, CallOK, Call, Step, Value

--------------------------------------------------------------------------------
(* A request's own step *)

Same == UNCHANGED <<remote, held, edits, now>>

LEMMA OneCall ==
  ASSUME Calls, Same, NEW r \in Req, NEW q, CallOK(q), req' = [req EXCEPT ![r] = q]
  PROVE  Calls'
<1>1. q \in Call
  BY DEF CallOK
<1>2. req' \in [Req -> Call]
  BY <1>1 DEF Calls
<1>3. ASSUME NEW s \in Req PROVE CallOK(req[s])'
  <2>1. req'[s] = IF s = r THEN q ELSE req[s]
    BY DEF Calls
  <2>2. CallOK(req'[s])
    BY <2>1 DEF Calls
  <2> QED BY <2>2 DEF CallOK, Recent, LastHeld, Same
<1> QED BY <1>2, <1>3 DEF Calls

\* A lookup's answer sends the request on.
LEMMA LookedUpOK ==
  ASSUME NEW q \in Call, NEW v \in ValueOf(q.key)
  PROVE  /\ CallOK(LookedUp(q, v))
         /\ LookedUp(q, v).step \in {"lookup", "count"}
<1>1. q.key \in Key /\ v \in Value
  BY Keys DEF Call
<1>2. CASE q.key = User
  <2> DEFINE p == [step |-> "lookup", key |-> v, value |-> v, began |-> 0,
                   judged |-> FALSE, used |-> {}]
  <2>1. v \in Key
    BY <1>2, Keys
  <2>2. p \in Call
    BY <1>1, <2>1 DEF Call, Step
  <2>3. LookedUp(q, v) = p
    BY <1>2 DEF LookedUp, Idle
  <2> QED BY <2>2, <2>3 DEF CallOK
<1>3. CASE q.key # User
  <2> DEFINE p == [step |-> "count", key |-> q.key, value |-> v, began |-> 0,
                   judged |-> FALSE, used |-> {}]
  <2>1. q.key \in Plan /\ v \in Limit
    BY <1>1, <1>3, Keys
  <2>2. p \in Call
    BY <1>1 DEF Call, Step
  <2>3. LookedUp(q, v) = p
    BY <1>3 DEF LookedUp, Idle
  <2> QED BY <2>1, <2>2, <2>3 DEF CallOK
<1> QED BY <1>2, <1>3

LEMMA GivenOK ==
  ASSUME Tables, NEW q \in Call, NEW v \in ValueOf(q.key),
         now < LastHeld(q.key, v) + TtlOf(q.key) + Timeout
  PROVE  CallOK(Given(q, v)) /\ Given(q, v).step \in {"lookup", "count"}
<1> DEFINE fact == [key |-> q.key, value |-> v, at |-> now]
           p == LookedUp(q, v)
           g == [p EXCEPT !.used = {fact}]
<1>1. fact \in Fact /\ Recent(fact)
  BY Keys DEF Fact, Call, Recent, Tables
<1>2. CallOK(p) /\ p \in Call /\ p.step \in {"lookup", "count"}
  BY LookedUpOK DEF CallOK
<1>3. Given(q, v) = g
  <2>1. p = IF q.key = User THEN [Idle EXCEPT !.step = "lookup", !.key = v, !.value = v]
            ELSE [Idle EXCEPT !.step = "count", !.key = q.key, !.value = v]
    BY DEF LookedUp
  <2> QED BY DEF Given
<1> HIDE DEF p, fact
<1>4. /\ g \in Call /\ g.step = p.step /\ g.key = p.key /\ g.value = p.value
      /\ g.began = p.began /\ g.used = {fact}
  BY <1>1, <1>2 DEF Call
<1>5. CallOK(g) /\ g.step \in {"lookup", "count"}
  BY <1>1, <1>2, <1>4 DEF CallOK
<1> QED BY <1>3, <1>5

--------------------------------------------------------------------------------
(* The overshoot *)

LEMMA AdmittedFinite ==
  /\ IsFiniteSet(Admitted) /\ Cardinality(Admitted) \in Nat
  /\ Cardinality(Req) \in Nat /\ Cardinality(Req) >= 1
  /\ Cardinality(Admitted) <= Cardinality(Req)
<1>1. Admitted \subseteq Req
  BY DEF Admitted
<1>2. Cardinality(Req) # 0
  BY ReqAssumption, FS_EmptySet
<1> QED BY <1>1, <1>2, ReqAssumption, FS_Subset, FS_CardinalityType

\* A request that stays out of the admitted ones, or leaves them.
LEMMA NoNewAdmitted ==
  ASSUME Tables, OvershootIsBounded, NEW r \in Req, NEW q, Calls,
         req' = [req EXCEPT ![r] = q], ~(q.step = "insert" /\ q.judged),
         owned' = owned, extra' = extra
  PROVE  OvershootIsBounded'
<1>1. Admitted' \subseteq Admitted
  BY DEF Admitted, At, Calls
<1>2. Cardinality(Admitted') <= Cardinality(Admitted) /\ Cardinality(Admitted') \in Nat
  BY <1>1, AdmittedFinite, FS_Subset, FS_CardinalityType
<1> QED BY <1>2, AdmittedFinite, LimitAssumption DEF OvershootIsBounded, Tables

\* The cap admits a request below the limit, hence below the highest one.
LEMMA OneMoreAdmitted ==
  ASSUME Tables, NEW r \in Req, Calls, owned < TopLimit,
         req' = [req EXCEPT ![r] = [@ EXCEPT !.step = "insert", !.judged = TRUE]],
         owned' = owned, extra' = extra
  PROVE  OvershootIsBounded'
<1>1. Admitted' \subseteq Req
  BY DEF Admitted
<1>2. Cardinality(Admitted') <= Cardinality(Req) /\ Cardinality(Admitted') \in Nat
  BY <1>1, ReqAssumption, FS_Subset, FS_CardinalityType
<1> QED BY <1>2, AdmittedFinite, LimitAssumption DEF OvershootIsBounded, Tables

\* An admitted request inserts: it leaves the admitted ones as its target arrives.
LEMMA AdmittedInserts ==
  ASSUME Tables, OvershootIsBounded, NEW r \in Admitted, Calls,
         req' = [req EXCEPT ![r] = Idle], owned' = owned + 1, extra' = extra
  PROVE  OvershootIsBounded'
<1>1. Admitted' = Admitted \ {r}
  BY DEF Admitted, At, Calls, Idle
<1>2. Cardinality(Admitted') = Cardinality(Admitted) - 1
  BY <1>1, AdmittedFinite, FS_RemoveElement
<1> QED BY <1>2, AdmittedFinite, LimitAssumption DEF OvershootIsBounded, Tables

--------------------------------------------------------------------------------
(* The invariant *)

LEMMA TablesKept ==
  ASSUME Tables, Same, owned' \in Nat, extra' \in 0..MaxExtra
  PROVE  Tables' /\ (cache' = cache /\ Entries => Entries')
BY DEF Tables, Same, Entries, LastHeld

\* A step of a request that stays clear of the cache and of the table of targets.
LEMMA QuietStep ==
  ASSUME IInv, NEW r \in Req, NEW q, CallOK(q), ~(q.step = "insert" /\ q.judged),
         req' = [req EXCEPT ![r] = q], UNCHANGED <<remote, held, edits, cache, owned, extra, now>>
  PROVE  IInv'
<1>1. Same /\ owned' \in Nat /\ extra' \in 0..MaxExtra
  BY DEF Same, IInv, Tables
<1>2. Tables' /\ Entries'
  BY <1>1, TablesKept DEF IInv
<1>3. Calls'
  BY <1>1, OneCall DEF IInv
<1>4. OvershootIsBounded'
  BY NoNewAdmitted DEF IInv
<1> QED BY <1>2, <1>3, <1>4 DEF IInv

LEMMA RequestSteps ==
  ASSUME IInv, NEW r \in Req, Request(r)
  PROVE  IInv'
<1> USE DEF IInv
<1>0. CallOK(req[r]) /\ req[r] \in Call /\ req[r].key \in Key
  BY DEF Calls, CallOK, Call
<1> DEFINE bypass == [Idle EXCEPT !.step = "insert"]
<1>a. /\ bypass \in Call /\ bypass.step = "insert" /\ bypass.judged = FALSE
      /\ bypass.used = {} /\ (Bypass(r) => req' = [req EXCEPT ![r] = bypass])
  BY IdleOK DEF CallOK, Call, Step, Idle, Bypass
<1> HIDE DEF bypass
<1>b. CallOK(bypass) /\ ~bypass.judged
  BY <1>a DEF CallOK
<1>1. CASE Create(r)
  <2>1. PICK k \in Key : req' = [req EXCEPT ![r] = [Idle EXCEPT !.step = "lookup", !.key = k]]
    BY <1>1 DEF Create
  <2> DEFINE q == [Idle EXCEPT !.step = "lookup", !.key = k]
  <2>2. q \in Call /\ q.step = "lookup" /\ q.used = {}
    BY IdleOK DEF CallOK, Call, Step, Idle
  <2>4. req' = [req EXCEPT ![r] = q]
    BY <2>1
  <2> HIDE DEF q
  <2>3. CallOK(q)
    BY <2>2 DEF CallOK
  <2> QED BY <1>1, <2>2, <2>3, <2>4, QuietStep DEF Create
<1>2. CASE CreateAsAdmin(r)
  BY <1>2, <1>a, <1>b, QuietStep DEF CreateAsAdmin
<1>3. ASSUME NEW e \in Cached(req[r].key), Hit(r, e) PROVE IInv'
  <2> DEFINE k == req[r].key
             g == Given(req[r], e.value)
  <2>1. e \in cache[k] /\ now < e.expires
    BY <1>3 DEF Cached
  <2>2. /\ e.value \in ValueOf(k) /\ e.value \in Value /\ e.expires \in Nat
        /\ e.expires <= LastHeld(k, e.value) + TtlOf(k) + Timeout
    BY <1>0, <2>1, Keys DEF Entries, Entry
  <2>3. now < LastHeld(k, e.value) + TtlOf(k) + Timeout
    BY <1>0, <2>1, <2>2, LastHeldType, Keys DEF Tables
  <2>4. CallOK(g) /\ g.step # "insert"
    BY <1>0, <2>2, <2>3, GivenOK
  <2>5. /\ req' = [req EXCEPT ![r] = g]
        /\ UNCHANGED <<remote, held, edits, cache, owned, extra, now>>
    BY <1>3 DEF Hit
  <2> HIDE DEF g
  <2> QED BY <2>4, <2>5, QuietStep
<1>4. CASE Miss(r)
  <2> DEFINE q == [req[r] EXCEPT !.step = "asked", !.began = now]
  <2>1. q \in Call /\ q.step = "asked" /\ q.began = now /\ q.used = req[r].used
    BY <1>0 DEF Call, Step, Tables
  <2>2. req' = [req EXCEPT ![r] = q]
    BY <1>4 DEF Miss
  <2> HIDE DEF q
  <2>3. CallOK(q)
    BY <1>0, <2>1 DEF CallOK, Tables
  <2> QED BY <1>4, <2>1, <2>2, <2>3, QuietStep DEF Miss
<1>5. CASE Serve(r)
  <2> DEFINE k == req[r].key
             q == [req[r] EXCEPT !.step = "answered", !.value = remote[k]]
  <2>1. remote[k] \in Value /\ remote[k] \in ValueOf(k)
    BY <1>0 DEF Tables
  <2>2. /\ q \in Call /\ q.step = "answered" /\ q.key = k /\ q.value = remote[k]
        /\ q.began = req[r].began /\ q.used = req[r].used
    BY <1>0, <2>1 DEF Call, Step
  <2>3. req' = [req EXCEPT ![r] = q]
    BY <1>5 DEF Serve
  <2> HIDE DEF q
  <2>4. LastHeld(k, q.value) = now /\ q.began <= now /\ now <= q.began + Timeout
    BY <1>0, <1>5, <2>2 DEF Serve, At, CallOK, LastHeld
  <2>5. CallOK(q)
    BY <1>0, <2>1, <2>2, <2>4 DEF CallOK
  <2> QED BY <1>5, <2>2, <2>3, <2>5, QuietStep DEF Serve
<1>6. CASE Store(r)
  <2> DEFINE k == req[r].key
             v == req[r].value
             e == [value |-> v, expires |-> now + TtlOf(k)]
             g == Given(req[r], v)
  <2>1. /\ At(r, "answered") /\ cache' = [cache EXCEPT ![k] = {e}]
        /\ req' = [req EXCEPT ![r] = g]
        /\ UNCHANGED <<remote, held, edits, owned, extra, now>>
    BY <1>6 DEF Store
  <2>2. /\ k \in Key /\ v \in ValueOf(k) /\ v \in Value
        /\ now <= LastHeld(k, v) + Timeout
    <3>1. k \in Key /\ v \in Value /\ req[r].began \in Nat
      BY <1>0 DEF Call
    <3>2. v \in ValueOf(k) /\ req[r].began <= LastHeld(k, v) /\ now <= req[r].began + Timeout
      BY <1>0, <2>1 DEF At, CallOK
    <3> QED BY <3>1, <3>2, LastHeldType DEF Tables
  <2>3. /\ e \in Entry
        /\ e.expires <= LastHeld(k, v) + TtlOf(k) + Timeout
        /\ now < LastHeld(k, v) + TtlOf(k) + Timeout
    BY <2>2, LastHeldType, Keys DEF Entry, Tables
  <2>4. CallOK(g) /\ g.step # "insert"
    BY <1>0, <2>2, <2>3, GivenOK
  <2> HIDE DEF g
  <2>5. Same /\ Tables'
    BY <2>1, TablesKept DEF Same, Tables
  <2>6. Entries'
    <3>1. cache' \in [Key -> SUBSET Entry]
      BY <2>1, <2>2, <2>3 DEF Entries
    <3>2. ASSUME NEW j \in Key, NEW f \in cache'[j]
          PROVE  /\ f.value \in ValueOf(j) /\ cache'[j] = {f}
                 /\ f.expires <= LastHeld(j, f.value) + TtlOf(j) + Timeout
      <4>1. CASE j = k
        <5>1. cache'[j] = {e} /\ f = e
          BY <2>1, <3>2, <4>1, <2>2 DEF Entries
        <5> QED BY <5>1, <4>1, <2>2, <2>3
      <4>2. CASE j # k
        <5>1. cache'[j] = cache[j]
          BY <2>1, <4>2 DEF Entries
        <5> QED BY <3>2, <5>1 DEF Entries
      <4> QED BY <4>1, <4>2
    <3> QED BY <2>5, <3>1, <3>2 DEF Entries, Same, LastHeld
  <2>7. Calls'
    BY <2>1, <2>4, <2>5, OneCall
  <2>8. OvershootIsBounded'
    BY <2>1, <2>4, NoNewAdmitted
  <2> QED BY <2>5, <2>6, <2>7, <2>8
<1>7. CASE NoAnswer(r)
  <2>1. CASE req[r].key = User
    <3> DEFINE q == LookedUp(req[r], FallbackPlan)
    <3>1. CallOK(q) /\ q.step # "insert"
      BY <1>0, <2>1, Keys, LookedUpOK DEF FallbackPlan
    <3>2. /\ req' = [req EXCEPT ![r] = q]
          /\ UNCHANGED <<remote, held, edits, cache, owned, extra, now>>
      BY <1>7, <2>1 DEF NoAnswer
    <3> HIDE DEF q
    <3> QED BY <3>1, <3>2, QuietStep
  <2>2. CASE req[r].key # User
    BY <1>7, <2>2, <1>a, <1>b, QuietStep DEF NoAnswer
  <2> QED BY <2>1, <2>2
<1>8. CASE Refuse(r)
  BY <1>8, IdleOK, QuietStep DEF Refuse, Return
<1>9. CASE Admit(r)
  <2> DEFINE q == [req[r] EXCEPT !.step = "insert", !.judged = TRUE]
  <2>1. /\ At(r, "count") /\ ~AtCap(owned, req[r].value)
        /\ req' = [req EXCEPT ![r] = q] /\ Same /\ UNCHANGED <<cache, owned, extra>>
    BY <1>9 DEF Admit, Consent, Same
  <2>2. CallOK(q)
    <3>1. q \in Call /\ q.step = "insert" /\ q.used = req[r].used
      BY <1>0 DEF Call, Step
    <3> HIDE DEF q
    <3> QED BY <1>0, <3>1 DEF CallOK
  <2>3. Tables' /\ Entries' /\ Calls'
    BY <2>1, <2>2, TablesKept, OneCall DEF Tables
  <2>4. owned < TopLimit
    BY <1>0, <2>1, LimitAssumption DEF CallOK, At, AtCap, Tables
  <2>5. OvershootIsBounded'
    BY <2>1, <2>4, OneMoreAdmitted
  <2> QED BY <2>3, <2>5
<1>10. CASE NotCounted(r)
  BY <1>10, <1>a, <1>b, QuietStep DEF NotCounted
<1>11. CASE Insert(r)
  <2>1. /\ At(r, "insert") /\ req' = [req EXCEPT ![r] = Idle] /\ owned' = owned + 1
        /\ extra' = (IF req[r].judged THEN extra ELSE extra + 1) /\ extra' <= MaxExtra
        /\ Same /\ cache' = cache
    BY <1>11 DEF Insert, Return, Same
  <2>2. Tables' /\ Entries' /\ Calls'
    <3>1. owned' \in Nat /\ extra' \in 0..MaxExtra
      BY <2>1 DEF Tables
    <3> QED BY <2>1, <3>1, TablesKept, OneCall, IdleOK
  <2>3. ASSUME req[r].judged PROVE OvershootIsBounded'
    <3>1. r \in Admitted
      BY <2>1, <2>3 DEF Admitted
    <3>2. extra' = extra
      BY <2>1, <2>3
    <3> QED BY <2>1, <3>1, <3>2, AdmittedInserts
  <2>4. ASSUME ~req[r].judged PROVE OvershootIsBounded'
    <3>1. Admitted' \subseteq Admitted
      BY <2>1 DEF Admitted, At, Calls, Idle
    <3>2. Cardinality(Admitted') <= Cardinality(Admitted) /\ Cardinality(Admitted') \in Nat
      BY <3>1, AdmittedFinite, FS_Subset, FS_CardinalityType
    <3>3. owned' = owned + 1 /\ extra' = extra + 1
      BY <2>1, <2>4
    <3>4. owned \in Nat /\ extra \in Nat /\ TopLimit \in Nat
      BY LimitAssumption DEF Tables
    <3> QED BY <3>2, <3>3, <3>4, AdmittedFinite DEF OvershootIsBounded
  <2> QED BY <2>2, <2>3, <2>4
<1>12. CASE Leave(r)
  BY <1>12, IdleOK, QuietStep DEF Leave, Return
<1> QED BY <1>1, <1>2, <1>3, <1>4, <1>5, <1>6, <1>7, <1>8, <1>9, <1>10, <1>11, <1>12 DEF Request

\* The clock, or a service's values, move: ages only shrink and waits stay short.
LEMMA WorldStep ==
  ASSUME IInv, Tables', now <= now', UNCHANGED <<cache, req, owned, extra>>,
         \A k \in Key, v \in Value : LastHeld(k, v) <= LastHeld(k, v)',
         \A r \in Req : req[r].step \in {"asked", "answered"} => now' <= req[r].began + Timeout
  PROVE  IInv'
<1>1. Entries' /\ \A f \in Fact : Recent(f) => Recent(f)'
  BY AgesKept DEF IInv
<1>2. ASSUME NEW r \in Req PROVE CallOK(req[r])'
  <2> DEFINE q == req[r]
  <2>1. CallOK(q) /\ q \in Call /\ q.key \in Key /\ q.value \in Value /\ q.began \in Nat
        /\ q.used \subseteq Fact
    BY DEF IInv, Calls, CallOK, Call
  <2>2. q.step = "answered" => q.began <= LastHeld(q.key, q.value)'
    <3>1. LastHeld(q.key, q.value) \in Nat /\ LastHeld(q.key, q.value)' \in Nat
      BY <2>1, LastHeldType DEF IInv, Tables, LastHeld
    <3> QED BY <2>1, <3>1 DEF CallOK
  <2>3. q.step \in {"asked", "answered"} => q.began <= now' /\ now' <= q.began + Timeout
    BY <2>1 DEF CallOK, IInv, Tables
  <2>4. \A f \in q.used : Recent(f)'
    BY <1>1, <2>1 DEF CallOK
  <2> QED BY <2>1, <2>2, <2>3, <2>4 DEF CallOK
<1>3. Calls'
  BY <1>2 DEF IInv, Calls
<1>4. OvershootIsBounded'
  BY DEF IInv, OvershootIsBounded, Admitted, At
<1> QED BY <1>1, <1>3, <1>4 DEF IInv

LEMMA NextInv == IInv /\ [Next]_vars => IInv'
<1> SUFFICES ASSUME IInv, [Next]_vars PROVE IInv'
  OBVIOUS
<1>1. ASSUME NEW r \in Req, Request(r) PROVE IInv'
  BY <1>1, RequestSteps
<1>2. ASSUME NEW k \in Key, NEW v \in ValueOf(k), Edit(k, v) PROVE IInv'
  <2>1. /\ edits < MaxEdits /\ edits' = edits + 1 /\ now' = now
        /\ held' = [held EXCEPT ![k][remote[k]] = now]
        /\ remote' = [remote EXCEPT ![k] = v]
        /\ UNCHANGED <<cache, req, owned, extra>>
    BY <1>2 DEF Edit
  <2>2. v \in Value
    BY Keys
  <2>3. Tables'
    BY <2>1, <2>2 DEF IInv, Tables
  <2>4. \A j \in Key, w \in Value : LastHeld(j, w) <= LastHeld(j, w)'
    BY <1>2, <2>1, <2>3, LastHeldGrows DEF IInv, Tables
  <2> QED BY <2>1, <2>3, <2>4, WorldStep DEF IInv, Tables, Calls, CallOK
<1>3. CASE DeleteTarget
  <2>1. /\ owned' = owned - 1 /\ owned' \in Nat /\ Same
        /\ UNCHANGED <<cache, req, extra>>
    BY <1>3 DEF DeleteTarget, Same, IInv, Tables
  <2>2. Tables' /\ Entries'
    BY <2>1, TablesKept DEF IInv, Tables
  <2>3. Calls'
    BY <2>1 DEF IInv, Calls, CallOK, Recent, LastHeld, Same
  <2>4. OvershootIsBounded'
    BY <2>1, AdmittedFinite, LimitAssumption DEF IInv, Tables, OvershootIsBounded, Admitted, At
  <2> QED BY <2>2, <2>3, <2>4 DEF IInv
<1>4. CASE Tick
  <2>1. /\ now < MaxTime /\ now' = now + 1
        /\ UNCHANGED <<remote, held, edits, cache, req, owned, extra>>
        /\ \A r \in Req : req[r].step \in {"asked", "answered"} => now < req[r].began + Timeout
    BY <1>4 DEF Tick
  <2>2. Tables' /\ now <= now'
    BY <2>1 DEF IInv, Tables
  <2>3. \A j \in Key, w \in Value : LastHeld(j, w) <= LastHeld(j, w)'
    BY <2>1, <2>2, LastHeldGrows DEF IInv
  <2>4. ASSUME NEW r \in Req, req[r].step \in {"asked", "answered"}
        PROVE  now' <= req[r].began + Timeout
    BY <2>1, <2>4 DEF IInv, Tables, Calls, Call
  <2> QED BY <2>1, <2>2, <2>3, <2>4, WorldStep
<1>5. CASE UNCHANGED vars
  <2>1. Same /\ UNCHANGED <<cache, req, owned, extra>>
    BY <1>5 DEF vars, Same
  <2>2. Tables' /\ Entries'
    BY <2>1, TablesKept DEF IInv, Tables
  <2>3. Calls' /\ OvershootIsBounded'
    BY <2>1 DEF IInv, Calls, CallOK, Recent, LastHeld, Same, OvershootIsBounded, Admitted, At
  <2> QED BY <2>2, <2>3 DEF IInv
<1> QED BY <1>1, <1>2, <1>3, <1>4, <1>5 DEF Next

LEMMA InitInv == Init => IInv
<1> SUFFICES ASSUME Init PROVE IInv
  OBVIOUS
<1>1. Tables /\ Entries
  BY DEF Init, Tables, Entries
<1>2. Calls
  BY IdleOK DEF Init, Calls, CallOK
<1>3. OvershootIsBounded
  <2>1. Admitted = {}
    BY DEF Init, Admitted, At, Idle
  <2>2. Cardinality(Admitted) = 0
    BY <2>1, FS_EmptySet
  <2> QED BY <2>2, AdmittedFinite, LimitAssumption DEF Init, OvershootIsBounded
<1> QED BY <1>1, <1>2, <1>3 DEF IInv

--------------------------------------------------------------------------------
(* The theorems *)

\* What every reachable state of the services, the caches and the requests keeps.
THEOREM SpecInv == Spec => []IInv
BY InitInv, NextInv, PTL DEF Spec

\* TypeOK: services, caches and requests keep their types.
THEOREM TypeCorrect == Spec => []TypeOK
<1>1. IInv => TypeOK
  BY DEF IInv, Tables, Entries, Calls, CallOK, TypeOK, At
<1> QED BY <1>1, SpecInv, PTL

\* UsedValuesAreRecent: how old a plan or a limit in use can be, for any TTLs and
\* timeout, any number of requests for the same key and any order of their answers.
THEOREM ValuesAreRecent == Spec => []UsedValuesAreRecent
<1>1. IInv => UsedValuesAreRecent
  BY DEF IInv, Calls, CallOK, Recent, UsedValuesAreRecent
<1> QED BY <1>1, SpecInv, PTL

\* OvershootIsBounded: how far past the highest limit a customer's concurrent
\* requests can get, for any number of them.
THEOREM BoundedOvershoot == Spec => []OvershootIsBounded
<1>1. IInv => OvershootIsBounded
  BY DEF IInv
<1> QED BY <1>1, SpecInv, PTL
================================================================================
