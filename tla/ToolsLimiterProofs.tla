--------------------------- MODULE ToolsLimiterProofs --------------------------
(***************************************************************************)
(* What TLAPS proves of ToolsLimiter, for any number of clients, requests  *)
(* and buckets, any rate and any clock bound: its types, that each client  *)
(* is kept to its token bucket, and that a refusal alone is free.          *)
(***************************************************************************)
EXTENDS ToolsLimiter, FiniteSetTheorems, TLAPS

\* A request that was not asked for its delay in time, whose token is still to come
\* or whose Cancel can still give it back.
Due(r) == \/ At(r, "delay") /\ req[r].act > now
          \/ At(r, "cancel") /\ req[r].act >= now

Mapped(r) == limiters[req[r].ip] = req[r].bucket

\* Between its lookup and its delay.
Early(r) == At(r, "reserve") \/ At(r, "delay")

\* A request under way holds a bucket that no other IP uses; until it knows its
\* delay it is its own IP's, because no janitor runs that soon after its lookup.
CallOK(r) ==
  /\ req[r].ip \in Ip /\ req[r].bucket \in Bucket
  /\ \A i \in Ip : limiters[i] = req[r].bucket => i = req[r].ip
  /\ Early(r) => /\ Mapped(r)
                 /\ req[r].seen <= lastSeen[req[r].ip]
                 /\ now <= req[r].seen + Stall

Calls ==
  /\ \A r \in Req : ~At(r, "idle") => CallOK(r)
  /\ \A i \in Ip : lastSeen[i] <= now

\* Outstanding reservations of one bucket are a token apart, none after lastEvent,
\* and the level shows all that is due before the last of them.
Apart(r, s) == req[r].act + Interval <= req[s].act \/ req[s].act + Interval <= req[r].act

Chain ==
  \A r \in Req : Due(r) =>
    /\ bucket[req[r].bucket].level <= now - req[r].act
    /\ req[r].act <= bucket[req[r].bucket].lastEvent
    /\ \A s \in Req : s # r /\ Due(s) /\ req[s].bucket = req[r].bucket => Apart(r, s)

\* The ideal level covers the real one, also after any one reservation is given
\* back, and is full again once the janitor may forget the bucket.
Covered ==
  /\ \A i \in Ip :
       /\ spare[i] \in 0..Full
       /\ limiters[i] = NoBucket => spare[i] = Full
       /\ limiters[i] # NoBucket => /\ bucket[limiters[i]].level <= spare[i]
                                    /\ \/ spare[i] = Full
                                       \/ now <= lastSeen[i] + Stall + spare[i]
  /\ \A r \in Req : Due(r) /\ Mapped(r) => now - req[r].act + Interval <= spare[req[r].ip]

\* Without overlap there is one refusal at a time, and it accounts for the difference.
Lone ==
  \A i \in Ip : limiters[i] # NoBucket /\ ~blurred[i] =>
    /\ Waiting(limiters[i]) = {} => bucket[limiters[i]].level = spare[i]
    /\ \A r, s \in Waiting(limiters[i]) : r = s
    /\ \A r \in Waiting(limiters[i]) : Due(r) =>
         /\ bucket[limiters[i]].lastEvent = req[r].act
         /\ bucket[limiters[i]].level + Interval = spare[i]

\* The permits that are out are those of the handlers that run.
Running == {r \in Req : At(r, "bind") \/ At(r, "check")}

PermitsAccounted == sem = Cardinality(Running)

IInv == TypeOK /\ PermitsAccounted /\ Calls /\ Chain /\ Covered /\ Lone

--------------------------------------------------------------------------------
(* Levels *)

LEMMA Rates ==
  /\ Interval \in Nat /\ Interval > 0 /\ Full \in Nat /\ Full >= Interval
  /\ Stall \in Nat /\ IdleTTL \in Nat /\ IdleTTL >= Full + Stall
<1>1. \A b, i \in Nat : b > 0 => b * i \in Nat /\ b * i >= i
  BY SMT
<1> QED BY <1>1, RateAssumption, BoundAssumption, IdleAssumption DEF Full, Ideal!Full

LEMMA Refills ==
  ASSUME NEW n \in Int, n <= Full, NEW d \in Nat
  PROVE  /\ Refilled(n, d) \in Int /\ n <= Refilled(n, d) /\ Refilled(n, d) <= Full
         /\ Refilled(n, d) <= n + d
         /\ n + d <= Full => Refilled(n, d) = n + d
         /\ Refilled(n, d) = n + d \/ Refilled(n, d) = Full
BY Rates DEF Refilled, Ideal!Refilled, Full

LEMMA NewLimiterOK == NewLimiter \in Limiter /\ NewLimiter.level = Full
BY Rates DEF NewLimiter, Limiter

LEMMA CancelledOK ==
  ASSUME NEW m \in Limiter, m.level <= Full, NEW act \in Nat, now \in Nat
  PROVE  LET c == Cancelled(m, act) IN
         /\ c \in Limiter /\ c.level <= Full
         /\ act < now => c = m
         /\ \/ c = m
            \/ /\ act >= now /\ m.lastEvent - act < Interval
               /\ c.level = Refilled(m.level, Interval - (m.lastEvent - act))
               /\ c.lastEvent = IF act = m.lastEvent /\ act - Interval >= now
                                THEN act - Interval ELSE m.lastEvent
<1> DEFINE back == Interval - (m.lastEvent - act)
           next == IF act = m.lastEvent /\ act - Interval >= now
                   THEN act - Interval ELSE m.lastEvent
<1>1. m.level \in Int /\ m.lastEvent \in Nat /\ back \in Int /\ next \in Nat
  BY Rates DEF Limiter
<1>2. CASE act < now \/ back <= 0
  BY <1>2 DEF Cancelled
<1>3. CASE ~(act < now \/ back <= 0)
  <2>1. Cancelled(m, act) = [level |-> Refilled(m.level, back), lastEvent |-> next]
    BY <1>3 DEF Cancelled
  <2>2. back \in Nat /\ m.lastEvent - act < Interval /\ act >= now
    BY <1>1, <1>3, Rates
  <2>3. Refilled(m.level, back) \in Int /\ Refilled(m.level, back) <= Full
    BY <1>1, <2>2, Refills
  <2> HIDE DEF next
  <2>4. Cancelled(m, act) \in Limiter
    BY <1>1, <2>1, <2>3 DEF Limiter
  <2>5. /\ Cancelled(m, act).level = Refilled(m.level, back)
        /\ Cancelled(m, act).lastEvent = next
    BY <2>1
  <2> QED BY <2>2, <2>3, <2>4, <2>5, <1>3 DEF next
<1> QED BY <1>2, <1>3

LEMMA IdleOK == Idle \in Call /\ Idle.step = "idle"
BY DEF Idle, Call, Step

--------------------------------------------------------------------------------
(* Permits *)

LEMMA RunningFinite == IsFiniteSet(Running) /\ Cardinality(Running) \in Nat
BY ReqAssumption, FS_Subset, FS_CardinalityType DEF Running

LEMMA CheckHasPermit ==
  ASSUME PermitsAccounted, NEW r \in Req, At(r, "bind") \/ At(r, "check")
  PROVE  sem > 0
<1>1. r \in Running /\ sem = Cardinality(Running)
  BY DEF Running, PermitsAccounted
<1>2. Cardinality(Running) # 0
  BY <1>1, RunningFinite, FS_EmptySet
<1> QED BY <1>1, <1>2, RunningFinite

LEMMA PermitSteps ==
  ASSUME TypeOK, PermitsAccounted, [Next]_vars
  PROVE  PermitsAccounted'
<1> USE DEF At, Goto, Return
<1>0. PermitsAccounted' = (sem' = Cardinality(Running'))
  BY DEF PermitsAccounted, Running
<1>1. ASSUME NEW r \in Req, Acquire(r) PROVE PermitsAccounted'
  <2>1. Running' = Running \cup {r} /\ r \notin Running
    BY <1>1 DEF Acquire, Running, TypeOK
  <2>2. Cardinality(Running') = Cardinality(Running) + 1
    BY <2>1, RunningFinite, FS_AddElement
  <2> QED BY <1>0, <1>1, <2>2 DEF Acquire, PermitsAccounted, Running
<1>2. ASSUME NEW r \in Req, Reject(r) \/ Finish(r) PROVE PermitsAccounted'
  <2>1. Running' = Running \ {r} /\ r \in Running
    <3>1. At(r, "bind") \/ At(r, "check")
      BY <1>2 DEF Reject, Finish
    <3>2. req' = [req EXCEPT ![r] = Idle]
      BY <1>2 DEF Reject, Finish, Release
    <3> QED BY <3>1, <3>2, IdleOK DEF Running, TypeOK
  <2>2. Cardinality(Running') = Cardinality(Running) - 1
    BY <2>1, RunningFinite, FS_RemoveElement
  <2> QED BY <1>0, <1>2, <2>2 DEF Reject, Finish, Release, PermitsAccounted, Running
<1>3. ASSUME sem' = sem, Running' = Running PROVE PermitsAccounted'
  BY <1>0, <1>3 DEF PermitsAccounted, Running
<1>4. ASSUME NEW r \in Req, \/ \E i \in Ip : LookUp(r, i)
                            \/ Admit(r) \/ ReserveLater(r) \/ Refuse(r) \/ AdmitLate(r)
                            \/ Cancel(r) \/ Busy(r) \/ Bind(r)
      PROVE  sem' = sem /\ Running' = Running
  <2>1. CASE \E i \in Ip : LookUp(r, i)
    BY <2>1 DEF LookUp, Running, TypeOK, Idle
  <2>2. CASE Admit(r)
    BY <2>2 DEF Admit, Running, TypeOK
  <2>3. CASE ReserveLater(r)
    BY <2>3 DEF ReserveLater, Running, TypeOK
  <2>4. CASE Refuse(r)
    BY <2>4 DEF Refuse, Running, TypeOK
  <2>8. CASE AdmitLate(r)
    BY <2>8 DEF AdmitLate, Running, TypeOK
  <2>5. CASE Cancel(r)
    BY <2>5 DEF Cancel, Running, TypeOK, Idle
  <2>6. CASE Busy(r)
    BY <2>6 DEF Busy, Running, TypeOK, Idle
  <2>7. CASE Bind(r)
    BY <2>7 DEF Bind, Running, TypeOK
  <2> QED BY <1>4, <2>1, <2>2, <2>3, <2>4, <2>5, <2>6, <2>7, <2>8
<1>5. ASSUME Sweep \/ Tick \/ UNCHANGED vars PROVE sem' = sem /\ Running' = Running
  BY <1>5 DEF Sweep, Tick, vars, Running
<1> QED BY <1>1, <1>2, <1>3, <1>4, <1>5 DEF Next, Request

--------------------------------------------------------------------------------
(* Types *)

LEMMA TypeSteps ==
  ASSUME TypeOK, Calls, PermitsAccounted, [Next]_vars
  PROVE  TypeOK'
<1> USE DEF At, Goto, Return
<1>1. ASSUME NEW r \in Req, NEW i \in Ip, LookUp(r, i) PROVE TypeOK'
  <2>1. PICK b \in Bucket :
          /\ IF limiters[i] = NoBucket
               THEN b \in Unused /\ bucket' = [bucket EXCEPT ![b] = NewLimiter]
               ELSE b = limiters[i] /\ UNCHANGED bucket
          /\ limiters' = [limiters EXCEPT ![i] = b]
          /\ req' = [req EXCEPT ![r] =
               [Idle EXCEPT !.step = "reserve", !.ip = i, !.bucket = b, !.seen = now]]
    BY <1>1 DEF LookUp
  <2>2. /\ lastSeen' = [lastSeen EXCEPT ![i] = now]
        /\ UNCHANGED <<sem, now, spare, blurred>>
    BY <1>1 DEF LookUp, Seen
  <2>3. [Idle EXCEPT !.step = "reserve", !.ip = i, !.bucket = b, !.seen = now] \in Call
    BY IdleOK DEF TypeOK, Call, Step
  <2>4. limiters' \in [Ip -> Bucket \cup {NoBucket}] /\ req' \in [Req -> Call]
    BY <2>1, <2>3 DEF TypeOK
  <2>5. \A k, j \in Ip : limiters'[k] = limiters'[j] /\ k # j => limiters'[k] = NoBucket
    BY <2>1, NoneAssumption DEF TypeOK, Unused, InUse
  <2>6. /\ bucket' \in [Bucket -> Limiter]
        /\ \A c \in Bucket : bucket'[c].level <= Full
    BY <2>1, NewLimiterOK, Rates DEF TypeOK
  <2> QED BY <2>2, <2>4, <2>5, <2>6 DEF TypeOK
<1>2. ASSUME NEW r \in Req, Admit(r) PROVE TypeOK'
  <2> DEFINE b == req[r].bucket
             left == bucket[b].level - Interval
  <2>1. CallOK(r) /\ req[r] \in Call
    BY <1>2 DEF Calls, Admit, TypeOK
  <2>2. /\ bucket' = [bucket EXCEPT ![b] = [level |-> left, lastEvent |-> now]]
        /\ spare' = [spare EXCEPT ![req[r].ip] = @ - Interval]
        /\ req' = [req EXCEPT ![r].step = "guard"]
        /\ UNCHANGED <<limiters, lastSeen, sem, now, blurred>>
    BY <1>2 DEF Admit
  <2>3. /\ b \in Bucket /\ left \in Int /\ left <= Full
        /\ [level |-> left, lastEvent |-> now] \in Limiter
    BY <2>1, Rates DEF CallOK, TypeOK, Limiter
  <2>4. bucket' \in [Bucket -> Limiter] /\ \A c \in Bucket : bucket'[c].level <= Full
    <3> HIDE DEF left
    <3> QED BY <2>2, <2>3 DEF TypeOK
  <2>5. req' \in [Req -> Call]
    BY <2>1, <2>2 DEF TypeOK, Call, Step
  <2>6. spare' \in [Ip -> Int]
    BY <2>1, <2>2, Rates DEF TypeOK, CallOK
  <2> QED BY <2>2, <2>4, <2>5, <2>6 DEF TypeOK
<1>7. ASSUME NEW r \in Req, ReserveLater(r) PROVE TypeOK'
  <2> DEFINE b == req[r].bucket
             left == bucket[b].level - Interval
             q == [req[r] EXCEPT !.step = "delay", !.act = now - left]
  <2>1. CallOK(r) /\ req[r] \in Call
    BY <1>7 DEF Calls, ReserveLater, TypeOK
  <2>2. /\ left < 0
        /\ bucket' = [bucket EXCEPT ![b] = [level |-> left, lastEvent |-> now - left]]
        /\ req' = [req EXCEPT ![r] = q]
        /\ blurred' = IF Waiting(b) = {} THEN blurred ELSE [blurred EXCEPT ![req[r].ip] = TRUE]
        /\ UNCHANGED <<limiters, lastSeen, sem, now, spare>>
    BY <1>7 DEF ReserveLater
  <2>3. /\ b \in Bucket /\ left \in Int /\ left <= Full /\ now - left \in Nat
        /\ [level |-> left, lastEvent |-> now - left] \in Limiter
    BY <2>1, <2>2, Rates DEF CallOK, TypeOK, Limiter
  <2> HIDE DEF left
  <2>4. bucket' \in [Bucket -> Limiter] /\ \A c \in Bucket : bucket'[c].level <= Full
    BY <2>2, <2>3 DEF TypeOK
  <2>5. q \in Call
    BY <2>1, <2>3 DEF Call, Step
  <2>6. blurred' \in [Ip -> BOOLEAN]
    BY <2>1, <2>2 DEF TypeOK, CallOK
  <2> HIDE DEF q
  <2> QED BY <2>2, <2>4, <2>5, <2>6 DEF TypeOK
<1>3. ASSUME NEW r \in Req, Cancel(r) PROVE TypeOK'
  <2> DEFINE b == req[r].bucket
             c == Cancelled(bucket[b], req[r].act)
  <2>1. CallOK(r) /\ req[r] \in Call
    BY <1>3 DEF Calls, Cancel, TypeOK
  <2>2. b \in Bucket /\ req[r].ip \in Ip /\ c \in Limiter /\ c.level <= Full
    BY <2>1, CancelledOK DEF CallOK, TypeOK, Call
  <2>3. /\ bucket' = [bucket EXCEPT ![b] = c]
        /\ req' = [req EXCEPT ![r] = Idle]
        /\ UNCHANGED <<limiters, lastSeen, sem, now, spare>>
    BY <1>3 DEF Cancel, GivenBack
  <2>4. bucket' \in [Bucket -> Limiter] /\ \A d \in Bucket : bucket'[d].level <= Full
    <3> HIDE DEF c
    <3> QED BY <2>2, <2>3 DEF TypeOK
  <2>5. req' \in [Req -> Call] /\ blurred' \in [Ip -> BOOLEAN]
    BY <1>3, <2>2, <2>3, IdleOK DEF Cancel, TypeOK
  <2> QED BY <2>3, <2>4, <2>5 DEF TypeOK
<1>4. ASSUME NEW r \in Req, Acquire(r) PROVE TypeOK'
  <2>1. req' = [req EXCEPT ![r].step = "bind"] /\ req[r] \in Call
    BY <1>4 DEF Acquire, TypeOK
  <2>2. req' \in [Req -> Call] /\ sem' \in 0..Permits
    BY <1>4, <2>1, RateAssumption DEF Acquire, TypeOK, Call, Step
  <2> QED BY <1>4, <2>2 DEF Acquire, TypeOK
<1>8. ASSUME NEW r \in Req, Busy(r) PROVE TypeOK'
  BY <1>8, IdleOK DEF Busy, TypeOK
<1>9. ASSUME NEW r \in Req, Reject(r) \/ Finish(r) PROVE TypeOK'
  <2>1. sem > 0
    BY <1>9, CheckHasPermit DEF Reject, Finish
  <2>2. sem' \in 0..Permits /\ req' \in [Req -> Call]
    BY <1>9, <2>1, IdleOK, RateAssumption DEF Reject, Finish, Release, TypeOK
  <2> QED BY <1>9, <2>2 DEF Reject, Finish, TypeOK
<1>11. ASSUME NEW r \in Req, Refuse(r) \/ AdmitLate(r) \/ Bind(r) PROVE TypeOK'
  <2>1. req' \in [Req -> Call]
    BY <1>11 DEF Refuse, AdmitLate, Bind, TypeOK, Call, Step
  <2> QED BY <1>11, <2>1 DEF Refuse, AdmitLate, Bind, TypeOK
<1>5. ASSUME Sweep PROVE TypeOK'
  BY <1>5 DEF Sweep, TypeOK
<1>6. ASSUME Tick PROVE TypeOK'
  <2>1. bucket' = [b \in Bucket |-> [bucket[b] EXCEPT !.level = Refilled(@, 1)]]
    BY <1>6 DEF Tick
  <2>2. \A b \in Bucket : bucket'[b] \in Limiter /\ bucket'[b].level <= Full
    BY <2>1, Refills DEF TypeOK, Limiter
  <2>3. bucket' \in [Bucket -> Limiter]
    BY <2>1, <2>2
  <2>4. \A i \in Ip : Refilled(spare[i], 1) \in Int
    BY Rates DEF TypeOK, Refilled, Ideal!Refilled, Full
  <2>5. /\ spare' = [i \in Ip |-> Refilled(spare[i], 1) - IF FallsDue(i) THEN Interval ELSE 0]
        /\ now' = now + 1
        /\ UNCHANGED <<limiters, lastSeen, req, sem, blurred>>
    BY <1>6 DEF Tick
  <2>6. spare' \in [Ip -> Int]
    BY <2>4, <2>5, Rates
  <2> QED BY <2>2, <2>3, <2>5, <2>6 DEF TypeOK
<1>10. CASE UNCHANGED vars
  BY <1>10 DEF vars, TypeOK
<1> QED BY <1>1, <1>2, <1>3, <1>4, <1>5, <1>6, <1>7, <1>8, <1>9, <1>10, <1>11
        DEF Next, Request

--------------------------------------------------------------------------------
(* Requests and their buckets *)

\* A statement after the lookup leaves the map alone, and does not lead back to it.
LEMMA OneCall ==
  ASSUME TypeOK, Calls, NEW r \in Req, ~At(r, "idle"), NEW q \in Call,
         req' = [req EXCEPT ![r] = q],
         \/ q.step = "idle"
         \/ /\ q.ip = req[r].ip /\ q.bucket = req[r].bucket /\ q.seen = req[r].seen
            /\ q.step \in {"reserve", "delay"} => Early(r),
         UNCHANGED <<limiters, lastSeen, now>>
  PROVE  Calls'
<1> USE DEF At, Early
<1>1. ASSUME NEW s \in Req, ~At(s, "idle")' PROVE CallOK(s)'
  <2>1. req'[s] = IF s = r THEN q ELSE req[s]
    BY DEF TypeOK
  <2>2. CASE s = r
    BY <1>1, <2>1, <2>2 DEF Calls, CallOK, Mapped
  <2>3. CASE s # r
    BY <1>1, <2>1, <2>3 DEF Calls, CallOK, Mapped
  <2> QED BY <2>2, <2>3
<1> QED BY <1>1 DEF Calls

LEMMA LookUpCalls ==
  ASSUME TypeOK, Calls, NEW r \in Req, NEW i \in Ip, LookUp(r, i)
  PROVE  Calls'
<1> USE DEF At, Early
<1>1. PICK b \in Bucket :
        /\ IF limiters[i] = NoBucket
             THEN b \in Unused /\ bucket' = [bucket EXCEPT ![b] = NewLimiter]
             ELSE b = limiters[i] /\ UNCHANGED bucket
        /\ limiters' = [limiters EXCEPT ![i] = b]
        /\ req' = [req EXCEPT ![r] =
             [Idle EXCEPT !.step = "reserve", !.ip = i, !.bucket = b, !.seen = now]]
  BY DEF LookUp
<1>2. lastSeen' = [lastSeen EXCEPT ![i] = now] /\ now' = now
  BY DEF LookUp, Seen
<1>3. \A k \in Ip : limiters'[k] = IF k = i THEN b ELSE limiters[k]
  BY <1>1 DEF TypeOK
<1>4. \A k \in Ip : lastSeen[k] <= lastSeen'[k] /\ lastSeen'[k] <= now
  BY <1>2, Rates DEF TypeOK, Calls
<1>5. \A k \in Ip : limiters[k] = b => k = i
  BY <1>1, NoneAssumption DEF TypeOK, Unused, InUse
<1>6. ASSUME NEW s \in Req, ~At(s, "idle")' PROVE CallOK(s)'
  <2>1. CASE s = r
    <3>1. /\ req'[s].ip = i /\ req'[s].bucket = b /\ req'[s].seen = now
          /\ req'[s].step = "reserve"
      BY <1>1, <2>1, IdleOK DEF TypeOK, Idle
    <3>2. now <= now + Stall /\ lastSeen'[i] = now /\ now \in Nat
      BY <1>2, Rates DEF TypeOK
    <3>3. \A k \in Ip : limiters'[k] = b => k = i
      BY <1>3, <1>5
    <3>4. Mapped(s)'
      BY <1>3, <3>1 DEF Mapped
    <3> QED BY <1>2, <3>1, <3>2, <3>3, <3>4 DEF CallOK
  <2>2. CASE s # r
    <3>1. req'[s] = req[s] /\ CallOK(s)
      BY <1>1, <1>6, <2>2 DEF TypeOK, Calls
    <3>2. req[s].bucket = b => req[s].ip = i
      BY <1>1, <3>1, NoneAssumption DEF Unused, InUse, CallOK
    <3>3. \A k \in Ip : limiters'[k] = req[s].bucket => k = req[s].ip
      BY <1>3, <3>1, <3>2 DEF CallOK
    <3>4. ASSUME Early(s)
          PROVE  /\ Mapped(s)' /\ req[s].seen <= lastSeen'[req[s].ip]
                 /\ now <= req[s].seen + Stall
      <4>1. limiters'[req[s].ip] = req[s].bucket
        BY <1>1, <1>3, <3>1, <3>4, NoneAssumption DEF CallOK, Mapped
      <4>2. req[s].seen \in Nat /\ req[s].ip \in Ip
        BY <3>1 DEF TypeOK, Call, CallOK
      <4>3. lastSeen[req[s].ip] \in Nat /\ lastSeen'[req[s].ip] \in Nat
        BY <1>2, <4>2 DEF TypeOK
      <4>4. req[s].seen <= lastSeen[req[s].ip] /\ now <= req[s].seen + Stall
        BY <3>1, <3>4 DEF CallOK
      <4> QED BY <1>4, <3>1, <4>1, <4>2, <4>3, <4>4 DEF Mapped
    <3> QED BY <1>2, <3>1, <3>3, <3>4 DEF CallOK
  <2> QED BY <2>1, <2>2
<1> QED BY <1>2, <1>4, <1>6 DEF Calls

LEMMA CallsSteps ==
  ASSUME TypeOK, Calls, [Next]_vars
  PROVE  Calls'
<1> USE DEF At, Goto, Return
<1>1. ASSUME NEW r \in Req, NEW i \in Ip, LookUp(r, i) PROVE Calls'
  BY <1>1, LookUpCalls
<1>2. ASSUME NEW r \in Req, Admit(r) PROVE Calls'
  <2> DEFINE q == [req[r] EXCEPT !.step = "guard"]
  <2>1. req' = [req EXCEPT ![r] = q] /\ q \in Call
    BY <1>2 DEF Admit, TypeOK, Call, Step
  <2>2. /\ q.step = "guard" /\ q.ip = req[r].ip /\ q.bucket = req[r].bucket
        /\ q.seen = req[r].seen
    BY DEF TypeOK, Call
  <2> HIDE DEF q
  <2> QED BY <1>2, <2>1, <2>2, OneCall DEF Admit
<1>3. ASSUME NEW r \in Req, ReserveLater(r) PROVE Calls'
  <2> DEFINE left == bucket[req[r].bucket].level - Interval
             q == [req[r] EXCEPT !.step = "delay", !.act = now - left]
  <2>1. left < 0 /\ req' = [req EXCEPT ![r] = q]
    BY <1>3 DEF ReserveLater
  <2>2. left \in Int
    BY <1>3, Rates DEF ReserveLater, TypeOK, Calls, CallOK, Limiter
  <2>3. now - left \in Nat
    BY <2>1, <2>2 DEF TypeOK
  <2> HIDE DEF left
  <2>4. /\ q \in Call /\ q.step = "delay" /\ q.ip = req[r].ip /\ q.bucket = req[r].bucket
        /\ q.seen = req[r].seen
    BY <2>3 DEF TypeOK, Call, Step
  <2> HIDE DEF q
  <2>5. Early(r)
    BY <1>3 DEF ReserveLater, Early
  <2> QED BY <1>3, <2>1, <2>4, <2>5, OneCall DEF ReserveLater
<1>4. ASSUME NEW r \in Req, Cancel(r) \/ Busy(r) \/ Reject(r) \/ Finish(r) PROVE Calls'
  BY <1>4, IdleOK, OneCall DEF Cancel, Busy, Reject, Finish, Release
<1>5. ASSUME NEW r \in Req, NEW to \in {"cancel", "guard", "bind", "check"}, Goto(r, to),
             ~At(r, "idle"), UNCHANGED <<limiters, lastSeen, now>>
      PROVE  Calls'
  <2> DEFINE q == [req[r] EXCEPT !.step = to]
  <2>1. req' = [req EXCEPT ![r] = q] /\ q \in Call
    BY <1>5 DEF TypeOK, Call, Step
  <2>2. /\ q.step = to /\ q.ip = req[r].ip /\ q.bucket = req[r].bucket
        /\ q.seen = req[r].seen
    BY DEF TypeOK, Call
  <2> HIDE DEF q
  <2> QED BY <1>5, <2>1, <2>2, OneCall
<1>9. ASSUME NEW r \in Req, Refuse(r) \/ AdmitLate(r) \/ Acquire(r) \/ Bind(r) PROVE Calls'
  BY <1>9, <1>5 DEF Refuse, AdmitLate, Acquire, Bind
<1>6. ASSUME Sweep PROVE Calls'
  <2>1. ASSUME NEW r \in Req, Early(r) PROVE ~IdleSince(req[r].ip)
    <3>1. /\ req[r].ip \in Ip /\ req[r].seen <= lastSeen[req[r].ip]
          /\ now <= req[r].seen + Stall
      BY <2>1 DEF Calls, CallOK, Early
    <3> QED BY <3>1, Rates DEF IdleSince, TypeOK, Call
  <2>2. /\ limiters' = [i \in Ip |-> IF IdleSince(i) THEN NoBucket ELSE limiters[i]]
        /\ UNCHANGED <<lastSeen, req, now>>
    BY <1>6 DEF Sweep
  <2>3. ASSUME NEW r \in Req, ~At(r, "idle") PROVE CallOK(r)'
    BY <2>1, <2>2, <2>3, NoneAssumption DEF Calls, CallOK, Mapped, Early
  <2> QED BY <2>2, <2>3 DEF Calls
<1>7. ASSUME Tick PROVE Calls'
  <2>1. now' = now + 1 /\ UNCHANGED <<limiters, lastSeen, req>>
    BY <1>7 DEF Tick
  <2>2. ASSUME NEW r \in Req, ~At(r, "idle") PROVE CallOK(r)'
    <3>1. CallOK(r) /\ (Early(r) => now < req[r].seen + Stall)
      BY <1>7, <2>2 DEF Calls, Tick, Early
    <3>2. now \in Nat /\ req[r].seen \in Nat
      BY DEF TypeOK, Call
    <3>3. now < req[r].seen + Stall => now + 1 <= req[r].seen + Stall
      BY <3>2, Rates
    <3> QED BY <2>1, <3>1, <3>3 DEF CallOK, Mapped, Early
  <2>3. \A i \in Ip : lastSeen[i] <= now + 1
    BY DEF TypeOK, Calls
  <2> QED BY <2>1, <2>2, <2>3 DEF Calls
<1>8. CASE UNCHANGED vars
  BY <1>8 DEF vars, Calls, CallOK, Mapped, Early
<1> QED BY <1>1, <1>2, <1>3, <1>4, <1>5, <1>6, <1>7, <1>8, <1>9 DEF Next, Request

--------------------------------------------------------------------------------
(* Reservations of one bucket *)

\* A request that is not refused yet, or is to give its token back, keeps its record.
LEMMA DueKept ==
  ASSUME TypeOK, Calls, NEW r \in Req, Due(r)
  PROVE  /\ req[r].bucket \in Bucket /\ req[r].ip \in Ip /\ req[r].act \in Nat
         /\ bucket[req[r].bucket] \in Limiter /\ req[r].act >= now
BY DEF Due, At, TypeOK, Calls, CallOK, Call

\* A step that leaves a request what it reserved.
SameToken(s) == /\ req'[s].bucket = req[s].bucket /\ req'[s].ip = req[s].ip
                /\ req'[s].act = req[s].act

\* Where no reservation is added, and every bucket that has one stays as it was.
LEMMA ChainKept ==
  ASSUME TypeOK, Chain, now' = now,
         \A s \in Req : Due(s)' => /\ Due(s) /\ SameToken(s)
                                   /\ bucket'[req[s].bucket] = bucket[req[s].bucket]
  PROVE  Chain'
BY DEF Chain, Apart, SameToken

LEMMA LookUpChain ==
  ASSUME TypeOK, Calls, Chain, NEW r \in Req, NEW i \in Ip, LookUp(r, i)
  PROVE  Chain'
<1>1. PICK b \in Bucket :
        /\ IF limiters[i] = NoBucket
             THEN b \in Unused /\ bucket' = [bucket EXCEPT ![b] = NewLimiter]
             ELSE b = limiters[i] /\ UNCHANGED bucket
        /\ req' = [req EXCEPT ![r] =
             [Idle EXCEPT !.step = "reserve", !.ip = i, !.bucket = b, !.seen = now]]
  BY DEF LookUp
<1>2. ASSUME NEW s \in Req, Due(s)'
      PROVE  /\ Due(s) /\ SameToken(s)
             /\ bucket'[req[s].bucket] = bucket[req[s].bucket]
  <2>1. s # r
    BY <1>1, <1>2, IdleOK DEF TypeOK, Due, At, Idle
  <2>2. req'[s] = req[s]
    BY <1>1, <2>1 DEF TypeOK
  <2>3. Due(s)
    BY <1>2, <2>2 DEF Due, At, LookUp
  <2>4. b \in Unused => b # req[s].bucket
    BY DEF Unused, InUse
  <2> QED BY <1>1, <2>2, <2>3, <2>4, DueKept DEF TypeOK, SameToken
<1> QED BY <1>2, ChainKept DEF LookUp

\* A token that is there is reserved only when no other is outstanding.
LEMMA AdmitAlone ==
  ASSUME TypeOK, Calls, Chain, NEW r \in Req, Admit(r),
         NEW s \in Req, Due(s)
  PROVE  req[s].bucket # req[r].bucket
<1>1. req[s].act \in Nat /\ req[s].act >= now /\ bucket[req[s].bucket].level \in Int
  BY DueKept DEF Limiter
<1>2. bucket[req[s].bucket].level <= now - req[s].act
  BY DEF Chain
<1>3. bucket[req[r].bucket].level >= Interval
  BY Rates DEF Admit, At, TypeOK, Calls, CallOK, Limiter
<1> QED BY <1>1, <1>2, <1>3, Rates DEF TypeOK

LEMMA ReserveLaterChain ==
  ASSUME TypeOK, Calls, Chain, NEW r \in Req, ReserveLater(r)
  PROVE  Chain'
<1> DEFINE b == req[r].bucket
           n == bucket[b].level
           left == n - Interval
<1>1. b \in Bucket /\ n \in Int /\ left \in Int /\ now \in Nat
  BY Rates DEF ReserveLater, At, TypeOK, Calls, CallOK, Limiter
<1>2. /\ left < 0
      /\ bucket' = [bucket EXCEPT ![b] = [level |-> left, lastEvent |-> now - left]]
      /\ req' = [req EXCEPT ![r] = [@ EXCEPT !.step = "delay", !.act = now - left]]
      /\ now' = now
  BY DEF ReserveLater
<1> HIDE DEF n
<1>3. /\ req'[r].step = "delay" /\ req'[r].act = now - left /\ req'[r].bucket = b
      /\ \A s \in Req : s # r => req'[s] = req[s]
  BY <1>2 DEF TypeOK, Call
<1>4. bucket'[b].level = left /\ bucket'[b].lastEvent = now - left
  BY <1>1, <1>2 DEF TypeOK
<1>5. ASSUME NEW s \in Req, s # r, Due(s)'
      PROVE  /\ Due(s) /\ req[s].act \in Nat /\ req[s].act >= now
             /\ \/ req[s].bucket # b /\ bucket'[req[s].bucket] = bucket[req[s].bucket]
                \/ req[s].bucket = b /\ n <= now - req[s].act
  <2>1. Due(s)
    BY <1>2, <1>3, <1>5 DEF Due, At
  <2> QED BY <1>2, <2>1, DueKept DEF TypeOK, Chain, n
<1>6. ASSUME NEW s \in Req, s # r, Due(s)', req[s].bucket = b
      PROVE  req[s].act + Interval <= now - left
  BY <1>1, <1>5, <1>6, Rates
<1>7. ASSUME NEW s \in Req, Due(s)'
      PROVE  /\ bucket'[req'[s].bucket].level <= now' - req'[s].act
             /\ req'[s].act <= bucket'[req'[s].bucket].lastEvent
  <2>1. CASE s = r
    BY <1>1, <1>2, <1>3, <1>4, <2>1
  <2>2. CASE s # r /\ req[s].bucket = b
    BY <1>1, <1>2, <1>3, <1>4, <1>5, <1>6, <1>7, <2>2, Rates
  <2>3. CASE s # r /\ req[s].bucket # b
    BY <1>2, <1>3, <1>5, <1>7, <2>3 DEF Chain
  <2> QED BY <2>1, <2>2, <2>3
<1>8. ASSUME NEW s \in Req, NEW u \in Req, Due(s)', Due(u)', u # s,
             req'[u].bucket = req'[s].bucket
      PROVE  Apart(s, u)'
  <2>1. CASE s = r
    BY <1>3, <1>6, <1>8, <2>1 DEF Apart
  <2>2. CASE u = r
    BY <1>3, <1>6, <1>8, <2>2 DEF Apart
  <2>3. CASE s # r /\ u # r
    BY <1>3, <1>5, <1>8, <2>3 DEF Chain, Apart
  <2> QED BY <2>1, <2>2, <2>3
<1> QED BY <1>7, <1>8 DEF Chain

\* What Cancel does to the bucket of a reservation, and that it gives back no more
\* than was taken.
LEMMA CancelEffect ==
  ASSUME TypeOK, Calls, Chain, NEW r \in Req, Cancel(r)
  PROVE  LET b == req[r].bucket
             m == bucket[b]
             c == bucket'[b] IN
         /\ b \in Bucket /\ m \in Limiter /\ c \in Limiter /\ req[r].act \in Nat
         /\ \A d \in Bucket : d # b => bucket'[d] = bucket[d]
         /\ req'[r] = Idle /\ \A s \in Req : s # r => req'[s] = req[s]
         /\ req[r].act < now => c = m
         /\ \/ c = m
            \/ /\ Due(r) /\ m.lastEvent - req[r].act < Interval
               /\ c.level = Refilled(m.level, Interval - (m.lastEvent - req[r].act))
               /\ c.level <= m.level + Interval
               /\ req[r].act <= m.lastEvent
               /\ c.lastEvent = IF req[r].act = m.lastEvent /\ req[r].act - Interval >= now
                                THEN req[r].act - Interval ELSE m.lastEvent
<1> DEFINE b == req[r].bucket
           m == bucket[b]
           act == req[r].act
           c == Cancelled(m, act)
<1>1. /\ b \in Bucket /\ m \in Limiter /\ m.level <= Full /\ act \in Nat /\ now \in Nat
      /\ m.level \in Int /\ m.lastEvent \in Nat
  BY DEF Cancel, At, TypeOK, Calls, CallOK, Call, Limiter
<1>2. bucket' = [bucket EXCEPT ![b] = c] /\ req' = [req EXCEPT ![r] = Idle]
  BY DEF Cancel, GivenBack, Return
<1>3. /\ c \in Limiter
      /\ act < now => c = m
      /\ \/ c = m
         \/ /\ act >= now /\ m.lastEvent - act < Interval
            /\ c.level = Refilled(m.level, Interval - (m.lastEvent - act))
            /\ c.lastEvent = IF act = m.lastEvent /\ act - Interval >= now
                             THEN act - Interval ELSE m.lastEvent
  BY <1>1, CancelledOK
<1>4. bucket'[b] = c /\ \A d \in Bucket : d # b => bucket'[d] = bucket[d]
  BY <1>1, <1>2 DEF TypeOK
<1>5. req'[r] = Idle /\ \A s \in Req : s # r => req'[s] = req[s]
  BY <1>2 DEF TypeOK
<1> HIDE DEF c
<1>6. CASE c = m
  BY <1>1, <1>3, <1>4, <1>5, <1>6
<1>7. CASE c # m
  <2>1. Due(r)
    BY <1>3, <1>7 DEF Due, Cancel
  <2>2. act <= m.lastEvent
    BY <2>1 DEF Chain
  <2> DEFINE back == Interval - (m.lastEvent - act)
  <2>3. back \in Nat /\ back <= Interval
    BY <1>1, <1>3, <1>7, <2>2, Rates
  <2> HIDE DEF back
  <2>4. Refilled(m.level, back) <= m.level + Interval
    <3>1. Refilled(m.level, back) <= m.level + back /\ Refilled(m.level, back) \in Int
      BY <1>1, <2>3, Refills
    <3> QED BY <1>1, <2>3, <3>1, Rates
  <2>5. c.level <= m.level + Interval
    BY <1>3, <1>7, <2>4 DEF back
  <2> QED BY <1>1, <1>3, <1>4, <1>5, <1>7, <2>1, <2>2, <2>5
<1> QED BY <1>6, <1>7

LEMMA CancelChain ==
  ASSUME TypeOK, Calls, Chain, NEW r \in Req, Cancel(r)
  PROVE  Chain'
<1> DEFINE b == req[r].bucket
           m == bucket[b]
           c == bucket'[b]
           act == req[r].act
<1>1. /\ b \in Bucket /\ m \in Limiter /\ c \in Limiter /\ act \in Nat
      /\ m.level \in Int /\ m.lastEvent \in Nat /\ c.level \in Int /\ c.lastEvent \in Nat
      /\ now \in Nat /\ now' = now
      /\ \A d \in Bucket : d # b => bucket'[d] = bucket[d]
      /\ req'[r] = Idle /\ \A s \in Req : s # r => req'[s] = req[s]
  BY CancelEffect DEF Cancel, Limiter, TypeOK
<1>2. ASSUME NEW s \in Req, Due(s)'
      PROVE  s # r /\ Due(s) /\ req'[s] = req[s] /\ req[s].act \in Nat
  <2>1. s # r
    BY <1>1, <1>2, IdleOK DEF Due, At
  <2>2. Due(s)
    BY <1>1, <1>2, <2>1 DEF Due, At
  <2> QED BY <1>1, <2>1, <2>2, DueKept
<1>3. ASSUME NEW s \in Req, Due(s)', req[s].bucket = b
      PROVE  c.level <= now - req[s].act /\ req[s].act <= c.lastEvent
  <2>1. s # r /\ Due(s) /\ req[s].act \in Nat
    BY <1>2, <1>3
  <2>2. m.level <= now - req[s].act /\ req[s].act <= m.lastEvent
    BY <1>3, <2>1 DEF Chain
  <2>3. CASE c = m
    BY <2>2, <2>3
  <2>4. CASE c # m
    <3>1. /\ Due(r) /\ m.lastEvent - act < Interval /\ act <= m.lastEvent
          /\ c.level <= m.level + Interval
          /\ c.lastEvent = IF act = m.lastEvent /\ act - Interval >= now
                           THEN act - Interval ELSE m.lastEvent
      BY <2>4, CancelEffect
    <3>2. Apart(r, s) /\ m.level <= now - act
      BY <1>3, <2>1, <3>1 DEF Chain
    <3>3. req[s].act + Interval <= act
      BY <1>1, <2>1, <2>2, <3>1, <3>2, Rates DEF Apart
    <3> HIDE DEF b, m, c, act
    <3> QED BY <1>1, <2>1, <3>1, <3>2, <3>3, Rates
  <2> QED BY <2>3, <2>4
<1>4. ASSUME NEW s \in Req, Due(s)'
      PROVE  /\ bucket'[req'[s].bucket].level <= now' - req'[s].act
             /\ req'[s].act <= bucket'[req'[s].bucket].lastEvent
  <2>1. CASE req[s].bucket = b
    BY <1>1, <1>2, <1>3, <1>4, <2>1
  <2>2. CASE req[s].bucket # b
    <3>1. Due(s) /\ req'[s] = req[s] /\ req[s].bucket \in Bucket
      BY <1>2, <1>4, DueKept
    <3> QED BY <1>1, <2>2, <3>1 DEF Chain
  <2> QED BY <2>1, <2>2
<1>5. ASSUME NEW s \in Req, NEW u \in Req, Due(s)', Due(u)', u # s,
             req'[u].bucket = req'[s].bucket
      PROVE  Apart(s, u)'
  BY <1>2, <1>5 DEF Chain, Apart
<1> QED BY <1>4, <1>5 DEF Chain

\* The steps that move neither a level nor the clock, and reserve nothing.
LEMMA KeepsDue ==
  ASSUME TypeOK, NEW r \in Req, \/ Refuse(r) \/ AdmitLate(r) \/ Acquire(r) \/ Busy(r)
                                \/ Bind(r) \/ Reject(r) \/ Finish(r)
  PROVE  /\ UNCHANGED <<limiters, lastSeen, bucket, now, spare, blurred>>
         /\ \A s \in Req : s # r => req'[s] = req[s]
         /\ \A s \in Req : Due(s)' => Due(s) /\ SameToken(s)
<1>1. UNCHANGED <<limiters, lastSeen, bucket, now, spare, blurred>>
  BY DEF Refuse, AdmitLate, Acquire, Busy, Bind, Reject, Finish
<1>2. \/ /\ At(r, "delay") /\ req[r].act > now
         /\ req' = [req EXCEPT ![r].step = "cancel"]
      \/ req' = [req EXCEPT ![r].step = "guard"]
      \/ req' = [req EXCEPT ![r].step = "bind"]
      \/ req' = [req EXCEPT ![r].step = "check"]
      \/ req' = [req EXCEPT ![r] = Idle]
  BY DEF Refuse, AdmitLate, Acquire, Busy, Bind, Reject, Finish, Release, Goto, Return
<1>3. \A s \in Req : s # r => req'[s] = req[s]
  BY <1>2 DEF TypeOK
<1>4. \/ /\ At(r, "delay") /\ req[r].act > now /\ SameToken(r)
      \/ req'[r].step \in {"guard", "bind", "check", "idle"}
  BY <1>2, IdleOK DEF TypeOK, Call, SameToken
<1>5. req[r].act > now => req[r].act >= now
  BY DEF TypeOK, Call
<1>6. \A s \in Req : Due(s)' => Due(s) /\ SameToken(s)
  BY <1>1, <1>3, <1>4, <1>5 DEF Due, At, SameToken
<1> QED BY <1>1, <1>3, <1>6

LEMMA ChainSteps ==
  ASSUME TypeOK, Calls, Chain, [Next]_vars
  PROVE  Chain'
<1>1. ASSUME NEW r \in Req, NEW i \in Ip, LookUp(r, i) PROVE Chain'
  BY <1>1, LookUpChain
<1>2. ASSUME NEW r \in Req, Admit(r) PROVE Chain'
  <2>1. ASSUME NEW s \in Req, Due(s)'
        PROVE  /\ Due(s) /\ SameToken(s)
               /\ bucket'[req[s].bucket] = bucket[req[s].bucket]
    <3>1. req' = [req EXCEPT ![r].step = "guard"] /\ now' = now
      BY <1>2 DEF Admit, Goto
    <3>2. s # r /\ req'[s] = req[s]
      BY <2>1, <3>1 DEF Due, At, TypeOK, Call
    <3>3. Due(s)
      BY <2>1, <3>1, <3>2 DEF Due, At
    <3>4. req[s].bucket # req[r].bucket
      BY <1>2, <3>3, AdmitAlone
    <3> QED BY <1>2, <3>2, <3>3, <3>4, DueKept DEF Admit, TypeOK, SameToken
  <2> QED BY <1>2, <2>1, ChainKept DEF Admit
<1>3. ASSUME NEW r \in Req, ReserveLater(r) PROVE Chain'
  BY <1>3, ReserveLaterChain
<1>4. ASSUME NEW r \in Req, Cancel(r) PROVE Chain'
  BY <1>4, CancelChain
<1>5. ASSUME NEW r \in Req, \/ Refuse(r) \/ AdmitLate(r) \/ Acquire(r) \/ Busy(r)
                            \/ Bind(r) \/ Reject(r) \/ Finish(r)
      PROVE  Chain'
  BY <1>5, KeepsDue, ChainKept
<1>6. ASSUME Sweep PROVE Chain'
  BY <1>6, ChainKept DEF Sweep, Due, At, SameToken
<1>7. ASSUME Tick PROVE Chain'
  <2>1. /\ now' = now + 1 /\ req' = req
        /\ bucket' = [b \in Bucket |-> [bucket[b] EXCEPT !.level = Refilled(@, 1)]]
    BY <1>7 DEF Tick
  <2>2. ASSUME NEW s \in Req, Due(s)'
        PROVE  /\ Due(s)
               /\ bucket'[req[s].bucket].level <= now' - req[s].act
               /\ req[s].act <= bucket'[req[s].bucket].lastEvent
    <3>1. Due(s)
      BY <2>1, <2>2 DEF Due, At, TypeOK, Call
    <3> DEFINE m == bucket[req[s].bucket]
    <3>2. /\ req[s].bucket \in Bucket /\ req[s].act \in Nat /\ m.level \in Int
          /\ m.level <= Full /\ m.lastEvent \in Nat
      BY <3>1, DueKept DEF TypeOK, Limiter
    <3>3. /\ bucket'[req[s].bucket].level = Refilled(m.level, 1)
          /\ bucket'[req[s].bucket].lastEvent = m.lastEvent
      BY <2>1, <3>2 DEF TypeOK, Limiter
    <3>4. Refilled(m.level, 1) <= m.level + 1 /\ Refilled(m.level, 1) \in Int
      BY <3>2, Refills
    <3>5. m.level <= now - req[s].act /\ req[s].act <= m.lastEvent
      BY <3>1 DEF Chain
    <3> HIDE DEF m
    <3>6. Refilled(m.level, 1) <= now' - req[s].act
      BY <2>1, <3>2, <3>4, <3>5 DEF TypeOK
    <3> QED BY <3>1, <3>3, <3>5, <3>6
  <2>3. ASSUME NEW s \in Req, Due(s)'
        PROVE  /\ bucket'[req'[s].bucket].level <= now' - req'[s].act
               /\ req'[s].act <= bucket'[req'[s].bucket].lastEvent
    BY <2>1, <2>2, <2>3
  <2>4. ASSUME NEW s \in Req, NEW u \in Req, Due(s)', Due(u)', u # s,
               req'[u].bucket = req'[s].bucket
        PROVE  Apart(s, u)'
    BY <2>1, <2>2, <2>4 DEF Chain, Apart
  <2> QED BY <2>3, <2>4 DEF Chain
<1>8. CASE UNCHANGED vars
  BY <1>8, ChainKept DEF vars, Due, At, SameToken
<1> QED BY <1>1, <1>2, <1>3, <1>4, <1>5, <1>6, <1>7, <1>8 DEF Next, Request

--------------------------------------------------------------------------------
(* Levels and what each client is due *)

\* A lookup, from the point of view of every table.
LEMMA LookUpEffect ==
  ASSUME TypeOK, Calls, NEW r \in Req, NEW i \in Ip, LookUp(r, i)
  PROVE  \E b \in Bucket :
           /\ \A k \in Ip : limiters'[k] = IF k = i THEN b ELSE limiters[k]
           /\ \A k \in Ip : k # i => limiters[k] # b
           /\ \A d \in Bucket : d # b => bucket'[d] = bucket[d]
           /\ \/ /\ limiters[i] = NoBucket /\ bucket'[b] = NewLimiter
                 /\ \A s \in Req : req[s].bucket # b
              \/ limiters[i] = b /\ bucket'[b] = bucket[b]
           /\ \A s \in Req : s # r => req'[s] = req[s]
           /\ At(r, "idle") /\ req'[r].step = "reserve"
           /\ \A k \in Ip : lastSeen'[k] = IF k = i THEN now ELSE lastSeen[k]
           /\ UNCHANGED <<now, spare, blurred>>
<1>1. PICK b \in Bucket :
        /\ IF limiters[i] = NoBucket
             THEN b \in Unused /\ bucket' = [bucket EXCEPT ![b] = NewLimiter]
             ELSE b = limiters[i] /\ UNCHANGED bucket
        /\ limiters' = [limiters EXCEPT ![i] = b]
        /\ req' = [req EXCEPT ![r] =
             [Idle EXCEPT !.step = "reserve", !.ip = i, !.bucket = b, !.seen = now]]
  BY DEF LookUp
<1>2. \A k \in Ip : k # i => limiters[k] # b
  BY <1>1, NoneAssumption DEF TypeOK, Unused, InUse
<1>3. limiters[i] = NoBucket => \A s \in Req : req[s].bucket # b
  BY <1>1 DEF Unused, InUse
<1>4. lastSeen' = [lastSeen EXCEPT ![i] = now] /\ UNCHANGED <<now, spare, blurred>> /\ At(r, "idle")
  BY DEF LookUp, Seen
<1>5. req'[r].step = "reserve" /\ \A s \in Req : s # r => req'[s] = req[s]
  BY <1>1, IdleOK DEF TypeOK, Idle
<1>6. /\ \A k \in Ip : limiters'[k] = IF k = i THEN b ELSE limiters[k]
      /\ \A k \in Ip : lastSeen'[k] = IF k = i THEN now ELSE lastSeen[k]
  BY <1>1, <1>4 DEF TypeOK
<1>7. /\ \A d \in Bucket : d # b => bucket'[d] = bucket[d]
      /\ \/ limiters[i] = NoBucket /\ bucket'[b] = NewLimiter
         \/ limiters[i] = b /\ bucket'[b] = bucket[b]
  BY <1>1 DEF TypeOK
<1> QED BY <1>2, <1>3, <1>4, <1>5, <1>6, <1>7

\* What a request under way may assume of the two levels of its client.
Level(i) == bucket[limiters[i]].level

LEMMA CoveredTypes ==
  ASSUME TypeOK, Covered
  PROVE  /\ \A i \in Ip : /\ lastSeen[i] \in Nat /\ spare[i] \in Nat /\ spare[i] <= Full
                          /\ limiters[i] # NoBucket => Level(i) \in Int /\ Level(i) <= Full
         /\ now \in Nat
BY Rates DEF TypeOK, Covered, Level, Limiter

LEMMA LookUpCovered ==
  ASSUME TypeOK, Calls, Covered, NEW r \in Req, NEW i \in Ip, LookUp(r, i)
  PROVE  Covered'
<1>1. PICK b \in Bucket :
           /\ \A k \in Ip : limiters'[k] = IF k = i THEN b ELSE limiters[k]
           /\ \A k \in Ip : k # i => limiters[k] # b
           /\ \A d \in Bucket : d # b => bucket'[d] = bucket[d]
           /\ \/ /\ limiters[i] = NoBucket /\ bucket'[b] = NewLimiter
                 /\ \A s \in Req : req[s].bucket # b
              \/ limiters[i] = b /\ bucket'[b] = bucket[b]
           /\ \A s \in Req : s # r => req'[s] = req[s]
           /\ At(r, "idle") /\ req'[r].step = "reserve"
           /\ \A k \in Ip : lastSeen'[k] = IF k = i THEN now ELSE lastSeen[k]
           /\ UNCHANGED <<now, spare, blurred>>
  BY LookUpEffect
<1>2. ASSUME NEW k \in Ip
      PROVE  /\ spare'[k] \in 0..Full
             /\ limiters'[k] = NoBucket => spare'[k] = Full
             /\ limiters'[k] # NoBucket => /\ bucket'[limiters'[k]].level <= spare'[k]
                                           /\ \/ spare'[k] = Full
                                              \/ now' <= lastSeen'[k] + Stall + spare'[k]
  <2>1. CASE k # i
    <3>1. limiters'[k] = limiters[k] /\ lastSeen'[k] = lastSeen[k] /\ limiters[k] # b
      BY <1>1, <2>1
    <3>2. limiters[k] # NoBucket => bucket'[limiters[k]] = bucket[limiters[k]]
      BY <1>1, <3>1 DEF TypeOK
    <3> QED BY <1>1, <3>1, <3>2 DEF Covered
  <2>2. CASE k = i
    <3>1. limiters'[k] = b /\ b # NoBucket /\ lastSeen'[k] = now
      BY <1>1, <2>2, NoneAssumption
    <3>2. spare[k] \in Nat /\ spare[k] <= Full /\ now \in Nat
      BY CoveredTypes
    <3>3. bucket'[b].level <= spare[k]
      <4>1. CASE limiters[i] = NoBucket
        <5>1. spare[k] = Full /\ bucket'[b] = NewLimiter
          BY <1>1, <2>2, <4>1, NoneAssumption DEF Covered
        <5> QED BY <5>1, NewLimiterOK, Rates
      <4>2. CASE limiters[i] # NoBucket
        BY <1>1, <2>2, <4>2 DEF Covered
      <4> QED BY <4>1, <4>2
    <3> QED BY <1>1, <3>1, <3>2, <3>3, Rates
  <2> QED BY <2>1, <2>2
<1>3. ASSUME NEW s \in Req, Due(s)', Mapped(s)'
      PROVE  now' - req'[s].act + Interval <= spare'[req'[s].ip]
  <2>1. s # r /\ req'[s] = req[s]
    BY <1>1, <1>3 DEF Due, At
  <2>2. Due(s)
    BY <1>1, <1>3, <2>1 DEF Due, At
  <2>3. Mapped(s)
    BY <1>1, <1>3, <2>1, <2>2, DueKept DEF Mapped
  <2> QED BY <1>1, <2>1, <2>2, <2>3 DEF Covered
<1> QED BY <1>2, <1>3 DEF Covered

LEMMA AdmitCovered ==
  ASSUME TypeOK, Calls, Chain, Covered, NEW r \in Req, Admit(r)
  PROVE  Covered'
<1> DEFINE b == req[r].bucket
           i == req[r].ip
           left == bucket[b].level - Interval
<1>1. /\ b \in Bucket /\ i \in Ip /\ limiters[i] = b /\ req[r].seen <= lastSeen[i]
      /\ now <= req[r].seen + Stall /\ req[r].seen \in Nat
      /\ \A k \in Ip : limiters[k] = b => k = i
  BY DEF Admit, At, Calls, CallOK, Mapped, Early, TypeOK, Call
<1>2. /\ left >= 0 /\ UNCHANGED <<limiters, lastSeen, now>>
      /\ bucket' = [bucket EXCEPT ![b] = [level |-> left, lastEvent |-> now]]
      /\ spare' = [spare EXCEPT ![i] = @ - Interval]
      /\ req' = [req EXCEPT ![r].step = "guard"]
  BY DEF Admit, Goto
<1>3. b # NoBucket /\ bucket[b].level \in Int /\ spare[i] \in Nat /\ spare[i] <= Full
      /\ bucket[b].level <= spare[i] /\ lastSeen[i] \in Nat /\ now \in Nat
  BY <1>1, NoneAssumption, CoveredTypes DEF Covered, Level
<1>4. bucket'[b].level = left /\ spare'[i] = spare[i] - Interval
  BY <1>1, <1>2 DEF TypeOK
<1>5. /\ spare'[i] \in 0..Full /\ left <= spare'[i]
      /\ now <= lastSeen[i] + Stall + spare'[i]
  BY <1>1, <1>2, <1>3, <1>4, Rates
<1> HIDE DEF left
<1>6. ASSUME NEW k \in Ip
      PROVE  /\ spare'[k] \in 0..Full
             /\ limiters'[k] = NoBucket => spare'[k] = Full
             /\ limiters'[k] # NoBucket => /\ bucket'[limiters'[k]].level <= spare'[k]
                                           /\ \/ spare'[k] = Full
                                              \/ now' <= lastSeen'[k] + Stall + spare'[k]
  <2>1. CASE k = i
    BY <1>1, <1>2, <1>3, <1>4, <1>5, <2>1
  <2>2. CASE k # i
    <3>1. limiters[k] # b /\ spare'[k] = spare[k]
      BY <1>1, <1>2, <2>2 DEF TypeOK
    <3>2. limiters[k] # NoBucket => bucket'[limiters[k]] = bucket[limiters[k]]
      BY <1>2, <3>1 DEF TypeOK
    <3> QED BY <1>2, <3>1, <3>2 DEF Covered
  <2> QED BY <2>1, <2>2
<1>7. ASSUME NEW s \in Req, Due(s)', Mapped(s)'
      PROVE  now' - req'[s].act + Interval <= spare'[req'[s].ip]
  <2>1. s # r /\ req'[s] = req[s]
    BY <1>2, <1>7 DEF Due, At, TypeOK, Call
  <2>2. Due(s) /\ Mapped(s)
    BY <1>2, <1>7, <2>1 DEF Due, At, Mapped
  <2>3. req[s].ip # i /\ req[s].ip \in Ip
    BY <1>1, <2>2, AdmitAlone, DueKept DEF Mapped
  <2>4. spare'[req[s].ip] = spare[req[s].ip]
    BY <1>2, <2>3 DEF TypeOK
  <2> QED BY <1>2, <2>1, <2>2, <2>4 DEF Covered
<1> QED BY <1>6, <1>7 DEF Covered

LEMMA ReserveLaterCovered ==
  ASSUME TypeOK, Calls, Covered, NEW r \in Req, ReserveLater(r)
  PROVE  Covered'
<1> DEFINE b == req[r].bucket
           i == req[r].ip
           n == bucket[b].level
           left == n - Interval
<1>1. /\ b \in Bucket /\ i \in Ip /\ limiters[i] = b
      /\ \A k \in Ip : limiters[k] = b => k = i
  BY DEF ReserveLater, At, Calls, CallOK, Mapped, Early
<1>2. /\ left < 0 /\ UNCHANGED <<limiters, lastSeen, now, spare>>
      /\ bucket' = [bucket EXCEPT ![b] = [level |-> left, lastEvent |-> now - left]]
      /\ req' = [req EXCEPT ![r] = [@ EXCEPT !.step = "delay", !.act = now - left]]
  BY DEF ReserveLater
<1>3. b # NoBucket /\ n \in Int /\ spare[i] \in Nat /\ n <= spare[i] /\ now \in Nat
  BY <1>1, NoneAssumption, CoveredTypes DEF Covered, Level
<1> HIDE DEF n
<1>4. /\ bucket'[b].level = left
      /\ req'[r].act = now - left /\ req'[r].bucket = b /\ req'[r].ip = i
      /\ \A s \in Req : s # r => req'[s] = req[s]
  BY <1>1, <1>2 DEF TypeOK, Call
<1>5. left <= spare[i]
  BY <1>3, Rates
<1>6. ASSUME NEW k \in Ip
      PROVE  /\ spare'[k] \in 0..Full
             /\ limiters'[k] = NoBucket => spare'[k] = Full
             /\ limiters'[k] # NoBucket => /\ bucket'[limiters'[k]].level <= spare'[k]
                                           /\ \/ spare'[k] = Full
                                              \/ now' <= lastSeen'[k] + Stall + spare'[k]
  <2>1. CASE k = i
    BY <1>1, <1>2, <1>3, <1>4, <1>5, <2>1 DEF Covered
  <2>2. CASE k # i
    <3>1. limiters[k] # b
      BY <1>1, <2>2
    <3>2. limiters[k] # NoBucket => bucket'[limiters[k]] = bucket[limiters[k]]
      BY <1>2, <3>1 DEF TypeOK
    <3> QED BY <1>2, <3>2 DEF Covered
  <2> QED BY <2>1, <2>2
<1>7. ASSUME NEW s \in Req, Due(s)', Mapped(s)'
      PROVE  now' - req'[s].act + Interval <= spare'[req'[s].ip]
  <2>1. CASE s = r
    BY <1>2, <1>3, <1>4, <2>1, Rates
  <2>2. CASE s # r
    <3>1. Due(s) /\ Mapped(s) /\ req'[s] = req[s]
      BY <1>2, <1>4, <1>7, <2>2 DEF Due, At, Mapped
    <3> QED BY <1>2, <3>1 DEF Covered
  <2> QED BY <2>1, <2>2
<1> QED BY <1>6, <1>7 DEF Covered

LEMMA CancelCovered ==
  ASSUME TypeOK, Calls, Chain, Covered, NEW r \in Req, Cancel(r)
  PROVE  Covered'
<1> DEFINE b == req[r].bucket
           i == req[r].ip
           m == bucket[b]
           c == bucket'[b]
           act == req[r].act
<1>1. /\ b \in Bucket /\ m.level \in Int /\ c.level \in Int /\ act \in Nat /\ now \in Nat
      /\ \A d \in Bucket : d # b => bucket'[d] = bucket[d]
      /\ req'[r] = Idle /\ \A s \in Req : s # r => req'[s] = req[s]
      /\ c = m \/ (Due(r) /\ c.level <= m.level + Interval)
  BY CancelEffect DEF Limiter, TypeOK
<1>2. UNCHANGED <<limiters, lastSeen, now, spare>>
  BY DEF Cancel
<1>3. i \in Ip /\ \A k \in Ip : limiters[k] = b => k = i
  BY DEF Cancel, At, Calls, CallOK
<1>4. limiters[i] = b => c.level <= spare[i]
  <2> SUFFICES ASSUME limiters[i] = b PROVE c.level <= spare[i]
    OBVIOUS
  <2>1. b # NoBucket /\ spare[i] \in Nat /\ m.level <= spare[i]
    BY <1>1, <1>3, NoneAssumption, CoveredTypes DEF Covered
  <2>2. CASE c = m
    BY <2>1, <2>2
  <2>3. CASE c # m
    <3>1. Due(r) /\ Mapped(r) /\ c.level <= m.level + Interval
      BY <1>1, <2>3 DEF Mapped
    <3>2. m.level <= now - act /\ now - act + Interval <= spare[i]
      BY <3>1 DEF Chain, Covered
    <3> HIDE DEF m, c, act, i
    <3> QED BY <1>1, <2>1, <3>1, <3>2, Rates
  <2> QED BY <2>2, <2>3
<1>5. ASSUME NEW k \in Ip, limiters[k] # NoBucket
      PROVE  bucket'[limiters[k]].level <= spare[k]
  <2>1. CASE limiters[k] = b
    BY <1>3, <1>4, <2>1
  <2>2. CASE limiters[k] # b
    BY <1>1, <1>5, <2>2 DEF TypeOK, Covered
  <2> QED BY <2>1, <2>2
<1>6. ASSUME NEW s \in Req, Due(s)', Mapped(s)'
      PROVE  now' - req'[s].act + Interval <= spare'[req'[s].ip]
  <2>1. s # r
    BY <1>1, <1>6, IdleOK DEF Due, At
  <2>2. Due(s) /\ Mapped(s) /\ req'[s] = req[s]
    BY <1>1, <1>2, <1>6, <2>1 DEF Due, At, Mapped
  <2> QED BY <1>2, <2>2 DEF Covered
<1> QED BY <1>2, <1>5, <1>6 DEF Covered

\* When a token that nobody looked at falls due, the client has it to spend: its
\* ideal level is a token at least, and no other reservation counts on that one.
LEMMA TokenArrives ==
  ASSUME TypeOK, Calls, Chain, Covered, Tick, NEW k \in Ip, FallsDue(k)
  PROVE  /\ limiters[k] \in Bucket
         /\ spare[k] + 1 >= Interval
         /\ now + 1 <= lastSeen[k] + Stall
         /\ \E r \in Req : /\ At(r, "delay") /\ Due(r) /\ req[r].bucket = limiters[k]
                           /\ req[r].act = now + 1
         /\ Level(k) <= -1
         /\ \A s \in Req : Due(s)' /\ req[s].bucket = limiters[k]
                           => req[s].act >= now + 1 + Interval
<1>1. PICK r \in Req : At(r, "delay") /\ req[r].ip = k /\ req[r].act = now + 1
  BY DEF FallsDue
<1>2. now \in Nat /\ now' = now + 1 /\ req' = req /\ spare[k] \in Nat /\ lastSeen[k] \in Nat
  BY CoveredTypes DEF Tick
<1>3. Due(r)
  BY <1>1, <1>2 DEF Due
<1>4. /\ req[r].bucket \in Bucket /\ Mapped(r) /\ req[r].seen <= lastSeen[k]
      /\ req[r].seen \in Nat
  BY <1>1 DEF Calls, CallOK, Early, At, TypeOK, Call
<1>5. now < req[r].seen + Stall
  BY <1>1 DEF Tick
<1>6. limiters[k] \in Bucket /\ limiters[k] = req[r].bucket
  BY <1>1, <1>4 DEF Mapped
<1>7. now - (now + 1) + Interval <= spare[k]
  BY <1>1, <1>3, <1>4 DEF Covered
<1>8. Level(k) <= now - (now + 1) /\ Level(k) \in Int
  BY <1>1, <1>3, <1>6, DueKept DEF Chain, Level, Limiter
<1>9. ASSUME NEW s \in Req, Due(s)', req[s].bucket = limiters[k]
      PROVE  req[s].act >= now + 1 + Interval
  <2>1. s # r
    BY <1>1, <1>2, <1>9 DEF Due, At
  <2>2. Due(s) /\ req[s].act >= now + 1 /\ req[s].act \in Nat
    BY <1>2, <1>9 DEF Due, At, TypeOK, Call
  <2>3. Apart(r, s)
    BY <1>3, <1>6, <1>9, <2>1, <2>2 DEF Chain
  <2> QED BY <1>1, <1>2, <2>2, <2>3, Rates DEF Apart
<1>10. spare[k] + 1 >= Interval /\ now + 1 <= lastSeen[k] + Stall /\ Level(k) <= -1
  BY <1>2, <1>4, <1>5, <1>7, <1>8, Rates
<1> QED BY <1>1, <1>3, <1>6, <1>9, <1>10

\* What a tick does to an ideal level.
LEMMA TickSpare ==
  ASSUME TypeOK, Covered, Tick, NEW k \in Ip
  PROVE  /\ spare[k] \in Nat /\ spare[k] <= Full
         /\ spare'[k] = Refilled(spare[k], 1) - IF FallsDue(k) THEN Interval ELSE 0
         /\ Refilled(spare[k], 1) \in Nat /\ Refilled(spare[k], 1) <= Full
         /\ spare[k] = Full => Refilled(spare[k], 1) = Full
         /\ Refilled(spare[k], 1) = spare[k] + 1 \/ Refilled(spare[k], 1) = Full
         /\ spare[k] <= Refilled(spare[k], 1)
<1> DEFINE n == spare[k]
           m == Refilled(n, 1)
<1>1. n \in Nat /\ n <= Full /\ n \in Int
  BY CoveredTypes
<1>2. spare'[k] = m - IF FallsDue(k) THEN Interval ELSE 0
  BY DEF Tick
<1> HIDE DEF n
<1>3. m \in Int /\ m <= Full /\ n <= m /\ (m = n + 1 \/ m = Full)
  BY <1>1, Refills
<1> HIDE DEF m
<1>4. m \in Nat /\ (n = Full => m = Full)
  BY <1>1, <1>3, Rates
<1> QED BY <1>1, <1>2, <1>3, <1>4 DEF m, n

LEMMA TickCovered ==
  ASSUME TypeOK, Calls, Chain, Covered, Tick
  PROVE  Covered'
<1>1. /\ bucket' = [b \in Bucket |-> [bucket[b] EXCEPT !.level = Refilled(@, 1)]]
      /\ now' = now + 1 /\ UNCHANGED <<limiters, lastSeen, req>>
  BY DEF Tick
<1>2. ASSUME NEW k \in Ip, limiters[k] # NoBucket
      PROVE  /\ bucket'[limiters[k]].level = Refilled(Level(k), 1)
             /\ Level(k) \in Int /\ Level(k) <= spare[k]
             /\ Refilled(Level(k), 1) \in Int /\ Refilled(Level(k), 1) <= Full
             /\ Refilled(Level(k), 1) <= Level(k) + 1
  <2>1. Level(k) \in Int /\ Level(k) <= Full /\ Level(k) <= spare[k]
    BY <1>2, CoveredTypes DEF Covered, Level
  <2>2. bucket'[limiters[k]].level = Refilled(Level(k), 1)
    BY <1>1, <1>2 DEF TypeOK, Level, Limiter
  <2> QED BY <2>1, <2>2, Refills
<1>3. ASSUME NEW k \in Ip, FallsDue(k)
      PROVE  /\ spare'[k] \in 0..Full
             /\ limiters[k] # NoBucket
             /\ bucket'[limiters[k]].level <= spare'[k]
             /\ now' <= lastSeen[k] + Stall + spare'[k]
  <2> DEFINE m == Refilled(spare[k], 1)
             l == Refilled(Level(k), 1)
  <2>1. /\ spare'[k] = m - Interval /\ m \in Nat /\ m <= Full /\ spare[k] \in Nat
        /\ m = spare[k] + 1 \/ m = Full
    BY <1>3, TickSpare
  <2>2. /\ limiters[k] \in Bucket /\ spare[k] + 1 >= Interval
        /\ now + 1 <= lastSeen[k] + Stall /\ Level(k) <= -1
    BY <1>3, TokenArrives
  <2>3. limiters[k] # NoBucket
    BY <2>2, NoneAssumption
  <2>4. /\ bucket'[limiters[k]].level = l /\ Level(k) \in Int /\ l \in Int
        /\ l <= Level(k) + 1
    BY <1>2, <2>3
  <2>5. now \in Nat /\ lastSeen[k] \in Nat
    BY CoveredTypes
  <2> HIDE DEF m, l
  <2>6. m - Interval \in 0..Full /\ l <= 0
    BY <2>1, <2>2, <2>4, Rates
  <2>7. now + 1 <= lastSeen[k] + Stall + (m - Interval)
    BY <2>2, <2>5, <2>6, Rates
  <2> QED BY <1>1, <2>1, <2>3, <2>4, <2>6, <2>7
<1>4. ASSUME NEW k \in Ip, ~FallsDue(k)
      PROVE  /\ spare'[k] \in 0..Full
             /\ limiters[k] = NoBucket => spare'[k] = Full
             /\ limiters[k] # NoBucket =>
                  /\ bucket'[limiters[k]].level <= spare'[k]
                  /\ spare'[k] = Full \/ now' <= lastSeen[k] + Stall + spare'[k]
  <2> DEFINE m == Refilled(spare[k], 1)
             l == Refilled(Level(k), 1)
  <2>1. /\ spare'[k] = m /\ m \in Nat /\ m <= Full /\ spare[k] \in Nat
        /\ m = spare[k] + 1 \/ m = Full
        /\ spare[k] = Full => m = Full
    BY <1>4, TickSpare
  <2>2. limiters[k] = NoBucket => spare[k] = Full
    BY DEF Covered
  <2>3. limiters[k] # NoBucket =>
          /\ bucket'[limiters[k]].level = l /\ Level(k) \in Int /\ l \in Int /\ l <= Full
          /\ l <= Level(k) + 1 /\ Level(k) <= spare[k]
          /\ spare[k] = Full \/ now <= lastSeen[k] + Stall + spare[k]
    BY <1>2 DEF Covered
  <2>4. now \in Nat /\ lastSeen[k] \in Nat
    BY CoveredTypes
  <2> HIDE DEF m, l
  <2> QED BY <1>1, <2>1, <2>2, <2>3, <2>4, Rates
<1>5. ASSUME NEW s \in Req, Due(s)', Mapped(s)'
      PROVE  now' - req'[s].act + Interval <= spare'[req'[s].ip]
  <2> DEFINE k == req[s].ip
             act == req[s].act
  <2>1. Due(s) /\ Mapped(s) /\ act >= now + 1 /\ now \in Nat
    BY <1>1, <1>5 DEF Due, At, Mapped, TypeOK, Call
  <2>2. k \in Ip /\ act \in Nat /\ now - act + Interval <= spare[k]
    BY <2>1, DueKept DEF Covered
  <2> SUFFICES now + 1 - act + Interval <= spare'[k]
    <3>1. now' = now + 1 /\ req'[s].act = act /\ req'[s].ip = k
      BY <1>1
    <3>2. now' - req'[s].act + Interval = now + 1 - act + Interval
      BY <2>1, <2>2, <3>1, Rates
    <3> QED BY <3>1, <3>2
  <2>3. CASE FallsDue(k)
    <3>1. act >= now + 1 + Interval
      BY <1>5, <2>1, <2>2, <2>3, TokenArrives DEF Mapped
    <3>2. spare'[k] \in Nat
      BY <1>3, <2>2, <2>3, Rates
    <3> HIDE DEF k, act
    <3> QED BY <2>1, <2>2, <3>1, <3>2, Rates
  <2>4. CASE ~FallsDue(k)
    <3>1. /\ spare'[k] \in Nat /\ spare[k] \in Nat
          /\ spare'[k] = spare[k] + 1 \/ spare'[k] = Full
      BY <2>2, <2>4, TickSpare
    <3> HIDE DEF k, act
    <3> QED BY <2>1, <2>2, <3>1, Rates
  <2> QED BY <2>3, <2>4
<1>6. ASSUME NEW k \in Ip
      PROVE  /\ spare'[k] \in 0..Full
             /\ limiters'[k] = NoBucket => spare'[k] = Full
             /\ limiters'[k] # NoBucket => /\ bucket'[limiters'[k]].level <= spare'[k]
                                           /\ \/ spare'[k] = Full
                                              \/ now' <= lastSeen'[k] + Stall + spare'[k]
  BY <1>1, <1>3, <1>4
<1> QED BY <1>5, <1>6 DEF Covered

LEMMA CoveredSteps ==
  ASSUME TypeOK, Calls, Chain, Covered, [Next]_vars
  PROVE  Covered'
<1>1. ASSUME NEW r \in Req, \/ Refuse(r) \/ AdmitLate(r) \/ Acquire(r) \/ Busy(r)
                            \/ Bind(r) \/ Reject(r) \/ Finish(r)
      PROVE  Covered'
  BY <1>1, KeepsDue DEF Covered, Mapped, SameToken
<1>2. ASSUME Sweep PROVE Covered'
  <2>1. /\ limiters' = [i \in Ip |-> IF IdleSince(i) THEN NoBucket ELSE limiters[i]]
        /\ UNCHANGED <<lastSeen, bucket, req, now, spare>>
    BY <1>2 DEF Sweep
  <2>2. ASSUME NEW i \in Ip, IdleSince(i) PROVE spare[i] = Full
    <3>1. /\ spare[i] \in Nat /\ spare[i] <= Full /\ lastSeen[i] \in Nat /\ now \in Nat
          /\ spare[i] = Full \/ now <= lastSeen[i] + Stall + spare[i]
          /\ lastSeen[i] < now - IdleTTL
      BY <2>2, CoveredTypes DEF IdleSince, Covered
    <3> QED BY <3>1, Rates
  <2>3. ASSUME NEW s \in Req, Due(s)', Mapped(s)' PROVE Due(s) /\ Mapped(s)
    BY <2>1, <2>3, DueKept, NoneAssumption DEF Due, At, Mapped, TypeOK, Calls, CallOK
  <2> QED BY <2>1, <2>2, <2>3 DEF Covered
<1>3. CASE UNCHANGED vars
  BY <1>3 DEF vars, Covered, Due, At, Mapped
<1> QED BY <1>1, <1>2, <1>3, LookUpCovered, AdmitCovered, ReserveLaterCovered, CancelCovered,
           TickCovered DEF Next, Request

--------------------------------------------------------------------------------
(* A refusal alone *)

\* Where the buckets, levels and refusals of an IP stay as they were.
LoneAt(i) ==
  limiters[i] # NoBucket /\ ~blurred[i] =>
    /\ Waiting(limiters[i]) = {} => bucket[limiters[i]].level = spare[i]
    /\ \A r, s \in Waiting(limiters[i]) : r = s
    /\ \A r \in Waiting(limiters[i]) : Due(r) =>
         /\ bucket[limiters[i]].lastEvent = req[r].act
         /\ bucket[limiters[i]].level + Interval = spare[i]

\* A request that waits before and after a step was due before if it is after.
LEMMA StillDue ==
  ASSUME TypeOK, now' = now, NEW b, NEW s \in Waiting(b), SameToken(s), Due(s)'
  PROVE  Due(s)
<1>1. s \in Req /\ req[s].act \in Nat /\ now \in Nat /\ req'[s].act = req[s].act
  BY DEF Waiting, TypeOK, Call, SameToken
<1>2. req[s].act >= now
  BY <1>1 DEF Due, At
<1> QED BY <1>1, <1>2 DEF Waiting, Due

\* The requests that wait for a token of a bucket after the step.
WaitingNext(b) ==
  {s \in Req : /\ req'[s].bucket = b
              /\ \/ req'[s].step = "cancel"
                 \/ req'[s].step = "delay" /\ req'[s].act > now'}

LEMMA LoneKept ==
  ASSUME TypeOK, NEW i \in Ip, LoneAt(i), now' = now,
         limiters'[i] = limiters[i], blurred'[i] = blurred[i], spare'[i] = spare[i],
         limiters[i] # NoBucket => /\ bucket'[limiters[i]] = bucket[limiters[i]]
                                   /\ WaitingNext(limiters[i]) = Waiting(limiters[i]),
         \A s \in Waiting(limiters[i]) : SameToken(s)
  PROVE  LoneAt(i)'
<1> SUFFICES ASSUME limiters[i] # NoBucket, ~blurred[i] PROVE LoneAt(i)'
  BY DEF LoneAt
<1>1. Waiting(limiters[i])' = Waiting(limiters[i])
  BY DEF WaitingNext, Waiting, At
<1>2. \A s \in Waiting(limiters[i]) : Due(s)' => Due(s)
  BY StillDue
<1> QED BY <1>1, <1>2 DEF LoneAt, SameToken

\* A request's step changes who waits for its own bucket only.
LEMMA WaitingKept ==
  ASSUME TypeOK, NEW r \in Req, \A s \in Req : s # r => req'[s] = req[s], now' = now,
         NEW b, r \in Waiting(b) <=> r \in WaitingNext(b),
         r \in Waiting(b) => SameToken(r)
  PROVE  /\ WaitingNext(b) = Waiting(b)
         /\ \A s \in Waiting(b) : SameToken(s)
BY DEF Waiting, WaitingNext, At, SameToken

LEMMA LookUpLone ==
  ASSUME TypeOK, Calls, Covered, Lone, NEW r \in Req, NEW i \in Ip, LookUp(r, i),
         NEW k \in Ip
  PROVE  LoneAt(k)'
<1>1. PICK b \in Bucket :
           /\ \A j \in Ip : limiters'[j] = IF j = i THEN b ELSE limiters[j]
           /\ \A j \in Ip : j # i => limiters[j] # b
           /\ \A d \in Bucket : d # b => bucket'[d] = bucket[d]
           /\ \/ /\ limiters[i] = NoBucket /\ bucket'[b] = NewLimiter
                 /\ \A s \in Req : req[s].bucket # b
              \/ limiters[i] = b /\ bucket'[b] = bucket[b]
           /\ \A s \in Req : s # r => req'[s] = req[s]
           /\ At(r, "idle") /\ req'[r].step = "reserve"
           /\ \A j \in Ip : lastSeen'[j] = IF j = i THEN now ELSE lastSeen[j]
           /\ UNCHANGED <<now, spare, blurred>>
  BY LookUpEffect
<1>2. ASSUME NEW d
      PROVE  WaitingNext(d) = Waiting(d) /\ \A s \in Waiting(d) : SameToken(s)
  <2>1. r \notin Waiting(d) /\ r \notin WaitingNext(d)
    BY <1>1 DEF Waiting, WaitingNext, At
  <2> QED BY <1>1, <2>1, WaitingKept
<1>3. LoneAt(k)
  BY DEF Lone, LoneAt
<1>4. CASE k # i \/ limiters[i] = b
  <2>1. limiters'[k] = limiters[k]
    BY <1>1, <1>4
  <2>2. limiters[k] # NoBucket => bucket'[limiters[k]] = bucket[limiters[k]]
    BY <1>1, <1>4, NoneAssumption DEF TypeOK
  <2> QED BY <1>1, <1>2, <1>3, <2>1, <2>2, LoneKept
<1>5. CASE k = i /\ limiters[i] # b
  <2>1. /\ limiters'[k] = b /\ limiters[i] = NoBucket /\ bucket'[b] = NewLimiter
        /\ \A s \in Req : req[s].bucket # b
    BY <1>1, <1>5
  <2>2. Waiting(b) = {}
    BY <2>1 DEF Waiting
  <2>3. Waiting(limiters[k])' = {}
    BY <1>1, <1>2, <2>1, <2>2 DEF Waiting, WaitingNext, At
  <2>4. bucket'[b].level = spare'[k]
    BY <1>1, <1>5, <2>1, NewLimiterOK DEF Covered
  <2> QED BY <2>1, <2>3, <2>4 DEF LoneAt
<1> QED BY <1>4, <1>5

LEMMA AdmitLone ==
  ASSUME TypeOK, Calls, Chain, Covered, Lone, NEW r \in Req, Admit(r), NEW k \in Ip
  PROVE  LoneAt(k)'
<1> DEFINE b == req[r].bucket
           i == req[r].ip
           n == bucket[b].level
<1>1. /\ b \in Bucket /\ i \in Ip /\ limiters[i] = b /\ b # NoBucket /\ n \in Int
      /\ \A j \in Ip : limiters[j] = b => j = i
  BY NoneAssumption, Rates DEF Admit, At, Calls, CallOK, Mapped, Early, TypeOK, Limiter
<1>2. /\ UNCHANGED <<limiters, now, blurred>>
      /\ bucket' = [bucket EXCEPT ![b] = [level |-> n - Interval, lastEvent |-> now]]
      /\ spare' = [spare EXCEPT ![i] = @ - Interval]
      /\ req' = [req EXCEPT ![r].step = "guard"]
      /\ At(r, "reserve")
  BY DEF Admit, Goto
<1>3. req'[r].step = "guard" /\ \A s \in Req : s # r => req'[s] = req[s]
  BY <1>2 DEF TypeOK, Call
<1>4. ASSUME NEW d
      PROVE  WaitingNext(d) = Waiting(d) /\ \A s \in Waiting(d) : SameToken(s)
  <2>1. r \notin Waiting(d) /\ r \notin WaitingNext(d)
    BY <1>2, <1>3 DEF Waiting, WaitingNext, At
  <2> QED BY <1>2, <1>3, <2>1, WaitingKept
<1>5. LoneAt(k)
  BY DEF Lone, LoneAt
<1> HIDE DEF n
<1>6. CASE k # i
  <2>1. limiters[k] # b /\ spare'[k] = spare[k]
    BY <1>1, <1>2, <1>6 DEF TypeOK
  <2>2. limiters[k] # NoBucket => bucket'[limiters[k]] = bucket[limiters[k]]
    BY <1>2, <2>1 DEF TypeOK
  <2> QED BY <1>2, <1>4, <1>5, <2>1, <2>2, LoneKept
<1>7. CASE k = i
  <2>1. bucket'[b].level = n - Interval /\ spare'[i] = spare[i] - Interval
    BY <1>1, <1>2 DEF TypeOK
  <2>2. Waiting(limiters[k])' = Waiting(b)
    BY <1>1, <1>2, <1>4, <1>7 DEF WaitingNext, Waiting, At
  <2>3. \A s \in Waiting(b) : ~Due(s)'
    <3>1. ASSUME NEW s \in Waiting(b), Due(s)' PROVE FALSE
      <4>1. Due(s) /\ s \in Req /\ req[s].bucket = b
        BY <1>2, <1>4, <3>1, StillDue DEF Waiting
      <4> QED BY <4>1, AdmitAlone
    <3> QED BY <3>1
  <2>4. Waiting(b) = {} /\ ~blurred[i] => n = spare[i]
    BY <1>1, <1>5, <1>7 DEF LoneAt, n
  <2>5. ~blurred[i] => \A s, u \in Waiting(b) : s = u
    BY <1>1, <1>5, <1>7 DEF LoneAt
  <2> QED BY <1>1, <1>2, <1>7, <2>1, <2>2, <2>3, <2>4, <2>5 DEF LoneAt
<1> QED BY <1>6, <1>7

LEMMA ReserveLaterLone ==
  ASSUME TypeOK, Calls, Covered, Lone, NEW r \in Req, ReserveLater(r), NEW k \in Ip
  PROVE  LoneAt(k)'
<1> DEFINE b == req[r].bucket
           i == req[r].ip
           n == bucket[b].level
           left == n - Interval
<1>1. /\ b \in Bucket /\ i \in Ip /\ limiters[i] = b /\ b # NoBucket /\ n \in Int
      /\ \A j \in Ip : limiters[j] = b => j = i
  BY NoneAssumption, Rates DEF ReserveLater, At, Calls, CallOK, Mapped, Early, TypeOK, Limiter
<1>2. /\ left < 0 /\ UNCHANGED <<limiters, now, spare>>
      /\ bucket' = [bucket EXCEPT ![b] = [level |-> left, lastEvent |-> now - left]]
      /\ req' = [req EXCEPT ![r] = [@ EXCEPT !.step = "delay", !.act = now - left]]
      /\ blurred' = IF Waiting(b) = {} THEN blurred ELSE [blurred EXCEPT ![i] = TRUE]
      /\ At(r, "reserve")
  BY DEF ReserveLater
<1> HIDE DEF n
<1>3. /\ req'[r].step = "delay" /\ req'[r].act = now - left /\ req'[r].bucket = b
      /\ \A s \in Req : s # r => req'[s] = req[s]
  BY <1>2 DEF TypeOK, Call
<1>4. LoneAt(k)
  BY DEF Lone, LoneAt
<1>5. CASE k # i
  <2>1. limiters[k] # b /\ blurred'[k] = blurred[k]
    BY <1>1, <1>2, <1>5 DEF TypeOK
  <2>2. limiters[k] # NoBucket => bucket'[limiters[k]] = bucket[limiters[k]]
    BY <1>2, <2>1 DEF TypeOK
  <2>3. /\ WaitingNext(limiters[k]) = Waiting(limiters[k])
        /\ \A s \in Waiting(limiters[k]) : SameToken(s)
    <3>1. r \notin Waiting(limiters[k]) /\ r \notin WaitingNext(limiters[k])
      BY <1>2, <1>3, <2>1 DEF Waiting, WaitingNext, At
    <3> QED BY <1>2, <1>3, <3>1, WaitingKept
  <2> QED BY <1>2, <1>4, <2>1, <2>2, <2>3, LoneKept
<1>6. CASE k = i
  <2> SUFFICES ASSUME ~blurred'[i] PROVE LoneAt(k)'
    BY <1>6 DEF LoneAt
  <2>1. Waiting(b) = {} /\ ~blurred[i]
    BY <1>1, <1>2 DEF TypeOK
  <2>2. n = spare[i]
    BY <1>1, <1>4, <1>6, <2>1 DEF LoneAt, n
  <2>3. bucket'[b].level = left /\ bucket'[b].lastEvent = now - left
    BY <1>1, <1>2 DEF TypeOK
  <2>4. Waiting(limiters[k])' = {r}
    <3>1. ASSUME NEW s \in Req, s # r PROVE s \notin WaitingNext(b)
      <4>1. req'[s] = req[s] /\ now' = now /\ s \notin Waiting(b)
        BY <1>2, <1>3, <2>1, <3>1
      <4> QED BY <4>1 DEF Waiting, WaitingNext, At
    <3>2. now - left > now /\ now' = now
      BY <1>1, <1>2, Rates DEF TypeOK
    <3> HIDE DEF left
    <3>3. WaitingNext(b) = {r}
      BY <1>3, <3>1, <3>2 DEF WaitingNext
    <3>4. limiters'[k] = b
      BY <1>1, <1>2, <1>6
    <3> QED BY <3>3, <3>4 DEF WaitingNext, Waiting, At
  <2>5. left + Interval = n
    BY <1>1, Rates
  <2> HIDE DEF left
  <2> QED BY <1>1, <1>2, <1>3, <1>6, <2>2, <2>3, <2>4, <2>5 DEF LoneAt
<1> QED BY <1>5, <1>6

LEMMA CancelLone ==
  ASSUME TypeOK, Calls, Chain, Covered, Lone, NEW r \in Req, Cancel(r), NEW k \in Ip
  PROVE  LoneAt(k)'
<1> DEFINE b == req[r].bucket
           i == req[r].ip
<1>1. /\ b \in Bucket /\ bucket[b] \in Limiter /\ req[r].act \in Nat
      /\ \A d \in Bucket : d # b => bucket'[d] = bucket[d]
      /\ req'[r] = Idle /\ \A s \in Req : s # r => req'[s] = req[s]
  BY CancelEffect
<1>2. /\ UNCHANGED <<limiters, now, spare>> /\ At(r, "cancel")
      /\ bucket' = [bucket EXCEPT ![b] = Cancelled(@, req[r].act)]
      /\ blurred' = IF req[r].act < now THEN [blurred EXCEPT ![i] = TRUE] ELSE blurred
  BY DEF Cancel, GivenBack
<1>3. i \in Ip /\ b # NoBucket /\ \A j \in Ip : limiters[j] = b => j = i
  BY <1>1, NoneAssumption DEF Cancel, At, Calls, CallOK
<1>4. LoneAt(k)
  BY DEF Lone, LoneAt
<1>5. CASE limiters[k] # b
  <2>1. limiters[k] # NoBucket => bucket'[limiters[k]] = bucket[limiters[k]]
    BY <1>1, <1>5 DEF TypeOK
  <2>2. /\ WaitingNext(limiters[k]) = Waiting(limiters[k])
        /\ \A s \in Waiting(limiters[k]) : SameToken(s)
    <3>1. r \notin Waiting(limiters[k]) /\ r \notin WaitingNext(limiters[k])
      BY <1>1, <1>5, IdleOK DEF Waiting, WaitingNext
    <3> QED BY <1>1, <1>2, <3>1, WaitingKept
  <2>3. ~blurred'[k] => ~blurred[k]
    BY <1>2, <1>3 DEF TypeOK
  <2>4. CASE blurred'[k] = blurred[k]
    BY <1>2, <1>4, <2>1, <2>2, <2>4, LoneKept
  <2>5. CASE blurred'[k] # blurred[k]
    BY <1>2, <1>3, <2>5 DEF LoneAt, TypeOK
  <2> QED BY <2>4, <2>5
<1>6. CASE limiters[k] = b
  <2> SUFFICES ASSUME ~blurred'[k] PROVE LoneAt(k)'
    BY DEF LoneAt
  <2>1. k = i
    BY <1>3, <1>6
  <2>2. req[r].act >= now /\ ~blurred[k]
    BY <1>1, <1>2, <1>3, <2>1 DEF TypeOK
  <2>3. r \in Waiting(b) /\ Due(r)
    BY <1>2, <2>2 DEF Waiting, Due
  <2>4. /\ bucket[b].lastEvent = req[r].act /\ bucket[b].level + Interval = spare[k]
        /\ \A s \in Waiting(b) : s = r
    BY <1>3, <1>4, <1>6, <2>2, <2>3 DEF LoneAt
  <2>5. Cancelled(bucket[b], req[r].act).level = Refilled(bucket[b].level, Interval)
    <3> DEFINE m == bucket[b]
               act == req[r].act
    <3>1. m.lastEvent - act = 0 /\ act >= now /\ act \in Nat /\ now \in Nat
      BY <1>1, <2>2, <2>4 DEF TypeOK
    <3>2. Interval - (m.lastEvent - act) = Interval /\ ~(act < now) /\ ~(Interval <= 0)
      BY <3>1, Rates
    <3> HIDE DEF m, act
    <3>3. Cancelled(m, act).level = Refilled(m.level, Interval)
      BY <3>2 DEF Cancelled
    <3> QED BY <3>3 DEF m, act
  <2>6. Refilled(bucket[b].level, Interval) = spare[k]
    BY <1>1, <2>4, CoveredTypes, Rates DEF Refilled, Ideal!Refilled, Full, Limiter
  <2>7. bucket'[b].level = spare[k]
    BY <1>1, <1>2, <2>5, <2>6 DEF TypeOK
  <2>8. Waiting(limiters[k])' = {}
    <3>1. \A s \in Req : s \notin WaitingNext(b)
      BY <1>1, <1>2, <2>4, IdleOK DEF Waiting, WaitingNext, At
    <3> QED BY <1>2, <1>6, <3>1 DEF Waiting, WaitingNext, At
  <2> QED BY <1>2, <1>6, <2>7, <2>8 DEF LoneAt
<1> QED BY <1>5, <1>6

LEMMA TickLone ==
  ASSUME TypeOK, Calls, Chain, Covered, Lone, Tick, NEW k \in Ip
  PROVE  LoneAt(k)'
<1>1. /\ bucket' = [b \in Bucket |-> [bucket[b] EXCEPT !.level = Refilled(@, 1)]]
      /\ now' = now + 1 /\ UNCHANGED <<limiters, req, blurred>>
  BY DEF Tick
<1> SUFFICES ASSUME limiters[k] # NoBucket, ~blurred[k] PROVE LoneAt(k)'
  BY <1>1 DEF LoneAt
<1> DEFINE b == limiters[k]
           n == bucket[b].level
           m == spare[k]
<1>2. LoneAt(k) /\ b \in Bucket
  BY DEF Lone, LoneAt, TypeOK
<1>3. /\ bucket'[b].level = Refilled(n, 1)
      /\ bucket'[b].lastEvent = bucket[b].lastEvent
      /\ n \in Int /\ m \in Nat /\ m <= Full /\ now \in Nat
  BY <1>1, <1>2, CoveredTypes DEF TypeOK, Limiter
\* The one request that may wait leaves the two levels a token apart.
<1>4. ASSUME NEW r \in Waiting(b), Due(r)
      PROVE  /\ bucket[b].lastEvent = req[r].act
             /\ Refilled(n, 1) = n + 1 /\ Refilled(m, 1) = m + 1 /\ n + Interval = m
             \/ req[r].act = now
  <2>1. r \in Req /\ req[r].bucket = b /\ req[r].act >= now /\ req[r].act \in Nat
    BY <1>4, DueKept DEF Waiting
  <2>2. bucket[b].lastEvent = req[r].act /\ n + Interval = m
    BY <1>2, <1>4 DEF LoneAt
  <2>3. n <= now - req[r].act
    BY <1>4, <2>1 DEF Chain
  <2> HIDE DEF n, m
  <2>4. req[r].act # now => n \in Int /\ m \in Int /\ n + 1 <= Full /\ m + 1 <= Full
    BY <1>3, <2>1, <2>2, <2>3, Rates
  <2>5. req[r].act # now => Refilled(n, 1) = n + 1 /\ Refilled(m, 1) = m + 1
    BY <1>3, <2>4, Rates DEF Refilled, Ideal!Refilled, Full
  <2> QED BY <2>2, <2>5
<1>5. limiters'[k] = b /\ blurred'[k] = blurred[k]
  BY <1>1
<1>6. CASE FallsDue(k)
  <2>1. PICK r \in Req : /\ At(r, "delay") /\ Due(r) /\ req[r].bucket = b
                        /\ req[r].act = now + 1
    BY <1>6, TokenArrives
  <2>2. r \in Waiting(b)
    BY <1>3, <2>1 DEF Waiting
  <2>3. Refilled(n, 1) = n + 1 /\ Refilled(m, 1) = m + 1 /\ n + Interval = m
    BY <1>3, <1>4, <2>1, <2>2
  <2>4. spare'[k] = Refilled(m, 1) - Interval
    BY <1>6, TickSpare
  <2>5. bucket'[b].level = spare'[k]
    <3> HIDE DEF n, m
    <3> QED BY <1>3, <2>3, <2>4, Rates
  <2>6. Waiting(b)' = {}
    <3>1. \A s \in Waiting(b) : s = r
      BY <1>2, <2>2 DEF LoneAt
    <3>2. ASSUME NEW s \in Req, s \in Waiting(b)' PROVE FALSE
      <4>1. req'[s] = req[s] /\ req[s].bucket = b
        BY <1>1, <3>2 DEF Waiting
      <4>2. CASE s = r
        BY <1>1, <1>3, <2>1, <3>2, <4>2 DEF Waiting, At
      <4>3. CASE s # r
        <5>1. At(s, "cancel") \/ (At(s, "delay") /\ req[s].act > now)
          BY <1>1, <1>3, <3>2 DEF Waiting, At, TypeOK, Call
        <5> QED BY <3>1, <4>1, <4>3, <5>1 DEF Waiting
      <4> QED BY <4>2, <4>3
    <3> QED BY <3>2 DEF Waiting
  <2> QED BY <1>5, <2>5, <2>6 DEF LoneAt
<1>7. CASE ~FallsDue(k)
  <2>1. spare'[k] = Refilled(m, 1)
    <3>1. spare'[k] = Refilled(m, 1) - 0 /\ Refilled(m, 1) \in Nat
      BY <1>7, TickSpare
    <3> HIDE DEF m
    <3> QED BY <3>1
  <2>2. ASSUME NEW s \in Req PROVE s \in Waiting(b)' <=> s \in Waiting(b)
    <3>1. req'[s] = req[s] /\ req[s].act \in Nat
      BY <1>1 DEF TypeOK, Call
    <3>2. At(s, "delay") /\ req[s].bucket = b => req[s].act # now + 1
      BY <1>7, <1>2 DEF FallsDue, Calls, CallOK, At
    <3>3. At(s, "delay") /\ req[s].bucket = b => (req[s].act > now' <=> req[s].act > now)
      <4>1. now' = now + 1 /\ now \in Nat
        BY <1>1, <1>3
      <4> QED BY <3>1, <3>2, <4>1
    <3>4. b' = b
      BY <1>1
    <3> HIDE DEF b
    <3> QED BY <3>1, <3>3, <3>4 DEF Waiting, At
  <2>3. Waiting(b)' = Waiting(b)
    BY <2>2 DEF Waiting
  <2>4. Waiting(b) = {} => bucket'[b].level = spare'[k]
    BY <1>2, <1>3, <2>1 DEF LoneAt
  <2>5. ASSUME NEW r \in Waiting(b), Due(r)'
        PROVE  bucket'[b].lastEvent = req[r].act /\ bucket'[b].level + Interval = spare'[k]
    <3>1. r \in Req /\ req[r].act >= now + 1 /\ req[r].act \in Nat /\ Due(r)
      BY <1>1, <1>3, <2>5 DEF Waiting, Due, At, TypeOK, Call
    <3>2. /\ bucket[b].lastEvent = req[r].act
          /\ Refilled(n, 1) = n + 1 /\ Refilled(m, 1) = m + 1 /\ n + Interval = m
      BY <1>3, <1>4, <3>1
    <3> HIDE DEF n, m
    <3> QED BY <1>3, <2>1, <3>2, Rates
  <2>6. \A r, s \in Waiting(b) : r = s
    BY <1>2 DEF LoneAt
  <2>7. \A r \in Waiting(b) : req'[r] = req[r]
    BY <1>1
  <2> QED BY <1>5, <2>3, <2>4, <2>5, <2>6, <2>7 DEF LoneAt
<1> QED BY <1>6, <1>7

LEMMA LoneSteps ==
  ASSUME TypeOK, Calls, Chain, Covered, Lone, [Next]_vars
  PROVE  Lone'
<1> SUFFICES ASSUME NEW k \in Ip PROVE LoneAt(k)'
  BY DEF Lone, LoneAt
<1>1. LoneAt(k)
  BY DEF Lone, LoneAt
<1>2. ASSUME NEW r \in Req, \/ Refuse(r) \/ AdmitLate(r) \/ Acquire(r) \/ Busy(r)
                            \/ Bind(r) \/ Reject(r) \/ Finish(r)
      PROVE  LoneAt(k)'
  <2>1. /\ UNCHANGED <<limiters, bucket, now, spare, blurred>>
        /\ \A s \in Req : s # r => req'[s] = req[s]
    BY <1>2, KeepsDue
  <2>2. CASE Refuse(r)
    <3>1. /\ At(r, "delay") /\ req[r].act > now
          /\ req'[r].step = "cancel" /\ SameToken(r)
      BY <2>2 DEF Refuse, Goto, TypeOK, Call, SameToken
    <3>2. ASSUME NEW d
          PROVE  WaitingNext(d) = Waiting(d) /\ \A s \in Waiting(d) : SameToken(s)
      <4>1. r \in Waiting(d) <=> r \in WaitingNext(d)
        BY <3>1 DEF Waiting, WaitingNext, SameToken
      <4> QED BY <2>1, <3>1, <4>1, WaitingKept
    <3> QED BY <1>1, <2>1, <3>2, LoneKept
  <2>3. CASE ~Refuse(r)
    <3>1. /\ ~At(r, "cancel") /\ (At(r, "delay") => ~(req[r].act > now))
          /\ req'[r].step \notin {"cancel", "delay"}
      <4>1. /\ At(r, "delay") => req[r].act <= now
            /\ ~At(r, "cancel")
            /\ \/ req' = [req EXCEPT ![r].step = "guard"]
               \/ req' = [req EXCEPT ![r].step = "bind"]
               \/ req' = [req EXCEPT ![r].step = "check"]
               \/ req' = [req EXCEPT ![r] = Idle]
        BY <1>2, <2>3 DEF AdmitLate, Acquire, Busy, Bind, Reject, Finish, Release,
                          Goto, Return, At
      <4>2. req[r].act \in Nat /\ now \in Nat
        BY DEF TypeOK, Call
      <4>3. req'[r].step \in {"guard", "bind", "check", "idle"}
        BY <4>1, IdleOK DEF TypeOK, Call
      <4> QED BY <4>1, <4>2, <4>3
    <3>2. ASSUME NEW d
          PROVE  WaitingNext(d) = Waiting(d) /\ \A s \in Waiting(d) : SameToken(s)
      <4>1. r \notin Waiting(d) /\ r \notin WaitingNext(d)
        BY <3>1 DEF Waiting, WaitingNext
      <4> QED BY <2>1, <4>1, WaitingKept
    <3> QED BY <1>1, <2>1, <3>2, LoneKept
  <2> QED BY <2>2, <2>3
<1>3. ASSUME Sweep PROVE LoneAt(k)'
  <2>1. /\ limiters'[k] = IF IdleSince(k) THEN NoBucket ELSE limiters[k]
        /\ blurred'[k] = (blurred[k] /\ ~IdleSince(k))
        /\ UNCHANGED <<bucket, req, now, spare>>
    BY <1>3 DEF Sweep
  <2>2. CASE IdleSince(k)
    BY <2>1, <2>2 DEF LoneAt
  <2>3. CASE ~IdleSince(k)
    <3>1. WaitingNext(limiters[k]) = Waiting(limiters[k])
      BY <2>1 DEF WaitingNext, Waiting, At
    <3>2. \A s \in Waiting(limiters[k]) : SameToken(s)
      BY <2>1 DEF SameToken
    <3>3. blurred'[k] = blurred[k] /\ limiters'[k] = limiters[k]
      BY <2>1, <2>3 DEF TypeOK
    <3> QED BY <1>1, <2>1, <3>1, <3>2, <3>3, LoneKept
  <2> QED BY <2>2, <2>3
<1>4. CASE UNCHANGED vars
  BY <1>1, <1>4 DEF vars, LoneAt, Waiting, Due, At
<1> QED BY <1>2, <1>3, <1>4, LookUpLone, AdmitLone, ReserveLaterLone, CancelLone,
           TickLone DEF Next, Request

--------------------------------------------------------------------------------
(* Theorems *)

LEMMA InitIInv ==
  ASSUME Init
  PROVE  IInv
<1> USE DEF Init, At
<1>1. \A r \in Req : req[r].step = "idle"
  BY IdleOK
<1>2. TypeOK
  BY NewLimiterOK, IdleOK, RateAssumption, Rates DEF TypeOK
<1>3. PermitsAccounted
  <2>1. Running = {}
    BY <1>1 DEF Running
  <2> QED BY <2>1, FS_EmptySet DEF PermitsAccounted
<1>4. Calls /\ Chain
  BY <1>1 DEF Calls, Chain, Due
<1>5. Covered /\ Lone
  BY <1>1, Rates, NoneAssumption DEF Covered, Lone, Due
<1> QED BY <1>2, <1>3, <1>4, <1>5 DEF IInv

\* What the following theorems rest on.
THEOREM SpecInv == Spec => []IInv
<1>1. Init => IInv
  BY InitIInv
<1>2. IInv /\ [Next]_vars => IInv'
  BY TypeSteps, PermitSteps, CallsSteps, ChainSteps, CoveredSteps, LoneSteps DEF IInv
<1> QED BY <1>1, <1>2, PTL DEF Spec

\* The tables and requests of the handler keep their types, no bucket holds more
\* than its burst and no two IPs share one.
THEOREM TypeCorrect == Spec => []TypeOK
<1>1. IInv => TypeOK
  BY DEF IInv
<1> QED BY <1>1, SpecInv, PTL

\* Every admission of an IP is one its ideal token bucket grants when its token is
\* there, whatever its requests, the janitor and the clock do in between.
THEOREM KeptToBudget == Spec => WithinBudget
<1>1. Init => Ideal!Init
  BY DEF Init, Ideal!Init, Full, Ideal!Full
<1>2. IInv /\ [Next]_vars => [Ideal!Next]_spare
  <2> SUFFICES ASSUME IInv, [Next]_vars PROVE [Ideal!Next]_spare
    OBVIOUS
  <2>1. ASSUME NEW r \in Req, Admit(r) PROVE Ideal!Next
    <3>1. /\ req[r].ip \in Ip /\ req[r].bucket \in Bucket
          /\ limiters[req[r].ip] = req[r].bucket /\ req[r].bucket # NoBucket
      BY <2>1, NoneAssumption DEF IInv, Calls, CallOK, Mapped, Early, Admit, At
    <3>2. /\ bucket[req[r].bucket].level - Interval >= 0
          /\ spare' = [spare EXCEPT ![req[r].ip] = @ - Interval]
      BY <2>1 DEF Admit
    <3>3. /\ bucket[req[r].bucket].level \in Int /\ spare[req[r].ip] \in Nat
          /\ bucket[req[r].bucket].level <= spare[req[r].ip]
      BY <3>1, CoveredTypes DEF IInv, Covered, TypeOK, Limiter
    <3>4. spare[req[r].ip] >= Interval
      BY <3>2, <3>3, Rates
    <3> QED BY <3>1, <3>2, <3>4 DEF Ideal!Next, Ideal!Take
  <2>2. ASSUME Tick PROVE Ideal!Next
    <3> DEFINE waiting == {k \in Ip : FallsDue(k)}
    <3>1. spare' = [k \in Ip |->
                     Refilled(spare[k], 1) - IF k \in waiting THEN Interval ELSE 0]
      BY <2>2 DEF Tick
    <3>2. ASSUME NEW k \in waiting PROVE Refilled(spare[k], 1) >= Interval
      <4>1. /\ spare[k] + 1 >= Interval /\ spare[k] \in Nat
            /\ Refilled(spare[k], 1) = spare[k] + 1 \/ Refilled(spare[k], 1) = Full
        BY <2>2, TokenArrives, TickSpare DEF IInv
      <4> QED BY <4>1, Rates
    <3>3. waiting \in SUBSET Ip
      OBVIOUS
    <3> HIDE DEF waiting
    <3>4. Ideal!Refill
      BY <3>1, <3>2, <3>3 DEF Ideal!Refill, Refilled
    <3> QED BY <3>4 DEF Ideal!Next
  <2>3. ASSUME NEW r \in Req, \/ \E i \in Ip : LookUp(r, i)
                              \/ ReserveLater(r) \/ Refuse(r) \/ AdmitLate(r) \/ Cancel(r)
                              \/ Acquire(r) \/ Busy(r) \/ Bind(r) \/ Reject(r) \/ Finish(r)
        PROVE  UNCHANGED spare
    BY <2>3 DEF LookUp, ReserveLater, Refuse, AdmitLate, Cancel, Acquire, Busy, Bind,
                Reject, Finish
  <2>4. CASE Sweep \/ UNCHANGED vars
    BY <2>4 DEF Sweep, vars
  <2> QED BY <2>1, <2>2, <2>3, <2>4 DEF Next, Request
<1> QED BY <1>1, <1>2, SpecInv, PTL DEF Spec, WithinBudget, Ideal!Spec

\* A client whose refusals neither overlap nor are cancelled late has all the
\* tokens its admissions left it.
THEOREM RefusalAloneIsFree == Spec => []LoneRefusalIsFree
<1>1. IInv => LoneRefusalIsFree
  BY DEF IInv, Lone, LoneRefusalIsFree
<1> QED BY <1>1, SpecInv, PTL
================================================================================
