------------------------------ MODULE ToolsLimiter -----------------------------
(***************************************************************************)
(* The abuse controls of the public tools (tools_handler.go): a token      *)
(* bucket for each client IP, made on its first request and forgotten by a *)
(* janitor once it was idle, and a semaphore over all clients.             *)
(*                                                                         *)
(* Only the map of buckets is guarded by the handler's mutex.  A request   *)
(* leaves it with a pointer to its bucket, reserves a token there, asks    *)
(* how long it would have to wait, and gives the token back if at all;     *)
(* requests of one client, the janitor and the clock run in between.  The  *)
(* bucket is x/time/rate's Limiter, external and modelled by what Reserve, *)
(* Delay and Cancel do, each at the time it reads off the clock itself;    *)
(* levels are advanced with the clock, which is what it computes on demand.*)
(***************************************************************************)
EXTENDS Integers, FiniteSets

CONSTANTS
  Req,       \* slots of requests
  Ip,        \* client addresses
  Bucket,    \* identities of rate.Limiter objects
  NoIp, NoBucket,
  Burst,     \* toolsRatePerHour, the capacity in tokens
  Interval,  \* ticks in which one token is refilled
  IdleTTL,   \* toolsLimiterIdleTTL
  Permits,   \* toolsGlobalConcurrency
  Stall,     \* bound: ticks between a request's lookup of its bucket and Delay
  MaxDebt,   \* bound: how far overlapping refusals run a bucket down
  MaxTime    \* bound: the clock

ASSUME ReqAssumption == IsFiniteSet(Req)
ASSUME NoneAssumption == NoIp \notin Ip /\ NoBucket \notin Bucket
ASSUME RateAssumption == Burst \in Nat \ {0} /\ Interval \in Nat \ {0} /\ Permits \in Nat
ASSUME BoundAssumption == Stall \in Nat /\ MaxDebt \in Nat /\ MaxTime \in Nat
\* Two hours cover the hour of a refill and an hour between two statements.
ASSUME IdleAssumption == IdleTTL \in Nat /\ IdleTTL >= Burst * Interval + Stall

VARIABLES
  limiters,  \* the bucket of each IP, or NoBucket
  lastSeen,  \* when the IP last looked its bucket up
  bucket,    \* each Limiter: its level, and its lastEvent
  req,       \* each request: next step and its locals
  sem,       \* permits taken
  now,       \* the clock
  spare,     \* history: the level each IP is due, if only admissions cost a token,
             \* each of them when its token is there
  blurred    \* history: whether refusals of the IP overlapped or were cancelled late

vars == <<limiters, lastSeen, bucket, req, sem, now, spare, blurred>>

Ideal == INSTANCE TokenBucket WITH Client <- Ip, level <- spare

Full           == Ideal!Full
Refilled(n, d) == Ideal!Refilled(n, d)

\* seen is when the request looked its bucket up, act when its token will be due.
Idle == [step |-> "idle", ip |-> NoIp, bucket |-> NoBucket, seen |-> 0, act |-> 0]

At(r, s)   == req[r].step = s
Goto(r, s) == req' = [req EXCEPT ![r].step = s]
Return(r)  == req' = [req EXCEPT ![r] = Idle]

\* Limiters the collector could not have reused.
InUse  == {limiters[i] : i \in Ip} \cup {req[r].bucket : r \in Req}
Unused == Bucket \ InUse

NewLimiter == [level |-> Full, lastEvent |-> 0]

--------------------------------------------------------------------------------
(* allow *)

\* Mutant: the time of the last request is set when the bucket is made.
SeenOnce(i) == IF limiters[i] = NoBucket THEN now ELSE lastSeen[i]

Seen(i) == now

\* Under the mutex: look the bucket up, or make one, and leave with the pointer.
LookUp(r, i) ==
  /\ At(r, "idle")
  /\ \E b \in Bucket :
       /\ IF limiters[i] = NoBucket
            THEN b \in Unused /\ bucket' = [bucket EXCEPT ![b] = NewLimiter]
            ELSE b = limiters[i] /\ UNCHANGED bucket
       /\ limiters' = [limiters EXCEPT ![i] = b]
       /\ req' = [req EXCEPT ![r] =
            [Idle EXCEPT !.step = "reserve", !.ip = i, !.bucket = b, !.seen = now]]
  /\ lastSeen' = [lastSeen EXCEPT ![i] = Seen(i)]
  /\ UNCHANGED <<sem, now, spare, blurred>>

\* Reserve takes a token that is there: Delay is 0 whenever it is asked.
Admit(r) ==
  LET b == req[r].bucket
      left == bucket[b].level - Interval IN
  /\ At(r, "reserve")
  /\ left >= 0
  /\ bucket' = [bucket EXCEPT ![b] = [level |-> left, lastEvent |-> now]]
  /\ spare' = [spare EXCEPT ![req[r].ip] = @ - Interval]
  /\ Goto(r, "guard")
  /\ UNCHANGED <<limiters, lastSeen, sem, now, blurred>>

\* Requests that hold a token of the bucket which is not there yet, or which they
\* are about to give back.
Waiting(b) ==
  {r \in Req : /\ req[r].bucket = b
              /\ \/ At(r, "cancel")
                 \/ At(r, "delay") /\ req[r].act > now}

\* Reserve takes a token that is due later, at act.
ReserveLater(r) ==
  LET b == req[r].bucket
      left == bucket[b].level - Interval IN
  /\ At(r, "reserve")
  /\ left < 0
  /\ left >= -MaxDebt
  /\ bucket' = [bucket EXCEPT ![b] = [level |-> left, lastEvent |-> now - left]]
  /\ req' = [req EXCEPT ![r] = [@ EXCEPT !.step = "delay", !.act = now - left]]
  /\ blurred' = IF Waiting(b) = {} THEN blurred
                ELSE [blurred EXCEPT ![req[r].ip] = TRUE]
  /\ UNCHANGED <<limiters, lastSeen, sem, now, spare>>

\* Delay reads the clock again, and the token is still to come.
Refuse(r) ==
  /\ At(r, "delay")
  /\ req[r].act > now
  /\ Goto(r, "cancel")
  /\ UNCHANGED <<limiters, lastSeen, bucket, sem, now, spare, blurred>>

\* By the time Delay reads the clock the token is there, and the request goes on.
AdmitLate(r) ==
  /\ At(r, "delay")
  /\ req[r].act <= now
  /\ Goto(r, "guard")
  /\ UNCHANGED <<limiters, lastSeen, bucket, sem, now, spare, blurred>>

\* Limiter.Cancel: nothing of a token that is due by now, else the token without
\* what was reserved after it.
Cancelled(m, act) ==
  LET back == Interval - (m.lastEvent - act) IN
  IF act < now \/ back <= 0 THEN m
  ELSE [level     |-> Refilled(m.level, back),
        lastEvent |-> IF act = m.lastEvent /\ act - Interval >= now
                      THEN act - Interval ELSE m.lastEvent]

\* Mutant: the reservation is not cancelled.
NotCancelled(m, act) == m

GivenBack(m, act) == Cancelled(m, act)

\* Cancel, and the answer 429.
Cancel(r) ==
  LET q == req[r] IN
  /\ At(r, "cancel")
  /\ bucket' = [bucket EXCEPT ![q.bucket] = GivenBack(@, q.act)]
  /\ blurred' = IF q.act < now THEN [blurred EXCEPT ![q.ip] = TRUE] ELSE blurred
  /\ Return(r)
  /\ UNCHANGED <<limiters, lastSeen, sem, now, spare>>

--------------------------------------------------------------------------------
(* guard, and the handlers behind it *)

Acquire(r) ==
  /\ At(r, "guard")
  /\ sem < Permits
  /\ sem' = sem + 1
  /\ Goto(r, "bind")
  /\ UNCHANGED <<limiters, lastSeen, bucket, now, spare, blurred>>

\* The answer 503; the token is spent.
Busy(r) ==
  /\ At(r, "guard")
  /\ sem = Permits
  /\ Return(r)
  /\ UNCHANGED <<limiters, lastSeen, bucket, sem, now, spare, blurred>>

\* The release every handler defers as soon as it has its permit.
Release(r) == sem' = sem - 1 /\ Return(r)

\* bindDomain: the body and the domain are good, or the answer is 400.
Bind(r) ==
  /\ At(r, "bind")
  /\ Goto(r, "check")
  /\ UNCHANGED <<limiters, lastSeen, bucket, sem, now, spare, blurred>>

Reject(r) ==
  /\ At(r, "bind")
  /\ Release(r)
  /\ UNCHANGED <<limiters, lastSeen, bucket, now, spare, blurred>>

\* The check ended: the answer 200 or 502, or a panic, which releases too.
Finish(r) ==
  /\ At(r, "check")
  /\ Release(r)
  /\ UNCHANGED <<limiters, lastSeen, bucket, now, spare, blurred>>

--------------------------------------------------------------------------------
(* The janitor and the clock *)

IdleSince(i) == limiters[i] # NoBucket /\ lastSeen[i] < now - IdleTTL

\* One sweep, under the mutex.
Sweep ==
  /\ \E i \in Ip : IdleSince(i)
  /\ limiters' = [i \in Ip |-> IF IdleSince(i) THEN NoBucket ELSE limiters[i]]
  /\ blurred' = [i \in Ip |-> blurred[i] /\ ~IdleSince(i)]
  /\ UNCHANGED <<lastSeen, bucket, req, sem, now, spare>>

\* A request that did not ask for its delay yet will be admitted once the token it
\* reserved is there, so that is when the client has had it.
FallsDue(i) == \E r \in Req : /\ At(r, "delay") /\ req[r].ip = i
                             /\ req[r].act = now + 1

Tick ==
  /\ now < MaxTime
  /\ \A r \in Req : At(r, "reserve") \/ At(r, "delay") => now < req[r].seen + Stall
  /\ now' = now + 1
  /\ bucket' = [b \in Bucket |-> [bucket[b] EXCEPT !.level = Refilled(@, 1)]]
  /\ spare' = [i \in Ip |-> Refilled(spare[i], 1) - IF FallsDue(i) THEN Interval ELSE 0]
  /\ UNCHANGED <<limiters, lastSeen, req, sem, blurred>>

Init ==
  /\ limiters = [i \in Ip |-> NoBucket]
  /\ lastSeen = [i \in Ip |-> 0]
  /\ bucket = [b \in Bucket |-> NewLimiter]
  /\ req = [r \in Req |-> Idle]
  /\ sem = 0
  /\ now = 0
  /\ spare = [i \in Ip |-> Full]
  /\ blurred = [i \in Ip |-> FALSE]

Request(r) ==
  \/ \E i \in Ip : LookUp(r, i)
  \/ Admit(r) \/ ReserveLater(r) \/ Refuse(r) \/ AdmitLate(r) \/ Cancel(r)
  \/ Acquire(r) \/ Busy(r) \/ Bind(r) \/ Reject(r) \/ Finish(r)

Next == Sweep \/ Tick \/ \E r \in Req : Request(r)

Spec == Init /\ [][Next]_vars

--------------------------------------------------------------------------------
(* Properties *)

Step    == {"idle", "reserve", "delay", "cancel", "guard", "bind", "check"}
Call    == [step : Step, ip : Ip \cup {NoIp}, bucket : Bucket \cup {NoBucket},
            seen : Nat, act : Nat]
Limiter == [level : Int, lastEvent : Nat]

\* Tables and requests have their types, no bucket holds more than its burst, two
\* IPs never share one, and the semaphore is within its capacity.
TypeOK ==
  /\ limiters \in [Ip -> Bucket \cup {NoBucket}]
  /\ \A i, j \in Ip : limiters[i] = limiters[j] /\ i # j => limiters[i] = NoBucket
  /\ lastSeen \in [Ip -> Nat]
  /\ bucket \in [Bucket -> Limiter]
  /\ \A b \in Bucket : bucket[b].level <= Full
  /\ req \in [Req -> Call]
  /\ sem \in 0..Permits /\ now \in Nat
  /\ spare \in [Ip -> Int] /\ blurred \in [Ip -> BOOLEAN]

\* No client ever gets more than its token bucket allows, whatever reservations of
\* its requests overlap, are given back or fall due before they are looked at, and
\* although the janitor forgets its bucket and the next request starts with a full
\* one: the admissions of each IP, each counted when its token was there, are those
\* of an ideal bucket.  A request that stalls between Reserve and Delay may be
\* admitted later than that.
WithinBudget == Ideal!Spec

\* Nor does it get less, unless its refusals overlapped or were cancelled late: a
\* request that is refused alone costs the client nothing.
LoneRefusalIsFree ==
  \A i \in Ip :
    limiters[i] # NoBucket /\ ~blurred[i] /\ Waiting(limiters[i]) = {}
    => bucket[limiters[i]].level = spare[i]
================================================================================
