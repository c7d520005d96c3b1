------------------------------ MODULE AuditProducer ------------------------------
(***************************************************************************)
(* AuditProducer of internal/producer/producer.go: one NATS producer, made *)
(* on first use under a mutex that is held while it connects, shared by    *)
(* all requests and closed at shutdown.  A request that emits asks for the *)
(* producer and then publishes, in its own time; whoever emits gives its   *)
(* event in Sent.                                                          *)
(***************************************************************************)
EXTENDS Naturals

CONSTANTS
  Req,       \* requests that may emit at once
  Nobody,    \* the mutex is free
  MaxFaults  \* bound: failed connections and publishes, and cancelled requests

ASSUME ProducerAssumption ==
  Nobody \notin Req \cup {"Close"} /\ "Close" \notin Req /\ MaxFaults \in Nat

VARIABLES
  emitting,  \* per request: the next step of emit
  mu,        \* who holds the mutex
  producer,  \* the cached producer of the topic
  opened,    \* history: producers ever made
  faults     \* faults so far

producerVars == <<emitting, mu, producer, opened, faults>>

ProducerInit ==
  /\ emitting = [r \in Req |-> "off"] /\ mu = Nobody
  /\ producer = "none" /\ opened = 0 /\ faults = 0

At(r, step)     == emitting[r] = step
EmitTo(r, step) == emitting' = [emitting EXCEPT ![r] = step]

Fault == faults < MaxFaults /\ faults' = faults + 1

\* Mutant: the map is looked at, and a producer made, without the mutex.
LockFree(r) == At(r, "lock") /\ EmitTo(r, "lookup") /\ UNCHANGED <<mu, producer, opened, faults>>

Lock(r) ==
  /\ At(r, "lock") /\ mu = Nobody
  /\ mu' = r /\ EmitTo(r, "lookup")
  /\ UNCHANGED <<producer, opened, faults>>

\* A producer that has been closed stays in the map.
LookUp(r) ==
  /\ At(r, "lookup")
  /\ IF producer # "none" THEN EmitTo(r, "publish") /\ mu' = Nobody
     ELSE EmitTo(r, "connect") /\ UNCHANGED mu
  /\ UNCHANGED <<producer, opened, faults>>

Connect(r) ==
  /\ At(r, "connect")
  /\ producer' = "open" /\ opened' = opened + 1
  /\ mu' = Nobody /\ EmitTo(r, "publish")
  /\ UNCHANGED faults

\* Mutant: the early return forgets the mutex.
KeepsMutex(r) ==
  /\ At(r, "connect")
  /\ Fault /\ EmitTo(r, "lost")
  /\ UNCHANGED <<mu, producer, opened>>

ConnectFails(r) ==
  /\ At(r, "connect")
  /\ Fault /\ mu' = Nobody /\ EmitTo(r, "lost")
  /\ UNCHANGED <<producer, opened>>

PublishAudit(r) ==
  /\ At(r, "publish") /\ producer = "open"
  /\ EmitTo(r, "sent")
  /\ UNCHANGED <<mu, producer, opened, faults>>

\* Refused, cancelled, or published on a producer that has been closed.
PublishFails(r) ==
  /\ At(r, "publish")
  /\ IF producer = "closed" THEN UNCHANGED faults ELSE Fault
  /\ EmitTo(r, "lost")
  /\ UNCHANGED <<mu, producer, opened>>

Emit(r) ==
  \/ Lock(r) \/ LookUp(r) \/ Connect(r) \/ ConnectFails(r) \/ PublishAudit(r) \/ PublishFails(r)

\* At shutdown.  The wait before it is for a group that nobody ever joins.
Close ==
  /\ mu = Nobody /\ mu' = "Close"
  /\ producer = "open" /\ producer' = "closed"
  /\ UNCHANGED <<emitting, opened, faults>>

Closed ==
  /\ mu = "Close" /\ mu' = Nobody
  /\ UNCHANGED <<emitting, producer, opened, faults>>

ProducerTypeOK ==
  /\ emitting \in [Req -> {"off", "lock", "lookup", "connect", "publish", "sent", "lost"}]
  /\ mu \in Req \cup {"Close", Nobody}
  /\ producer \in {"none", "open", "closed"} /\ opened \in Nat /\ faults \in 0..MaxFaults

\* All requests share one connection however many make the first event at once
\* (producer.go:63): a second would never be closed.
OneConnection == opened <= 1
================================================================================
