-------------------------------- MODULE TableProofs --------------------------------
(***************************************************************************)
(* What holds of the tables target.assets and target.targets for any       *)
(* number of requests, targets, assets, users and rows: the inventory is   *)
(* never orphaned, and reported in full while nothing fails; the values of *)
(* an owner are distinct; and readers err by no more than what was written *)
(* while they read.  The counting arguments rest on facts about sums and   *)
(* cardinalities that come first.                                          *)
(***************************************************************************)
EXTENDS AssetInventory, TargetRegistry, FiniteSetTheorems, WellFoundedInduction, TLAPS

--------------------------------------------------------------------------------
(* Sums over finite sets *)

LEMMA LeastSubset ==
  ASSUME NEW S, IsFiniteSet(S), NEW B \in SUBSET SUBSET S, B # {}
  PROVE  \E s \in B : \A u \in B : u \subseteq s => u = s
<1> DEFINE R == StrictSubsetOrdering(S)
<1>1. IsWellFoundedOn(R, SUBSET S)
  BY FS_StrictSubsetOrderingWellFounded, FS_FiniteSubsetsOfFinite
<1>2. \E s \in B : \A u \in B : ~ (<<u, s>> \in R)
  <2> HIDE DEF R
  <2> QED BY <1>1, WFMin
<1> QED BY <1>2 DEF StrictSubsetOrdering

LEMMA NatLeast ==
  ASSUME NEW T \in SUBSET Nat, T # {}
  PROVE  \E n \in T : \A m \in T : n <= m
<1>1. PICK m \in T : TRUE
  OBVIOUS
<1> DEFINE B == {s \in SUBSET (1..m) : \E n \in T : s = 1..n}
<1>2. IsFiniteSet(1..m) /\ 1..m \in B
  BY FS_Interval
<1>3. PICK s \in B : \A u \in B : u \subseteq s => u = s
  <2> DEFINE S == 1..m
  <2>1. IsFiniteSet(S) /\ B \in SUBSET SUBSET S /\ B # {}
    BY <1>2
  <2> HIDE DEF B, S
  <2> QED BY <2>1, LeastSubset
<1>4. PICK n \in T : s = 1..n
  BY <1>3
<1>5. ASSUME NEW k \in T, k < n PROVE FALSE
  <2>0. k \in Nat /\ n \in Nat /\ n \in 1..m
    <3>1. n \in s
      BY <1>4, <1>5
    <3> QED BY <1>3, <3>1
  <2>1. 1..k \subseteq s /\ 1..k \in B
    <3>1. 1..k \subseteq 1..n /\ 1..k \subseteq 1..m
      BY <1>1, <1>5, <2>0
    <3> QED BY <1>4, <3>1
  <2>2. 1..k = 1..n
    BY <1>3, <1>4, <2>1
  <2>3. n \in 1..n /\ n \notin 1..k
    BY <1>5
  <2> QED BY <2>2, <2>3
<1> QED BY <1>5

\* What the fold of the community modules takes out of a set first.
First(s) == CHOOSE x \in s : TRUE

SumStep(f, h, s) == IF s = {} THEN 0 ELSE f[First(s)] + h[s \ {First(s)}]

\* The fold's own recursion: h is the sum of f over every subset of S.
IsSum(h, f, S) == h = [s \in SUBSET S |-> SumStep(f, h, s)]

LEMMA FirstIn == ASSUME NEW s, s # {} PROVE First(s) \in s
BY DEF First

LEMMA FoldIsSum ==
  ASSUME NEW f, NEW S
  PROVE  SumFunctionOnSet(f, S) = (CHOOSE h : IsSum(h, f, S))[S]
BY DEF SumFunctionOnSet, FoldFunctionOnSet, MapThenFoldSet, IsSum, SumStep, First

\* The recursion is well founded: it is right on all subsets of up to n elements, for
\* every n.
LEMMA SumExists ==
  ASSUME NEW S, IsFiniteSet(S), NEW f, \A x \in S : f[x] \in Nat
  PROVE  \E h \in [SUBSET S -> Nat] : IsSum(h, f, S)
<1> DEFINE Small(n)  == {s \in SUBSET S : Cardinality(s) <= n}
           Right(n)  == \E h \in [SUBSET S -> Nat] : \A s \in Small(n) : h[s] = SumStep(f, h, s)
           Wrong     == {n \in Nat : ~ Right(n)}
<1>0. \A s \in SUBSET S : IsFiniteSet(s) /\ Cardinality(s) \in Nat
  BY FS_Subset, FS_CardinalityType
<1>1. Right(0)
  <2>1. \A s \in Small(0) : s = {}
    BY <1>0, FS_EmptySet
  <2>2. [s \in SUBSET S |-> 0] \in [SUBSET S -> Nat]
    OBVIOUS
  <2> QED BY <2>1, <2>2 DEF SumStep
<1>2. ASSUME NEW n \in Nat, Right(n) PROVE Right(n + 1)
  <2>1. PICK h \in [SUBSET S -> Nat] : \A s \in Small(n) : h[s] = SumStep(f, h, s)
    BY <1>2
  <2> DEFINE g == [s \in SUBSET S |-> SumStep(f, h, s)]
  <2>2. ASSUME NEW s \in SUBSET S, s # {}
        PROVE  /\ First(s) \in s /\ s \ {First(s)} \in SUBSET S
               /\ Cardinality(s \ {First(s)}) = Cardinality(s) - 1
    BY <1>0, <2>2, FirstIn, FS_RemoveElement
  <2>3. g \in [SUBSET S -> Nat]
    <3>1. ASSUME NEW s \in SUBSET S PROVE SumStep(f, h, s) \in Nat
      <4>1. CASE s = {}
        BY <4>1 DEF SumStep
      <4>2. CASE s # {}
        <5>1. f[First(s)] \in Nat /\ h[s \ {First(s)}] \in Nat
          BY <2>1, <2>2, <4>2
        <5> QED BY <4>2, <5>1 DEF SumStep
      <4> QED BY <4>1, <4>2
    <3> QED BY <3>1
  <2>4. ASSUME NEW s \in Small(n + 1) PROVE g[s] = SumStep(f, g, s)
    <3>1. CASE s = {}
      BY <3>1 DEF SumStep
    <3>2. CASE s # {}
      <4> DEFINE u == s \ {First(s)}
      <4>1. u \in Small(n) /\ u \in SUBSET S
        BY <1>0, <2>2, <3>2
      <4>2. g[u] = h[u]
        BY <2>1, <4>1
      <4>3. g[s] = f[First(s)] + h[u] /\ SumStep(f, g, s) = f[First(s)] + g[u]
        BY <3>2 DEF SumStep
      <4> QED BY <4>2, <4>3
    <3> QED BY <3>1, <3>2
  <2> HIDE DEF g
  <2> QED BY <2>3, <2>4
<1>3. Right(Cardinality(S))
  <2> HIDE DEF Right
  <2>1. CASE Wrong # {}
    <3>1. PICK n \in Wrong : \A m \in Wrong : n <= m
      BY <2>1, NatLeast
    <3>2. n \in Nat /\ n # 0 /\ ~ Right(n)
      BY <1>1, <3>1
    <3>3. n - 1 \in Nat /\ Right(n - 1)
      BY <3>1, <3>2
    <3>4. Right((n - 1) + 1)
      BY <1>2, <3>3
    <3> QED BY <3>2, <3>4
  <2>2. CASE Wrong = {}
    BY <1>0, <2>2
  <2> QED BY <2>1, <2>2
<1>4. \A s \in SUBSET S : s \in Small(Cardinality(S))
  BY FS_Subset
<1>5. PICK h \in [SUBSET S -> Nat] :
        \A s \in Small(Cardinality(S)) : h[s] = SumStep(f, h, s)
  BY <1>3
<1>6. h = [s \in SUBSET S |-> SumStep(f, h, s)]
  BY <1>4, <1>5
<1> QED BY <1>6 DEF IsSum

\* and determines the sum, over a set and over its subsets.
LEMMA SumUnique ==
  ASSUME NEW S, IsFiniteSet(S), NEW T \in SUBSET S, NEW f, NEW g, NEW h, NEW k,
         IsSum(h, f, S), IsSum(k, g, T), \A x \in T : f[x] = g[x]
  PROVE  \A s \in SUBSET T : h[s] = k[s]
<1> DEFINE B == {s \in SUBSET T : h[s] # k[s]}
<1>1. SUFFICES ASSUME B # {} PROVE FALSE
  OBVIOUS
<1>2. B \in SUBSET SUBSET S
  OBVIOUS
<1>3. PICK s \in B : \A u \in B : u \subseteq s => u = s
  <2> HIDE DEF B
  <2> QED BY <1>1, <1>2, LeastSubset
<1>4. h[s] = SumStep(f, h, s) /\ k[s] = SumStep(g, k, s)
  BY <1>3 DEF IsSum
<1>5. s # {}
  BY <1>3, <1>4 DEF SumStep
<1>6. First(s) \in s
  BY <1>5, FirstIn
<1>7. h[s \ {First(s)}] = k[s \ {First(s)}]
  BY <1>3, <1>6
<1>8. f[First(s)] = g[First(s)]
  BY <1>3, <1>6
<1> QED BY <1>3, <1>4, <1>5, <1>7, <1>8 DEF SumStep

LEMMA SumOfSubset ==
  ASSUME NEW S, IsFiniteSet(S), NEW T \in SUBSET S, NEW f, \A x \in S : f[x] \in Nat,
         NEW h, IsSum(h, f, S)
  PROVE  SumFunctionOnSet(f, T) = h[T]
<1>1. IsFiniteSet(T) /\ \A x \in T : f[x] \in Nat
  BY FS_Subset
<1> DEFINE k == CHOOSE g : IsSum(g, f, T)
<1>2. IsSum(k, f, T)
  BY <1>1, SumExists
<1>3. SumFunctionOnSet(f, T) = k[T]
  BY FoldIsSum
<1> HIDE DEF k
<1> QED BY <1>2, <1>3, SumUnique

LEMMA SumNat ==
  ASSUME NEW S, IsFiniteSet(S), NEW f, \A x \in S : f[x] \in Nat
  PROVE  SumFunctionOnSet(f, S) \in Nat
<1>1. PICK h \in [SUBSET S -> Nat] : IsSum(h, f, S)
  BY SumExists
<1> QED BY <1>1, SumOfSubset

LEMMA SumEmpty == \A f : SumFunctionOnSet(f, {}) = 0
<1>1. ASSUME NEW f PROVE SumFunctionOnSet(f, {}) = 0
  <2>1. PICK h \in [SUBSET {} -> Nat] : IsSum(h, f, {})
    BY SumExists, FS_EmptySet
  <2>2. SumFunctionOnSet(f, {}) = h[{}]
    BY <2>1, SumOfSubset, FS_EmptySet
  <2> QED BY <2>1, <2>2 DEF IsSum, SumStep
<1> QED BY <1>1

\* Only the values on the set count.
LEMMA SumSame ==
  ASSUME NEW S, IsFiniteSet(S), NEW f, NEW g, \A x \in S : f[x] \in Nat /\ g[x] = f[x]
  PROVE  SumFunctionOnSet(f, S) = SumFunctionOnSet(g, S)
<1>1. PICK h \in [SUBSET S -> Nat] : IsSum(h, f, S)
  BY SumExists
<1>2. PICK k \in [SUBSET S -> Nat] : IsSum(k, g, S)
  BY SumExists
<1>3. h[S] = k[S]
  BY <1>1, <1>2, SumUnique
<1> QED BY <1>1, <1>2, <1>3, SumOfSubset

\* Whatever is taken out first, the sum is the same.
LEMMA SumTakeOut ==
  ASSUME NEW S, IsFiniteSet(S), NEW f, \A x \in S : f[x] \in Nat, NEW x \in S
  PROVE  SumFunctionOnSet(f, S) = f[x] + SumFunctionOnSet(f, S \ {x})
<1>1. PICK h \in [SUBSET S -> Nat] : IsSum(h, f, S)
  BY SumExists
<1> DEFINE B == {s \in SUBSET S : \E y \in s : h[s] # f[y] + h[s \ {y}]}
<1>2. CASE B # {}
  <2>1. PICK s \in B : \A u \in B : u \subseteq s => u = s
    <3>1. B \in SUBSET SUBSET S
      OBVIOUS
    <3> HIDE DEF B
    <3> QED BY <1>2, <3>1, LeastSubset
  <2>2. PICK y \in s : h[s] # f[y] + h[s \ {y}]
    BY <2>1
  <2> DEFINE z == First(s)
             u == s \ {y}
             v == s \ {z}
             w == s \ {y, z}
  <2>3. z \in s /\ h[s] = f[z] + h[v]
    <3>1. h[s] = SumStep(f, h, s)
      BY <1>1, <2>1 DEF IsSum
    <3> QED BY <2>2, <3>1, FirstIn DEF SumStep
  <2> HIDE DEF z
  <2>4. y # z
    BY <2>2, <2>3
  <2>5. u \notin B /\ v \notin B /\ u \in SUBSET S /\ v \in SUBSET S
    BY <2>1, <2>2, <2>3
  <2>6. z \in u /\ y \in v /\ u \ {z} = w /\ v \ {y} = w
    BY <2>2, <2>3, <2>4
  <2>7. h[u] = f[z] + h[w] /\ h[v] = f[y] + h[w]
    BY <2>5, <2>6
  <2>8. h[w] \in Nat /\ f[y] \in Nat /\ f[z] \in Nat
    BY <1>1, <2>1, <2>2, <2>3
  <2> QED BY <2>2, <2>3, <2>7, <2>8
<1>3. CASE B = {}
  <2>1. h[S] = f[x] + h[S \ {x}]
    BY <1>3
  <2>2. SumFunctionOnSet(f, S) = h[S] /\ SumFunctionOnSet(f, S \ {x}) = h[S \ {x}]
    <3> HIDE DEF B
    <3> QED BY <1>1, SumOfSubset
  <2> QED BY <2>1, <2>2
<1> QED BY <1>2, <1>3

\* Adding to the value of one element adds to the sum.
LEMMA SumAdd ==
  ASSUME NEW S, IsFiniteSet(S), NEW f, NEW g, NEW x \in S, NEW d \in Nat,
         \A y \in S : f[y] \in Nat /\ g[y] = IF y = x THEN f[y] + d ELSE f[y]
  PROVE  SumFunctionOnSet(g, S) = SumFunctionOnSet(f, S) + d
<1>1. IsFiniteSet(S \ {x})
  BY FS_Subset
<1>2. SumFunctionOnSet(g, S \ {x}) = SumFunctionOnSet(f, S \ {x})
  BY <1>1, SumSame
<1>3. SumFunctionOnSet(f, S \ {x}) \in Nat
  BY <1>1, SumNat
<1>4. SumFunctionOnSet(f, S) = f[x] + SumFunctionOnSet(f, S \ {x})
  BY SumTakeOut
<1>5. SumFunctionOnSet(g, S) = g[x] + SumFunctionOnSet(g, S \ {x})
  <2>1. \A y \in S : g[y] \in Nat
    OBVIOUS
  <2> QED BY <2>1, SumTakeOut
<1> QED BY <1>2, <1>3, <1>4, <1>5

\* A larger set has the larger sum, and elements without a value add nothing.
LEMMA SumMonotone ==
  ASSUME NEW S, IsFiniteSet(S), NEW f, \A x \in S : f[x] \in Nat, NEW T \in SUBSET S
  PROVE  SumFunctionOnSet(f, T) <= SumFunctionOnSet(f, S)
<1>1. PICK h \in [SUBSET S -> Nat] : IsSum(h, f, S)
  BY SumExists
<1> DEFINE B == {s \in SUBSET S : T \subseteq s /\ h[s] < h[T]}
<1>2. CASE B # {}
  <2>1. PICK s \in B : \A u \in B : u \subseteq s => u = s
    <3>1. B \in SUBSET SUBSET S
      OBVIOUS
    <3> HIDE DEF B
    <3> QED BY <1>2, <3>1, LeastSubset
  <2>2. PICK y \in s : y \notin T
    <3>1. s # T
      BY <1>1, <2>1
    <3> QED BY <2>1, <3>1
  <2> DEFINE u == s \ {y}
  <2>3. u \in SUBSET S /\ T \subseteq u /\ u \notin B
    BY <2>1, <2>2
  <2>4. h[s] = f[y] + h[u]
    <3>1. IsFiniteSet(s) /\ \A x \in s : f[x] \in Nat
      BY <2>1, FS_Subset
    <3>2. SumFunctionOnSet(f, s) = f[y] + SumFunctionOnSet(f, u)
      BY <2>2, <3>1, SumTakeOut
    <3> QED BY <1>1, <2>1, <2>3, <3>2, SumOfSubset
  <2>5. h[u] \in Nat /\ h[s] \in Nat /\ h[T] \in Nat /\ f[y] \in Nat
    BY <1>1, <2>1, <2>2, <2>3
  <2> QED BY <2>1, <2>3, <2>4, <2>5
<1>3. CASE B = {}
  <2>1. h[S] \in Nat /\ h[T] \in Nat /\ ~ (h[S] < h[T])
    BY <1>1, <1>3
  <2>2. SumFunctionOnSet(f, S) = h[S] /\ SumFunctionOnSet(f, T) = h[T]
    BY <1>1, SumOfSubset
  <2> QED BY <2>1, <2>2
<1> QED BY <1>2, <1>3

LEMMA SumGrows ==
  ASSUME NEW S, IsFiniteSet(S), NEW f, NEW g, NEW T \in SUBSET S,
         \A x \in S : g[x] \in Nat, \A x \in T : f[x] = g[x]
  PROVE  /\ SumFunctionOnSet(f, T) \in Nat /\ SumFunctionOnSet(g, S) \in Nat
         /\ SumFunctionOnSet(f, T) <= SumFunctionOnSet(g, S)
<1>1. IsFiniteSet(T) /\ \A x \in T : f[x] \in Nat /\ g[x] = f[x]
  BY FS_Subset
<1>2. SumFunctionOnSet(f, T) = SumFunctionOnSet(g, T) /\ SumFunctionOnSet(f, T) \in Nat
  BY <1>1, SumSame, SumNat
<1> QED BY <1>2, SumMonotone, SumNat

--------------------------------------------------------------------------------
(* The inventory: its inductive invariant *)

\* The mutex: whoever looks a producer up or connects holds it, and nobody connects
\* once there is a producer; so there is never a second.  An event is lost to a fault or to the
\* shutdown only.
MutexInv ==
  /\ \A r \in Req : At(r, "lookup") \/ At(r, "connect") => mu = r
  /\ \A r \in Req : At(r, "connect") => producer = "none"
  /\ opened = IF producer = "none" THEN 0 ELSE 1
  /\ \A r \in Req : At(r, "lost") => faults > 0 \/ producer = "closed"

\* A batch that is under way was sent, and for a target.
BatchInv ==
  \A r \in Req : batch[r].step # "idle" => sent > 0 /\ batch[r].target \in Tid

Stored(t) == {a \in Asset : assets[t][a] # None}

\* The requests whose assets no event has told of yet: those that have one to come.
Untold(t) == {r \in Req : batch[r].target = t /\ batch[r].step \in {"read", "upsert", "emit"}}

upserts == [r \in Req |-> batch[r].upserted]

StoredInv ==
  /\ \A t \in Tid : IsFiniteSet(Stored(t))
  /\ faults = 0 /\ producer # "closed" =>
       \A t \in live : Cardinality(Stored(t)) <= reported[t] + SumFunctionOnSet(upserts, Untold(t))

InventoryInv == InventoryTypeOK /\ MutexInv /\ BatchInv /\ NoOrphans /\ StoredInv

LEMMA InventoryInitial == InventoryInit => InventoryInv
<1> SUFFICES ASSUME InventoryInit PROVE InventoryInv
  OBVIOUS
<1> USE DEF InventoryInit, ProducerInit
<1>1. InventoryTypeOK
  BY ProducerAssumption, InventoryAssumption
     DEF InventoryTypeOK, ProducerTypeOK, NoBatch, At
<1>2. MutexInv /\ BatchInv /\ NoOrphans
  BY DEF MutexInv, At, BatchInv, NoBatch, NoOrphans
<1>3. StoredInv
  <2>1. \A t \in Tid : Stored(t) = {} /\ Untold(t) = {}
    BY DEF Stored, Untold, NoBatch
  <2> QED BY <2>1, FS_EmptySet, SumEmpty DEF StoredInv
<1> QED BY <1>1, <1>2, <1>3 DEF InventoryInv

\* Only the producer moves.
LEMMA TablesKept ==
  ASSUME InventoryInv, UNCHANGED <<live, assets, batch, sent, reported>>,
         faults' = 0 => faults = 0, producer' # "closed" => producer # "closed"
  PROVE  BatchInv' /\ NoOrphans' /\ StoredInv'
<1>1. BatchInv' /\ NoOrphans'
  BY DEF InventoryInv, BatchInv, NoOrphans
<1>2. upserts' = upserts /\ \A t \in Tid : Stored(t)' = Stored(t) /\ Untold(t)' = Untold(t)
  BY DEF upserts, Stored, Untold
<1>3. live \subseteq Tid
  BY DEF InventoryInv, InventoryTypeOK
<1> QED BY <1>1, <1>2, <1>3 DEF InventoryInv, StoredInv

LEMMA ProducerSteps ==
  ASSUME InventoryInv, NEW r \in Req, Producing(r)
  PROVE  InventoryInv'
<1> USE DEF At, EmitTo
<1>0. InventoryTypeOK /\ ProducerTypeOK /\ MutexInv
  BY DEF InventoryInv, InventoryTypeOK
<1>1. /\ Emit(r)
      /\ UNCHANGED <<live, assets, batch, sent, reported>>
  BY DEF Producing
<1>2. ProducerTypeOK' /\ MutexInv' /\ emitting[r] # "off"
  <2>1. CASE Lock(r)
    BY <1>0, <2>1, ProducerAssumption DEF ProducerTypeOK, MutexInv, Lock
  <2>2. CASE LookUp(r)
    BY <1>0, <2>2 DEF ProducerTypeOK, MutexInv, LookUp
  <2>3. CASE Connect(r)
    BY <1>0, <2>3 DEF ProducerTypeOK, MutexInv, Connect
  <2>4. CASE ConnectFails(r)
    BY <1>0, <2>4, ProducerAssumption DEF ProducerTypeOK, MutexInv, ConnectFails, Fault
  <2>5. CASE PublishAudit(r)
    BY <1>0, <2>5 DEF ProducerTypeOK, MutexInv, PublishAudit
  <2>6. CASE PublishFails(r)
    BY <1>0, <2>6, ProducerAssumption DEF ProducerTypeOK, MutexInv, PublishFails, Fault
  <2> QED BY <1>1, <2>1, <2>2, <2>3, <2>4, <2>5, <2>6 DEF Emit
<1>3. /\ faults' = 0 => faults = 0
      /\ producer' # "closed" => producer # "closed"
      /\ \A q \in Req : q # r => emitting'[q] = emitting[q]
  BY <1>0, <1>1 DEF Emit, Lock, LookUp, Connect, ConnectFails, PublishAudit, PublishFails,
       Fault, ProducerTypeOK, MutexInv
<1>4. InventoryTypeOK'
  BY <1>0, <1>1, <1>2, <1>3 DEF InventoryTypeOK, Working
<1> QED BY <1>1, <1>2, <1>3, <1>4, TablesKept DEF InventoryInv

LEMMA ShutdownSteps == ASSUME InventoryInv, Shutdown PROVE InventoryInv'
<1> USE DEF At
<1>0. InventoryTypeOK /\ ProducerTypeOK /\ MutexInv
  BY DEF InventoryInv, InventoryTypeOK
<1>1. CASE Close
  <2>1. ProducerTypeOK' /\ MutexInv'
    BY <1>0, <1>1, ProducerAssumption DEF ProducerTypeOK, MutexInv, Close
  <2> QED BY <1>0, <1>1, <2>1, TablesKept
          DEF Shutdown, Close, InventoryInv, InventoryTypeOK, Working
<1>2. CASE Closed
  <2>1. ProducerTypeOK' /\ MutexInv'
    BY <1>0, <1>2, ProducerAssumption DEF ProducerTypeOK, MutexInv, Closed
  <2> QED BY <1>0, <1>2, <2>1, TablesKept
          DEF Shutdown, Closed, InventoryInv, InventoryTypeOK, Working
<1> QED BY <1>1, <1>2 DEF Shutdown

--------------------------------------------------------------------------------
(* The inventory: the steps of a batch *)

\* A step that only moves request r on: what is stored stays, and what r has yet to tell
\* with it.
LEMMA BatchMoves ==
  ASSUME InventoryInv, NEW r \in Req, NEW b, batch' = [batch EXCEPT ![r] = b],
         UNCHANGED <<live, assets, reported>>,
         faults' = 0 => faults = 0, producer' # "closed" => producer # "closed",
         \A t \in live : r \in Untold(t) => r \in Untold(t)',
         b.upserted = batch[r].upserted \/ \A t \in live : r \notin Untold(t),
         b.upserted \in Nat
  PROVE  NoOrphans' /\ StoredInv'
<1>0. batch \in [Req -> [step : {"idle", "read", "upsert", "emit", "done"}, target : Tid \cup {None},
                        items : Seq(Item), upserted : Nat]] /\ live \subseteq Tid
  BY DEF InventoryInv, InventoryTypeOK
<1>1. NoOrphans' /\ \A t \in Tid : Stored(t)' = Stored(t)
  BY DEF InventoryInv, NoOrphans, Stored
<1>2. ASSUME NEW t \in live
      PROVE  /\ SumFunctionOnSet(upserts, Untold(t)) \in Nat
             /\ SumFunctionOnSet(upserts', Untold(t)') \in Nat
             /\ SumFunctionOnSet(upserts, Untold(t)) <= SumFunctionOnSet(upserts', Untold(t)')
  <2> DEFINE S == Untold(t)
             T == Untold(t)'
             f == upserts
             g == upserts'
  <2>1. IsFiniteSet(T)
    BY InventoryAssumption, FS_Subset DEF Untold
  <2>2. \A q \in Req : q # r => batch'[q] = batch[q]
    BY <1>0
  <2>3. S \in SUBSET T
    BY <2>2 DEF Untold
  <2>4. \A q \in Req : g[q] \in Nat
    BY <1>0 DEF upserts
  <2>5. \A q \in S : f[q] = g[q]
    BY <1>0 DEF upserts, Untold
  <2>6. \A q \in T : g[q] \in Nat
    BY <2>4 DEF Untold
  <2> HIDE DEF S, T, f, g
  <2>7. /\ SumFunctionOnSet(f, S) \in Nat /\ SumFunctionOnSet(g, T) \in Nat
        /\ SumFunctionOnSet(f, S) <= SumFunctionOnSet(g, T)
    BY <2>1, <2>3, <2>5, <2>6, SumGrows
  <2> QED BY <2>7 DEF S, T, f, g
<1>3. \A t \in live : reported[t] \in Nat
  BY <1>0 DEF InventoryInv, InventoryTypeOK
<1>4. \A t \in Tid : IsFiniteSet(Stored(t)) /\ Cardinality(Stored(t)) \in Nat
  BY FS_CardinalityType DEF InventoryInv, StoredInv
<1>5. ASSUME faults' = 0, producer' # "closed", NEW t \in live
      PROVE  Cardinality(Stored(t)') <= reported'[t] + SumFunctionOnSet(upserts', Untold(t)')
  <2>1. Cardinality(Stored(t)) <= reported[t] + SumFunctionOnSet(upserts, Untold(t))
    BY <1>5 DEF InventoryInv, StoredInv
  <2>2. Stored(t)' = Stored(t) /\ t \in Tid
    BY <1>0, <1>1
  <2> QED BY <1>2, <1>3, <1>4, <2>1, <2>2
<1> QED BY <1>1, <1>4, <1>5 DEF StoredInv

BatchRec ==
  [step : {"idle", "read", "upsert", "emit", "done"}, target : Tid \cup {None},
   items : Seq(Item), upserted : Nat]

LEMMA BatchTyped ==
  ASSUME InventoryInv
  PROVE  /\ batch \in [Req -> BatchRec]
         /\ live \subseteq Tid /\ sent \in 0..MaxBatches /\ reported \in [Tid -> Nat]
         /\ ProducerTypeOK /\ MutexInv
         /\ \A r \in Req : Working(r, "emit") \/ At(r, "off")
BY DEF InventoryInv, InventoryTypeOK, BatchRec

LEMMA Sends ==
  ASSUME InventoryInv, NEW r \in Req, NEW t \in Tid, NEW items \in Batches, UpsertAssets(r, t, items)
  PROVE  InventoryInv'
<1>0. /\ batch \in [Req -> BatchRec] /\ sent \in 0..MaxBatches
      /\ batch[r].step = "idle" /\ sent < MaxBatches
  BY BatchTyped DEF UpsertAssets, Working
<1> DEFINE b == [step |-> "read", target |-> t, items |-> items, upserted |-> 0]
<1>1. b \in BatchRec /\ b.upserted = 0
  BY InventoryAssumption DEF BatchRec
<1>2. batch' = [batch EXCEPT ![r] = b] /\ sent' = sent + 1
      /\ UNCHANGED <<producerVars, live, assets, reported>>
  BY DEF UpsertAssets
<1>3. \A u \in live : r \notin Untold(u)
  BY <1>0 DEF Untold
<1>4. batch' \in [Req -> BatchRec] /\ sent' \in 0..MaxBatches
  BY <1>0, <1>1, <1>2, InventoryAssumption
<1>5. InventoryTypeOK' /\ MutexInv'
  <2>1. \A q \in Req : Working(q, "emit")' \/ At(q, "off")'
    BY <1>0, <1>2, BatchTyped DEF Working, At, producerVars
  <2> QED BY <1>2, <1>4, <2>1
          DEF InventoryInv, InventoryTypeOK, BatchRec, ProducerTypeOK, MutexInv, producerVars, At
<1>6. BatchInv'
  BY <1>0, <1>2 DEF InventoryInv, BatchInv
<1>7. NoOrphans' /\ StoredInv'
  <2>1. /\ UNCHANGED <<live, assets, reported>> /\ faults' = faults /\ producer' = producer
        /\ b.upserted \in Nat
    BY <1>1, <1>2 DEF producerVars
  <2> HIDE DEF b
  <2> QED BY <1>2, <1>3, <2>1, BatchMoves
<1> QED BY <1>5, <1>6, <1>7 DEF InventoryInv

\* A request that goes on to a step at which it emits nothing, or fails.
LEMMA Goes ==
  ASSUME InventoryInv, NEW r \in Req, batch[r].step \in {"read", "upsert"},
         NEW s \in {"upsert", "done"}, Continue(r, s),
         UNCHANGED <<emitting, mu, producer, opened, live, assets, sent, reported>>,
         \/ faults' = faults /\ (s = "upsert" \/ batch[r].target \notin live)
         \/ Fault
  PROVE  InventoryInv'
<1>0. batch \in [Req -> BatchRec] /\ batch[r] \in BatchRec
  BY BatchTyped
<1> DEFINE b == [batch[r] EXCEPT !.step = s]
<1>1. /\ b \in BatchRec /\ b.step = s /\ b.target = batch[r].target
      /\ b.upserted = batch[r].upserted /\ b.upserted \in Nat
  BY <1>0 DEF BatchRec
<1>2. batch' = [batch EXCEPT ![r] = b]
  BY DEF Continue
<1> HIDE DEF b
<1>3. batch' \in [Req -> BatchRec] /\ batch'[r] = b /\ \A q \in Req : q # r => batch'[q] = batch[q]
  BY <1>0, <1>1, <1>2
<1>4. At(r, "off")
  BY BatchTyped DEF Working
<1>5. faults' \in 0..MaxFaults /\ faults' >= faults
  BY BatchTyped, ProducerAssumption DEF ProducerTypeOK, Fault
<1>6. InventoryTypeOK' /\ MutexInv'
  <2>1. \A q \in Req : Working(q, "emit")' \/ At(q, "off")'
    BY <1>3, <1>4, BatchTyped DEF Working, At
  <2>2. ProducerTypeOK' /\ MutexInv'
    BY <1>5, BatchTyped DEF ProducerTypeOK, MutexInv, At
  <2> QED BY <1>3, <2>1, <2>2 DEF InventoryInv, InventoryTypeOK, BatchRec
<1>7. BatchInv'
  BY <1>1, <1>3 DEF InventoryInv, BatchInv
<1>8. NoOrphans' /\ StoredInv'
  <2>1. CASE faults' = faults /\ (s = "upsert" \/ batch[r].target \notin live)
    <3>1. \A t \in live : r \in Untold(t) => r \in Untold(t)'
      BY <1>1, <1>3, <2>1 DEF Untold
    <3> QED BY <1>1, <1>2, <2>1, <3>1, BatchMoves
  <2>2. CASE Fault
    <3>1. faults' > 0
      BY <2>2, BatchTyped DEF Fault, ProducerTypeOK
    <3>2. \A t \in Tid : Stored(t)' = Stored(t)
      BY DEF Stored
    <3> QED BY <3>1, <3>2 DEF InventoryInv, NoOrphans, StoredInv
  <2> QED BY <2>1, <2>2
<1> QED BY <1>6, <1>7, <1>8 DEF InventoryInv

LEMMA Reads == ASSUME InventoryInv, NEW r \in Req, GetByUIDInternal(r) PROVE InventoryInv'
<1>1. CASE batch[r].target \in live
  BY <1>1, Goes DEF GetByUIDInternal, Working, producerVars
<1>2. CASE batch[r].target \notin live
  BY <1>2, Goes DEF GetByUIDInternal, Working, producerVars
<1> QED BY <1>1, <1>2

LEMMA Fails == ASSUME InventoryInv, NEW r \in Req, UpsertFails(r) PROVE InventoryInv'
BY Goes DEF UpsertFails

\* An answer to the caller, whose batch has nothing to tell by then.
LEMMA Answers == ASSUME InventoryInv, NEW r \in Req, AnswerBatch(r) PROVE InventoryInv'
<1>0. /\ batch \in [Req -> BatchRec] /\ batch[r].step = "done"
      /\ batch' = [batch EXCEPT ![r] = NoBatch]
      /\ UNCHANGED <<producerVars, live, assets, sent, reported>>
  BY BatchTyped DEF AnswerBatch, Working
<1>1. NoBatch \in BatchRec /\ NoBatch.step = "idle" /\ NoBatch.upserted = 0
  BY DEF NoBatch, BatchRec
<1>2. batch' \in [Req -> BatchRec] /\ batch'[r] = NoBatch
      /\ \A q \in Req : q # r => batch'[q] = batch[q]
  BY <1>0, <1>1
<1>3. InventoryTypeOK' /\ MutexInv'
  <2>1. \A q \in Req : Working(q, "emit")' \/ At(q, "off")'
    BY <1>0, <1>2, BatchTyped DEF Working, At, producerVars
  <2> QED BY <1>0, <1>2, <2>1
          DEF InventoryInv, InventoryTypeOK, BatchRec, ProducerTypeOK, MutexInv, producerVars, At
<1>4. BatchInv'
  BY <1>0, <1>1, <1>2 DEF InventoryInv, BatchInv
<1>5. NoOrphans' /\ StoredInv'
  <2>1. /\ UNCHANGED <<live, assets, reported>> /\ faults' = faults /\ producer' = producer
        /\ \A t \in live : r \notin Untold(t)
    BY <1>0 DEF producerVars, Untold
  <2>2. NoBatch.upserted \in Nat /\ batch' = [batch EXCEPT ![r] = NoBatch]
    BY <1>0, <1>1
  <2> DEFINE b == NoBatch
  <2> HIDE DEF b
  <2>3. b.upserted \in Nat /\ batch' = [batch EXCEPT ![r] = b]
    BY <2>2 DEF b
  <2> QED BY <2>1, <2>3, BatchMoves
<1> QED BY <1>3, <1>4, <1>5 DEF InventoryInv

\* A batch stored whole: the request goes on to emit.
LEMMA BeginsToEmit == ASSUME InventoryInv, NEW r \in Req, EmitScopeExpanded(r) PROVE InventoryInv'
<1> DEFINE b == [batch[r] EXCEPT !.step = "emit"]
<1>0. /\ batch \in [Req -> BatchRec] /\ batch[r].step = "upsert"
      /\ batch' = [batch EXCEPT ![r] = b] /\ emitting' = [emitting EXCEPT ![r] = "lock"]
      /\ UNCHANGED <<mu, producer, opened, faults, live, assets, sent, reported>>
  BY BatchTyped DEF EmitScopeExpanded, Working, Continue, EmitTo
<1>1. /\ b \in BatchRec /\ b.step = "emit" /\ b.target = batch[r].target
      /\ b.upserted = batch[r].upserted /\ b.upserted \in Nat
  BY <1>0 DEF BatchRec
<1> HIDE DEF b
<1>2. batch' \in [Req -> BatchRec] /\ batch'[r] = b
      /\ \A q \in Req : q # r => batch'[q] = batch[q]
  BY <1>0, <1>1
<1>3. /\ emitting \in [Req -> {"off", "lock", "lookup", "connect", "publish", "sent", "lost"}]
      /\ emitting'[r] = "lock" /\ \A q \in Req : q # r => emitting'[q] = emitting[q]
  BY <1>0, BatchTyped DEF ProducerTypeOK
<1>4. ProducerTypeOK' /\ MutexInv'
  BY <1>0, <1>3, BatchTyped DEF ProducerTypeOK, MutexInv, At
<1>5. InventoryTypeOK'
  <2>1. \A q \in Req : Working(q, "emit")' \/ At(q, "off")'
    BY <1>1, <1>2, <1>3, BatchTyped DEF Working, At
  <2> QED BY <1>0, <1>2, <1>4, <2>1 DEF InventoryInv, InventoryTypeOK, BatchRec
<1>6. BatchInv'
  BY <1>0, <1>1, <1>2 DEF InventoryInv, BatchInv
<1>7. NoOrphans' /\ StoredInv'
  <2>1. \A t \in live : r \in Untold(t) => r \in Untold(t)'
    BY <1>1, <1>2 DEF Untold
  <2> QED BY <1>0, <1>1, <2>1, BatchMoves
<1> QED BY <1>4, <1>5, <1>6, <1>7 DEF InventoryInv

\* The event, or its loss, and the request is done: what it had to tell is told.
LEMMA Tells == ASSUME InventoryInv, NEW r \in Req, Emitted(r) PROVE InventoryInv'
<1> DEFINE b == [batch[r] EXCEPT !.step = "done"]
           u == batch[r].target
<1>0. /\ batch \in [Req -> BatchRec] /\ batch[r].step = "emit"
      /\ batch' = [batch EXCEPT ![r] = b] /\ emitting' = [emitting EXCEPT ![r] = "off"]
      /\ emitting[r] \in {"sent", "lost"}
      /\ UNCHANGED <<mu, producer, opened, faults, live, assets, sent>>
      /\ reported' = [reported EXCEPT ![u] =
                         IF emitting[r] = "sent" THEN @ + batch[r].upserted ELSE @]
      /\ reported \in [Tid -> Nat] /\ live \subseteq Tid
  BY BatchTyped DEF Emitted, Working, Continue, EmitTo, At
<1>1. /\ b \in BatchRec /\ b.step = "done" /\ b.target = u /\ b.upserted = batch[r].upserted
      /\ batch[r].upserted \in Nat
  BY <1>0 DEF BatchRec
<1>u. u \in Tid
  BY <1>0 DEF InventoryInv, BatchInv
<1> HIDE DEF b
<1>2. batch' \in [Req -> BatchRec] /\ batch'[r] = b
      /\ \A q \in Req : q # r => batch'[q] = batch[q]
  BY <1>0, <1>1
<1>3. /\ emitting \in [Req -> {"off", "lock", "lookup", "connect", "publish", "sent", "lost"}]
      /\ emitting'[r] = "off" /\ \A q \in Req : q # r => emitting'[q] = emitting[q]
  BY <1>0, BatchTyped DEF ProducerTypeOK
<1>4. ProducerTypeOK' /\ MutexInv'
  BY <1>0, <1>3, BatchTyped DEF ProducerTypeOK, MutexInv, At
<1>5. InventoryTypeOK'
  <2>1. \A q \in Req : Working(q, "emit")' \/ At(q, "off")'
    BY <1>2, <1>3, BatchTyped DEF Working, At
  <2>2. reported' \in [Tid -> Nat]
    <3> DEFINE n == IF emitting[r] = "sent" THEN reported[u] + batch[r].upserted ELSE reported[u]
    <3>1. n \in Nat
      BY <1>0, <1>1, <1>u
    <3>2. reported' = [reported EXCEPT ![u] = n]
      BY <1>0
    <3> HIDE DEF n
    <3> QED BY <1>0, <3>1, <3>2
  <2> QED BY <1>0, <1>2, <1>4, <2>1, <2>2 DEF InventoryInv, InventoryTypeOK, BatchRec
<1>6. BatchInv'
  BY <1>0, <1>1, <1>2 DEF InventoryInv, BatchInv
<1>7. NoOrphans' /\ \A t \in Tid : Stored(t)' = Stored(t)
  BY <1>0 DEF InventoryInv, NoOrphans, Stored
<1>8. ASSUME faults' = 0, producer' # "closed", NEW t \in live
      PROVE  Cardinality(Stored(t)') <= reported'[t] + SumFunctionOnSet(upserts', Untold(t)')
  <2> DEFINE f == upserts
             g == upserts'
             S == Untold(t)
             T == Untold(t)'
  <2>1. emitting[r] = "sent"
    BY <1>0, <1>8, BatchTyped DEF MutexInv, At
  <2>2. Cardinality(Stored(t)) <= reported[t] + SumFunctionOnSet(f, S)
    BY <1>0, <1>8 DEF InventoryInv, StoredInv
  <2>3. /\ IsFiniteSet(S) /\ T = S \ {r} /\ f = g
        /\ \A q \in S : f[q] \in Nat
        /\ u = t => r \in S /\ f[r] = batch[r].upserted
        /\ u # t => r \notin S
    <3>1. IsFiniteSet(S)
      BY InventoryAssumption, FS_Subset DEF Untold
    <3>2. T = S \ {r}
      BY <1>1, <1>2 DEF Untold
    <3>3. f = g
      BY <1>1, <1>2 DEF upserts
    <3>4. \A q \in S : f[q] \in Nat
      BY <1>0 DEF upserts, Untold, BatchRec
    <3> QED BY <1>0, <3>1, <3>2, <3>3, <3>4 DEF upserts, Untold
  <2>4. Stored(t)' = Stored(t) /\ Cardinality(Stored(t)) \in Nat /\ reported[t] \in Nat
    BY <1>0, <1>7, FS_CardinalityType DEF InventoryInv, StoredInv
  <2> HIDE DEF f, g, S, T
  <2>5. CASE u = t
    <3>1. SumFunctionOnSet(f, S) = f[r] + SumFunctionOnSet(f, S \ {r})
      BY <2>3, <2>5, SumTakeOut
    <3>2. IsFiniteSet(S \ {r}) /\ \A q \in S \ {r} : f[q] \in Nat
      BY <2>3, FS_Subset
    <3>3. SumFunctionOnSet(f, S \ {r}) \in Nat
      BY <3>2, SumNat
    <3>4. reported'[t] = reported[t] + f[r]
      BY <1>0, <1>u, <2>1, <2>3, <2>5
    <3>5. SumFunctionOnSet(g, T) = SumFunctionOnSet(f, S \ {r})
      BY <2>3
    <3>6. f[r] \in Nat
      BY <2>3, <2>5
    <3> QED BY <2>2, <2>4, <3>1, <3>3, <3>4, <3>5, <3>6 DEF f, g, S, T
  <2>6. CASE u # t
    <3>1. T = S /\ reported'[t] = reported[t]
      BY <1>0, <2>3, <2>6
    <3>2. SumFunctionOnSet(g, T) = SumFunctionOnSet(f, S)
      BY <2>3, <3>1
    <3> QED BY <2>2, <2>4, <3>1, <3>2 DEF f, g, S, T
  <2> QED BY <2>5, <2>6
<1>9. StoredInv'
  BY <1>0, <1>7, <1>8 DEF InventoryInv, StoredInv
<1> QED BY <1>4, <1>5, <1>6, <1>7, <1>9 DEF InventoryInv

LEMMA RowUpserted ==
  ASSUME NEW item \in Item, NEW old \in AssetRow \cup {None}, sent \in 1..MaxBatches
  PROVE  Upserted(old, item) \in AssetRow
<1>1. item.discovered_by \in Scanner \cup {None}
  BY DEF Item
<1>2. CASE old = None
  BY <1>1, <1>2 DEF Upserted, AssetRow
<1>3. CASE old # None
  <2>1. old \in AssetRow /\ Upserted(old, item) = Refreshed(old, item)
    BY <1>3 DEF Upserted
  <2> DEFINE d == IF item.discovered_by = None THEN old.discovered_by ELSE item.discovered_by
  <2>2. Refreshed(old, item) = [old EXCEPT !.discovered_by = d] /\ d \in Scanner \cup {None}
    BY <1>1, <2>1 DEF Refreshed, AssetRow
  <2> QED BY <2>1, <2>2 DEF AssetRow
<1> QED BY <1>2, <1>3

\* One INSERT: at most one row more, and one more for the event to tell.
LEMMA Upserts == ASSUME InventoryInv, NEW r \in Req, Upsert(r) PROVE InventoryInv'
<1> DEFINE t == batch[r].target
           item == Head(batch[r].items)
           row == Upserted(assets[t][item.asset], item)
           b == [batch[r] EXCEPT !.items = Tail(@), !.upserted = @ + 1]
<1>0. /\ batch \in [Req -> BatchRec] /\ batch[r] \in BatchRec
      /\ batch[r].step = "upsert" /\ batch[r].items # <<>>
      /\ UNCHANGED <<producerVars, live, sent, reported>>
      /\ live \subseteq Tid /\ reported \in [Tid -> Nat]
      /\ assets \in [Tid -> [Asset -> AssetRow \cup {None}]]
      /\ t \in Tid /\ sent \in 1..MaxBatches
  <2>1. sent > 0 /\ t \in Tid
    BY DEF InventoryInv, BatchInv, Upsert, Working
  <2> QED BY <2>1, BatchTyped, InventoryAssumption DEF Upsert, Working, InventoryInv, InventoryTypeOK
<1>1. CASE t \notin live
  BY <1>0, <1>1, Goes DEF Upsert, producerVars
<1>2. CASE t \in live
  <2>1. /\ assets' = [assets EXCEPT ![t][item.asset] = Upserted(@, item)]
        /\ batch' = [batch EXCEPT ![r].items = Tail(@), ![r].upserted = @ + 1]
    BY <1>2 DEF Upsert
  <2>2. item \in Item /\ item.asset \in Asset /\ Tail(batch[r].items) \in Seq(Item)
    <3>1. batch[r].items \in Seq(Item)
      BY <1>0 DEF BatchRec
    <3>2. Head(batch[r].items) \in Item /\ Tail(batch[r].items) \in Seq(Item)
      BY <1>0, <3>1
    <3> QED BY <3>2 DEF Item
  <2>3. /\ b \in BatchRec /\ b.step = "upsert" /\ b.target = t
        /\ b.upserted = batch[r].upserted + 1 /\ batch[r].upserted \in Nat
    <3> DEFINE c == [batch[r] EXCEPT !.items = Tail(@)]
    <3>1. /\ c \in BatchRec /\ c.step = "upsert" /\ c.target = t
          /\ c.upserted = batch[r].upserted /\ c.upserted \in Nat
      BY <1>0, <2>2 DEF BatchRec
    <3>2. b = [c EXCEPT !.upserted = @ + 1]
      BY <1>0 DEF BatchRec
    <3> HIDE DEF b, c
    <3> QED BY <3>1, <3>2 DEF BatchRec
  <2>4. batch' = [batch EXCEPT ![r] = b]
    <3> DEFINE c == [batch[r] EXCEPT !.items = Tail(@)]
    <3>1. b = [c EXCEPT !.upserted = @ + 1] /\ batch[r].upserted = c.upserted
      BY <1>0 DEF BatchRec
    <3>2. batch' = [[batch EXCEPT ![r] = c] EXCEPT ![r].upserted = @ + 1]
      BY <1>0, <2>1
    <3> HIDE DEF b, c
    <3> QED BY <1>0, <3>1, <3>2
  <2>5. row \in AssetRow
    BY <1>0, <2>2, RowUpserted
  <2>6. /\ assets' \in [Tid -> [Asset -> AssetRow \cup {None}]]
        /\ assets'[t][item.asset] = row
        /\ \A u \in Tid, a \in Asset :
             <<u, a>> # <<t, item.asset>> => assets'[u][a] = assets[u][a]
    BY <1>0, <2>1, <2>2, <2>5
  <2> HIDE DEF b, row, item
  <2>7. batch' \in [Req -> BatchRec] /\ batch'[r] = b
        /\ \A q \in Req : q # r => batch'[q] = batch[q]
    BY <1>0, <2>3, <2>4
  <2>8. InventoryTypeOK' /\ MutexInv'
    <3>1. \A q \in Req : Working(q, "emit")' \/ At(q, "off")'
      BY <1>0, <2>7, BatchTyped DEF Working, At, producerVars
    <3> QED BY <1>0, <2>6, <2>7, <3>1
            DEF InventoryInv, InventoryTypeOK, BatchRec, ProducerTypeOK, MutexInv, producerVars, At
  <2>9. BatchInv' /\ NoOrphans'
    <3>1. BatchInv'
      BY <1>0, <2>3, <2>7 DEF InventoryInv, BatchInv
    <3>2. NoOrphans'
      BY <1>0, <1>2, <2>6 DEF InventoryInv, NoOrphans
    <3> QED BY <3>1, <3>2
  <2>10. ASSUME NEW u \in Tid
         PROVE  /\ IsFiniteSet(Stored(u)') /\ IsFiniteSet(Stored(u))
                /\ Cardinality(Stored(u)') \in Nat /\ Cardinality(Stored(u)) \in Nat
                /\ u # t => Stored(u)' = Stored(u)
                /\ u = t => Cardinality(Stored(u)') <= Cardinality(Stored(u)) + 1
    <3>1. IsFiniteSet(Stored(u)) /\ Cardinality(Stored(u)) \in Nat
      BY FS_CardinalityType DEF InventoryInv, StoredInv
    <3>2. CASE u # t
      <4>1. Stored(u)' = Stored(u)
        BY <2>6, <3>2 DEF Stored
      <4> QED BY <3>1, <3>2, <4>1
    <3>3. CASE u = t
      <4> DEFINE more == Stored(u) \cup {item.asset}
      <4>1. Stored(u)' \subseteq more
        BY <2>6, <3>3 DEF Stored
      <4>2. IsFiniteSet(more) /\ Cardinality(more) <= Cardinality(Stored(u)) + 1
            /\ Cardinality(more) \in Nat
        BY <3>1, FS_AddElement, FS_CardinalityType
      <4> HIDE DEF more
      <4>3. IsFiniteSet(Stored(u)') /\ Cardinality(Stored(u)') <= Cardinality(more)
            /\ Cardinality(Stored(u)') \in Nat
        BY <4>1, <4>2, FS_Subset, FS_CardinalityType
      <4> QED BY <3>1, <3>3, <4>2, <4>3
    <3> QED BY <3>2, <3>3
  <2>11. ASSUME NEW u \in live, faults' = 0, producer' # "closed"
         PROVE  Cardinality(Stored(u)') <= reported'[u] + SumFunctionOnSet(upserts', Untold(u)')
    <3> DEFINE f == upserts
               g == upserts'
               S == Untold(u)
               T == Untold(u)'
    <3>1. Cardinality(Stored(u)) <= reported[u] + SumFunctionOnSet(f, S)
      BY <1>0, <2>11 DEF InventoryInv, StoredInv, producerVars
    <3>2. /\ IsFiniteSet(S) /\ T = S
          /\ \A q \in S : f[q] \in Nat /\ g[q] = IF q = r THEN f[q] + 1 ELSE f[q]
          /\ r \in S <=> u = t
      <4>1. IsFiniteSet(S)
        BY InventoryAssumption, FS_Subset DEF Untold
      <4>2. T = S
        BY <1>0, <2>3, <2>7 DEF Untold
      <4>3. \A q \in S : f[q] \in Nat /\ g[q] = IF q = r THEN f[q] + 1 ELSE f[q]
        BY <1>0, <2>3, <2>7 DEF upserts, Untold, BatchRec
      <4>4. r \in S <=> u = t
        BY <1>0 DEF Untold
      <4> QED BY <4>1, <4>2, <4>3, <4>4
    <3>3. reported'[u] = reported[u] /\ reported[u] \in Nat /\ u \in Tid
      BY <1>0
    <3> HIDE DEF f, g, S, T
    <3>4. SumFunctionOnSet(f, S) \in Nat
      BY <3>2, SumNat
    <3>5. CASE u = t
      <4>1. SumFunctionOnSet(g, S) = SumFunctionOnSet(f, S) + 1
        BY <3>2, <3>5, SumAdd
      <4>2. SumFunctionOnSet(g, T) = SumFunctionOnSet(f, S) + 1
        BY <3>2, <4>1
      <4> QED BY <2>10, <3>1, <3>3, <3>4, <3>5, <4>2 DEF g, T
    <3>6. CASE u # t
      <4>1. \A q \in S : f[q] \in Nat /\ g[q] = f[q]
        BY <3>2, <3>6
      <4>2. SumFunctionOnSet(f, S) = SumFunctionOnSet(g, S)
        BY <3>2, <4>1, SumSame
      <4>3. SumFunctionOnSet(g, T) = SumFunctionOnSet(f, S)
        BY <3>2, <4>2
      <4> QED BY <2>10, <3>1, <3>3, <3>4, <3>6, <4>3 DEF g, T
    <3> QED BY <3>5, <3>6
  <2>12. StoredInv'
    BY <1>0, <2>10, <2>11 DEF StoredInv
  <2> QED BY <2>8, <2>9, <2>12 DEF InventoryInv
<1> QED BY <1>1, <1>2

LEMMA DeletesTarget == ASSUME InventoryInv, NEW t \in Tid, DeleteTarget(t) PROVE InventoryInv'
<1>0. /\ t \in live /\ live' = live \ {t}
      /\ assets' = [assets EXCEPT ![t] = [a \in Asset |-> None]]
      /\ UNCHANGED <<producerVars, batch, sent, reported>>
      /\ live \subseteq Tid
      /\ assets \in [Tid -> [Asset -> AssetRow \cup {None}]]
  BY DEF DeleteTarget, InventoryInv, InventoryTypeOK
<1>1. /\ assets' \in [Tid -> [Asset -> AssetRow \cup {None}]]
      /\ \A a \in Asset : assets'[t][a] = None
      /\ \A u \in Tid : u # t => assets'[u] = assets[u]
  BY <1>0
<1>2. InventoryTypeOK' /\ MutexInv' /\ BatchInv'
  <2>1. \A q \in Req : Working(q, "emit")' \/ At(q, "off")'
    BY <1>0, BatchTyped DEF Working, At, producerVars
  <2> QED BY <1>0, <1>1, <2>1
          DEF InventoryInv, InventoryTypeOK, ProducerTypeOK, MutexInv, BatchInv, producerVars, At
<1>3. NoOrphans'
  BY <1>0, <1>1 DEF InventoryInv, NoOrphans
<1>4. StoredInv'
  <2>1. upserts' = upserts /\ \A u \in Tid : Untold(u)' = Untold(u)
    BY <1>0 DEF upserts, Untold
  <2>2. \A u \in Tid : u # t => Stored(u)' = Stored(u)
    BY <1>1 DEF Stored
  <2>3. Stored(t)' = {}
    BY <1>1 DEF Stored
  <2>4. \A u \in Tid : IsFiniteSet(Stored(u)')
    BY <2>2, <2>3, FS_EmptySet DEF InventoryInv, StoredInv
  <2>5. ASSUME NEW u \in live', faults' = 0, producer' # "closed"
        PROVE  Cardinality(Stored(u)') <= reported'[u] + SumFunctionOnSet(upserts', Untold(u)')
    <3>1. u \in live /\ u \in Tid /\ u # t
      BY <1>0
    <3> QED BY <1>0, <2>1, <2>2, <2>5, <3>1 DEF InventoryInv, StoredInv, producerVars
  <2> QED BY <2>4, <2>5 DEF StoredInv
<1> QED BY <1>2, <1>3, <1>4 DEF InventoryInv

LEMMA InventoryStep == InventoryInv /\ [InventoryNext]_inventoryVars => InventoryInv'
<1> SUFFICES ASSUME InventoryInv, [InventoryNext]_inventoryVars PROVE InventoryInv'
  OBVIOUS
<1>1. ASSUME NEW r \in Req, Serve(r) PROVE InventoryInv'
  BY <1>1, Reads, Upserts, BeginsToEmit, ProducerSteps, Tells, Answers DEF Serve
<1>2. ASSUME NEW r \in Req, UpsertFails(r) PROVE InventoryInv'
  BY <1>2, Fails
<1>3. ASSUME NEW r \in Req, NEW t \in Tid, NEW items \in Batches, UpsertAssets(r, t, items)
      PROVE  InventoryInv'
  BY <1>3, Sends
<1>4. ASSUME NEW t \in Tid, DeleteTarget(t) PROVE InventoryInv'
  BY <1>4, DeletesTarget
<1>5. CASE Shutdown
  BY <1>5, ShutdownSteps
<1>6. CASE UNCHANGED inventoryVars
  <2>1. /\ UNCHANGED <<live, assets, batch, sent, reported>>
        /\ UNCHANGED <<emitting, mu, producer, opened, faults>>
    BY <1>6 DEF inventoryVars, producerVars
  <2>2. InventoryTypeOK' /\ MutexInv'
    BY <2>1 DEF InventoryInv, InventoryTypeOK, ProducerTypeOK, MutexInv, Working, At
  <2> QED BY <2>1, <2>2, TablesKept DEF InventoryInv
<1> QED BY <1>1, <1>2, <1>3, <1>4, <1>5, <1>6 DEF InventoryNext

--------------------------------------------------------------------------------
(* The inventory: the theorems *)

\* The inductive invariant of the inventory and its producer, whatever batches overlap and
\* whatever fails.
THEOREM InventoryInvariant == InventorySpec => []InventoryInv
BY InventoryInitial, InventoryStep, PTL DEF InventorySpec

\* InventoryTypeOK, with which goes that a request emits only while it waits for it.
THEOREM InventoryTypeCorrect == InventorySpec => []InventoryTypeOK
<1>1. InventoryInv => InventoryTypeOK
  BY DEF InventoryInv
<1> QED BY <1>1, InventoryInvariant, PTL

\* NoOrphans: an asset's target exists, for any number of batches that are being stored
\* while targets are deleted.
THEOREM NeverOrphaned == InventorySpec => []NoOrphans
<1>1. InventoryInv => NoOrphans
  BY DEF InventoryInv
<1> QED BY <1>1, InventoryInvariant, PTL

\* OneConnection: the mutex of producerFor makes one producer, for any number of requests.
THEOREM NeverTwoConnections == InventorySpec => []OneConnection
<1>1. InventoryInv => OneConnection
  BY DEF InventoryInv, MutexInv, OneConnection
<1> QED BY <1>1, InventoryInvariant, PTL

\* StoredIsReported: unless something fails, the events sent and the batches under way
\* account for every asset a target has.
THEOREM AllStoredIsReported == InventorySpec => []StoredIsReported
<1>1. ASSUME InventoryInv PROVE StoredIsReported
  <2>1. SUFFICES ASSUME faults = 0, producer # "closed", NEW t \in live
                 PROVE  Cardinality(Stored(t)) <=
                          reported[t] + SumFunctionOnSet(upserts, {r \in Req : batch[r].target = t})
    BY DEF StoredIsReported, Stored, upserts
  <2> DEFINE f == upserts
             S == {r \in Req : batch[r].target = t}
             T == Untold(t)
  <2>2. t \in Tid /\ reported[t] \in Nat /\ batch \in [Req -> BatchRec]
    BY <1>1, BatchTyped
  <2>3. Cardinality(Stored(t)) <= reported[t] + SumFunctionOnSet(f, T)
    BY <1>1, <2>1 DEF InventoryInv, StoredInv
  <2>4. IsFiniteSet(S) /\ T \in SUBSET S
    BY InventoryAssumption, FS_Subset DEF Untold
  <2>5. \A q \in S : f[q] \in Nat
    BY <2>2 DEF upserts, BatchRec
  <2>6. Cardinality(Stored(t)) \in Nat
    BY <1>1, <2>2, FS_CardinalityType DEF InventoryInv, StoredInv
  <2> HIDE DEF f, S, T
  <2>7. /\ SumFunctionOnSet(f, T) \in Nat /\ SumFunctionOnSet(f, S) \in Nat
        /\ SumFunctionOnSet(f, T) <= SumFunctionOnSet(f, S)
    BY <2>4, <2>5, SumGrows
  <2>8. Cardinality(Stored(t)) <= reported[t] + SumFunctionOnSet(f, S)
    BY <2>2, <2>3, <2>6, <2>7
  <2> QED BY <2>8 DEF f, S
<1> QED BY <1>1, InventoryInvariant, PTL

\* ProvenanceKept: whichever batch comes last, a row that stays keeps the date it was
\* first seen, and a scanner once known.
THEOREM ProvenanceIsKept == InventorySpec => ProvenanceKept
<1> DEFINE Kept ==
      \A t \in Tid, a \in Asset :
        assets[t][a] # None /\ assets'[t][a] # None =>
          /\ assets'[t][a].first_seen = assets[t][a].first_seen
          /\ assets[t][a].discovered_by # None => assets'[t][a].discovered_by # None
<1>1. ASSUME InventoryInv, [InventoryNext]_inventoryVars PROVE [Kept]_inventoryVars
  <2>1. ASSUME NEW r \in Req, Upsert(r) PROVE Kept
    <3> DEFINE t == batch[r].target
               item == Head(batch[r].items)
    <3>1. assets \in [Tid -> [Asset -> AssetRow \cup {None}]]
      BY <1>1 DEF InventoryInv, InventoryTypeOK
    <3>2. CASE assets' = assets
      BY <3>2
    <3>3. CASE assets' = [assets EXCEPT ![t][item.asset] = Upserted(@, item)]
      <4>1. ASSUME NEW u \in Tid, NEW a \in Asset, assets[u][a] # None, <<u, a>> = <<t, item.asset>>
            PROVE  /\ assets'[u][a].first_seen = assets[u][a].first_seen
                   /\ assets[u][a].discovered_by # None => assets'[u][a].discovered_by # None
        <5>1. /\ assets'[u][a] = Refreshed(assets[u][a], item)
              /\ assets[u][a] \in AssetRow
          BY <3>1, <3>3, <4>1 DEF Upserted
        <5> QED BY <5>1 DEF Refreshed, AssetRow
      <4>2. ASSUME NEW u \in Tid, NEW a \in Asset, <<u, a>> # <<t, item.asset>>
            PROVE  assets'[u][a] = assets[u][a]
        BY <3>1, <3>3, <4>2
      <4> QED BY <4>1, <4>2
    <3> QED BY <2>1, <3>2, <3>3 DEF Upsert
  <2>2. ASSUME NEW t \in Tid, DeleteTarget(t) PROVE Kept
    <3>1. assets' = [assets EXCEPT ![t] = [a \in Asset |-> None]]
          /\ assets \in [Tid -> [Asset -> AssetRow \cup {None}]]
      BY <1>1, <2>2 DEF DeleteTarget, InventoryInv, InventoryTypeOK
    <3> QED BY <3>1
  <2>3. ASSUME assets' = assets PROVE Kept
    BY <2>3
  <2> HIDE DEF Kept
  <2>4. ASSUME NEW r \in Req, Serve(r) PROVE Kept
    BY <2>1, <2>3, <2>4
       DEF Serve, GetByUIDInternal, EmitScopeExpanded, Producing, Emitted, AnswerBatch
  <2>5. ASSUME NEW r \in Req, UpsertFails(r) PROVE Kept
    BY <2>3, <2>5 DEF UpsertFails
  <2>6. ASSUME NEW r \in Req, NEW t \in Tid, NEW items \in Batches, UpsertAssets(r, t, items)
        PROVE  Kept
    BY <2>3, <2>6 DEF UpsertAssets
  <2>7. CASE Shutdown
    BY <2>3, <2>7 DEF Shutdown
  <2> QED BY <1>1, <2>2, <2>4, <2>5, <2>6, <2>7 DEF InventoryNext
<1> QED BY <1>1, InventoryInvariant, PTL DEF InventorySpec, ProvenanceKept

--------------------------------------------------------------------------------
(* The registry: its inductive invariant *)

Query ==
  [at : {"idle", "list", "count", "stats", "done"}, by : User \cup {"admin"},
   user_id : User \cup {NULL}, status : validStatuses \cup {NULL},
   source : validSources \cup {NULL}, sort : {"created_at", "status"}, ascending : BOOLEAN,
   size : 1..MaxSize, page : Nat \ {0}, full : BOOLEAN, total : 0..MaxId,
   by_source : {<<>>} \cup [validSources -> Nat]]

Table == [Id -> Target \cup {NULL}]

\* The rows before i in the list that q asks for, and its place.
AheadIn(q, t, i) == {j \in Listed(q, t) : OrderBy(q, t, j, i)}
PlaceIn(q, t, i) == Cardinality(AheadIn(q, t, i))

Lists    == Listed(query, targets)
Place(i) == PlaceIn(query, targets, i)

\* The rows that a list shows in one table and in the next, with the same key.
Stay(q, t, u) == {i \in Listed(q, t) \cap Listed(q, u) : SortKey(q, u, i) = SortKey(q, t, i)}

\* The places that the pages so far have shown, and whether they were all there are.
Reached == IF query.at = "count" THEN query.page * query.size ELSE Offset(query)
AtEnd   == query.at = "count" /\ ~query.full

\* Rows that were passed over, rows that are or will be shown more than n times, and rows
\* seen that are no longer listed.
Missed    == {i \in due : seen[i] = 0 /\ (Place(i) < Reached \/ AtEnd)}
Repeat(n) == {i \in due : seen[i] > n \/ (seen[i] >= n /\ Place(i) >= Reached)}
Gone      == {i \in Id : seen[i] > 0} \ Lists

WalkInv ==
  query.at \in {"list", "count"} =>
    /\ due \subseteq Lists
    /\ Cardinality(Missed) <= left
    /\ \A n \in Nat \ {0} : Cardinality(Repeat(n)) <= came
    /\ Cardinality(Lists \ due) <= came
    /\ Cardinality(Gone) <= left

\* The statistics so far: every row counted once, by its status.
StatsInv ==
  query.at = "stats" =>
    /\ query.user_id = NULL /\ query.status = NULL /\ query.source = NULL
    /\ query.total + came = Cardinality(Rows) + left

FreshInv ==
  /\ query.at # "done" => query.by_source = <<>>
  /\ query.at = "idle" =>
       query = Idle /\ came = 0 /\ left = 0 /\ due = {} /\ \A i \in Id : seen[i] = 0

\* Values are stored as they are normalised.
TidyInv == \A i \in Rows : targets[i].value.form = "tidy"

RegistryInv ==
  /\ TypeOK /\ query \in Query /\ FreshInv /\ TidyInv
  /\ OneRowPerValue /\ UIDBelongsToOwner
  /\ WalkInv /\ StatsInv /\ WalkIsAccountedFor /\ NumbersAddUp

LEMMA IdsFinite == IsFiniteSet(Id) /\ Cardinality(Id) = MaxId
BY BoundsAssumption, FS_Interval DEF Id

LEMMA SubsetOfIds ==
  ASSUME NEW S \in SUBSET Id
  PROVE  IsFiniteSet(S) /\ Cardinality(S) \in Nat /\ Cardinality(S) <= MaxId
BY IdsFinite, FS_Subset, FS_CardinalityType

LEMMA SubsetCard ==
  ASSUME NEW S, IsFiniteSet(S), NEW T \in SUBSET S
  PROVE  IsFiniteSet(T) /\ Cardinality(T) \in Nat /\ Cardinality(S) \in Nat /\ Cardinality(T) <= Cardinality(S)
BY FS_Subset, FS_CardinalityType

LEMMA UnionCard ==
  ASSUME NEW S, NEW T, IsFiniteSet(S), IsFiniteSet(T)
  PROVE  /\ IsFiniteSet(S \cup T) /\ Cardinality(S) \in Nat /\ Cardinality(T) \in Nat
         /\ Cardinality(S \cup T) \in Nat /\ Cardinality(S \cup T) <= Cardinality(S) + Cardinality(T)
         /\ S \cap T = {} => Cardinality(S \cup T) = Cardinality(S) + Cardinality(T)
<1>1. /\ IsFiniteSet(S \cup T)
      /\ Cardinality(S \cup T) = Cardinality(S) + Cardinality(T) - Cardinality(S \cap T)
  BY FS_Union
<1>2. IsFiniteSet(S \cap T)
  BY FS_Intersection
<1>3. /\ Cardinality(S) \in Nat /\ Cardinality(T) \in Nat /\ Cardinality(S \cap T) \in Nat
      /\ Cardinality(S \cup T) \in Nat
  BY <1>1, <1>2, FS_CardinalityType
<1>4. S \cap T = {} => Cardinality(S \cap T) = 0
  BY FS_EmptySet
<1> QED BY <1>1, <1>3, <1>4

\* One element at most.
LEMMA AtMostOne ==
  ASSUME NEW S, \A x, y \in S : x = y
  PROVE  IsFiniteSet(S) /\ Cardinality(S) \in Nat /\ Cardinality(S) <= 1 /\ (S = {} => Cardinality(S) = 0)
<1>1. CASE S = {}
  BY <1>1, FS_EmptySet
<1>2. CASE S # {}
  <2>1. PICK x : S = {x}
    BY <1>2
  <2>2. IsFiniteSet({x}) /\ Cardinality({x}) = 1
    BY FS_Singleton
  <2>3. IsFiniteSet(S) /\ Cardinality(S) = 1
    BY <2>1, <2>2
  <2> QED BY <1>2, <2>3
<1> QED BY <1>1, <1>2

\* The numbers from a on, n of them.
LEMMA RunOf ==
  ASSUME NEW a \in Nat, NEW n \in Nat
  PROVE  IsFiniteSet(a..(a + n - 1)) /\ Cardinality(a..(a + n - 1)) = n
<1> DEFINE b == a + n - 1
<1>1. b \in Int /\ (a > b => n = 0) /\ (a <= b => b - a + 1 = n)
  OBVIOUS
<1> HIDE DEF b
<1>2. IsFiniteSet(a..b) /\ Cardinality(a..b) = IF a > b THEN 0 ELSE b - a + 1
  BY <1>1, FS_Interval
<1>3. b = a + n - 1
  BY DEF b
<1>4. Cardinality(a..b) = n
  BY <1>1, <1>2
<1> QED BY <1>2, <1>3, <1>4

--------------------------------------------------------------------------------
(* The registry: a list is in a linear order, and its pages are parts of it *)

\* A table that is well typed, and a query of it.
LEMMA Linear ==
  ASSUME NEW q \in Query, NEW t \in [Id -> Target \cup {NULL}]
  PROVE  /\ \A i, j \in Listed(q, t) : OrderBy(q, t, i, j) \/ OrderBy(q, t, j, i) \/ i = j
         /\ \A i \in Listed(q, t) : ~ OrderBy(q, t, i, i)
         /\ \A i, j, k \in Listed(q, t) :
              OrderBy(q, t, i, j) /\ OrderBy(q, t, j, k) => OrderBy(q, t, i, k)
<1>1. \A i \in Listed(q, t) : SortKey(q, t, i) \in Int /\ i \in Int
  <2>1. ASSUME NEW i \in Listed(q, t) PROVE SortKey(q, t, i) \in Int /\ i \in Int
    <3>1. i \in Id /\ i \in Int /\ t[i] \in Target
      BY BoundsAssumption DEF Listed, Id
    <3>2. t[i].status \in validStatuses
      BY <3>1 DEF Target
    <3>3. Rank(t[i].status) \in Int
      BY <3>2 DEF Rank, validStatuses
    <3> QED BY <3>1, <3>3 DEF SortKey
  <2> QED BY <2>1
<1> DEFINE key(i) == SortKey(q, t, i)
<1> HIDE DEF key
<1>2. \A i \in Listed(q, t) : key(i) \in Int /\ i \in Int
  BY <1>1 DEF key
<1>3. \A i, j : OrderBy(q, t, i, j) <=>
        IF q.ascending THEN key(i) < key(j) \/ (key(i) = key(j) /\ i < j)
        ELSE key(j) < key(i) \/ (key(j) = key(i) /\ j < i)
  BY DEF OrderBy, key
<1> QED BY <1>2, <1>3

\* Different rows have different places, and the places are numbers below the length.
LEMMA PlacesDiffer ==
  ASSUME NEW q \in Query, NEW t \in Table
  PROVE  /\ \A i \in Listed(q, t) : PlaceIn(q, t, i) < Cardinality(Listed(q, t))
         /\ \A i : PlaceIn(q, t, i) \in Nat /\ IsFiniteSet(AheadIn(q, t, i))
         /\ \A i, j \in Listed(q, t) : PlaceIn(q, t, i) = PlaceIn(q, t, j) => i = j
<1> DEFINE L == Listed(q, t)
           A(i) == AheadIn(q, t, i)
           P(i) == PlaceIn(q, t, i)
           O(i, j) == OrderBy(q, t, i, j)
<1>0. /\ L \in SUBSET Id /\ IsFiniteSet(L) /\ Cardinality(L) \in Nat
      /\ \A i : A(i) \in SUBSET L /\ IsFiniteSet(A(i)) /\ P(i) \in Nat
  <2>1. L \in SUBSET Id
    BY DEF Listed
  <2>2. \A i : A(i) \in SUBSET L
    BY DEF AheadIn
  <2> HIDE DEF L
  <2> QED BY <2>1, <2>2, SubsetOfIds DEF PlaceIn
<1>1. /\ \A i, j \in L : O(i, j) \/ O(j, i) \/ i = j
      /\ \A i \in L : ~ O(i, i)
      /\ \A i, j, k \in L : O(i, j) /\ O(j, k) => O(i, k)
  BY Linear DEF Table
<1>2. \A i : A(i) = {j \in L : O(j, i)} /\ P(i) = Cardinality(A(i))
  BY DEF AheadIn, PlaceIn
<1> HIDE DEF L, A, P, O
<1>3. ASSUME NEW i \in L PROVE P(i) < Cardinality(L)
  <2>1. i \notin A(i)
    BY <1>1, <1>2
  <2>2. Cardinality(A(i)) # Cardinality(L) /\ Cardinality(A(i)) <= Cardinality(L)
    BY <1>0, <1>3, <2>1, FS_Subset
  <2> QED BY <1>0, <1>2, <2>2
<1>4. ASSUME NEW i \in L, NEW j \in L, O(i, j) PROVE P(i) < P(j)
  <2>1. A(i) \in SUBSET A(j) /\ i \in A(j) /\ i \notin A(i)
    BY <1>1, <1>2, <1>4
  <2>2. Cardinality(A(i)) # Cardinality(A(j)) /\ Cardinality(A(i)) <= Cardinality(A(j))
    BY <1>0, <2>1, FS_Subset
  <2> QED BY <1>0, <1>2, <2>2
<1>5. ASSUME NEW i \in L, NEW j \in L, P(i) = P(j) PROVE i = j
  <2>1. ~ (P(i) < P(j)) /\ ~ (P(j) < P(i))
    BY <1>0, <1>5
  <2> QED BY <1>1, <1>4, <2>1
<1> QED BY <1>0, <1>3, <1>5 DEF L, A, P

\* A page is the rows whose places it covers.
LEMMA PageOf ==
  List(query) = {j \in Lists : Place(j) \in Offset(query)..(Offset(query) + query.size - 1)}
BY DEF List, Place, PlaceIn, AheadIn, Lists

\* A page that is not full shows the end of the list.
LEMMA ShortPageIsLast ==
  ASSUME query \in Query, targets \in Table,
         NEW i \in Lists, Place(i) >= Offset(query) + query.size
  PROVE  Cardinality(List(query)) = query.size
<1> DEFINE n == Cardinality(Lists)
           o == Offset(query)
           s == query.size
           P == List(query)
           f == [j \in Lists |-> Place(j)]
           g == [j \in P |-> Place(j)]
<1>0. n \in Nat /\ IsFiniteSet(Lists) /\ s \in Nat /\ o \in Nat
  <2>1. Lists \in SUBSET Id
    BY DEF Lists, Listed
  <2>2. s \in Nat /\ query.page - 1 \in Nat
    BY SizeAssumption DEF Query
  <2>3. o \in Nat
    BY <2>2 DEF Offset
  <2> QED BY <2>1, <2>2, <2>3, SubsetOfIds
<1>1. P = {j \in Lists : Place(j) \in o..(o + s - 1)}
  BY PageOf
<1>places. /\ \A j \in Lists : Place(j) \in Nat /\ Place(j) < n
      /\ \A j, k \in Lists : Place(j) = Place(k) => j = k
  BY PlacesDiffer DEF Lists, Place
<1>2. f \in Bijection(Lists, 0..(n - 1))
  <2>1. f \in Injection(Lists, 0..(n - 1))
    BY <1>0, <1>places DEF Injection, IsInjective
  <2>2. IsFiniteSet(0..(n - 1)) /\ Cardinality(0..(n - 1)) = n
    <3>1. 0 + n - 1 = n - 1
      BY <1>0
    <3> HIDE DEF n
    <3> QED BY <1>0, <3>1, RunOf
  <2> HIDE DEF f
  <2>3. f \in Surjection(Lists, 0..(n - 1))
    BY <2>1, <2>2, FS_Injection
  <2> QED BY <2>1, <2>3 DEF Bijection
<1>3. ASSUME NEW k \in o..(o + s - 1) PROVE \E j \in P : Place(j) = k
  <2>1. Place(i) < n /\ Place(i) \in Nat
    BY <1>places
  <2>2. k \in 0..(n - 1)
    BY <1>0, <2>1
  <2>3. PICK j \in Lists : Place(j) = k
    BY <1>2, <2>2 DEF Bijection, Surjection
  <2> QED BY <1>1, <2>3
<1>4. g \in Bijection(P, o..(o + s - 1))
  <2>1. g \in [P -> o..(o + s - 1)]
    BY <1>1
  <2>2. \A j, k \in P : g[j] = g[k] => j = k
    BY <1>1, <1>places
  <2>3. \A k \in o..(o + s - 1) : \E j \in P : g[j] = k
    BY <1>3
  <2> HIDE DEF g, P
  <2> QED BY <2>1, <2>2, <2>3 DEF Bijection, Injection, IsInjective, Surjection
<1>5. IsFiniteSet(P)
  BY <1>0, <1>1, FS_Subset
<1>6. Cardinality(o..(o + s - 1)) = s /\ IsFiniteSet(o..(o + s - 1))
  <2> HIDE DEF o, s
  <2> QED BY <1>0, RunOf
<1>7. Cardinality(P) = Cardinality(o..(o + s - 1))
  <2> HIDE DEF g, P, o, s
  <2>1. ExistsBijection(P, o..(o + s - 1))
    BY <1>4 DEF ExistsBijection
  <2> QED BY <1>5, <2>1, FS_Bijection
<1> QED BY <1>6, <1>7

\* What may be asked by two queries alike, whatever page they are at.
SameQuestion(q, r) ==
  /\ r.user_id = q.user_id /\ r.status = q.status /\ r.source = q.source
  /\ r.sort = q.sort /\ r.ascending = q.ascending

LEMMA SamePlaces ==
  ASSUME NEW q, NEW r, SameQuestion(q, r), NEW t
  PROVE  Listed(r, t) = Listed(q, t) /\ \A i : PlaceIn(r, t, i) = PlaceIn(q, t, i)
<1>1. Listed(r, t) = Listed(q, t)
  BY DEF SameQuestion, Listed, buildWhere
<1>2. \A i, j : OrderBy(r, t, i, j) <=> OrderBy(q, t, i, j)
  BY DEF SameQuestion, OrderBy, SortKey
<1>3. ASSUME NEW i PROVE AheadIn(r, t, i) = AheadIn(q, t, i)
  BY <1>1, <1>2 DEF AheadIn
<1> QED BY <1>1, <1>3 DEF PlaceIn

--------------------------------------------------------------------------------
(* The registry: how the places move when a row is written *)

\* A row that stays where it was has lost from before it only rows that left the list.
LEMMA PlacesSink ==
  ASSUME NEW q \in Query, NEW t \in Table, NEW u \in Table, NEW S, S = Stay(q, t, u),
         NEW i \in S
  PROVE  PlaceIn(q, t, i) <= PlaceIn(q, u, i) + Cardinality(Listed(q, t) \ S)
<1>1. AheadIn(q, t, i) \in SUBSET (AheadIn(q, u, i) \cup (Listed(q, t) \ S))
  <2>1. ASSUME NEW j \in AheadIn(q, t, i), j \in S PROVE j \in AheadIn(q, u, i)
    <3>1. /\ SortKey(q, t, i) = SortKey(q, u, i) /\ SortKey(q, t, j) = SortKey(q, u, j)
          /\ j \in Listed(q, u)
      BY <2>1 DEF Stay
    <3>2. OrderBy(q, t, j, i) <=> OrderBy(q, u, j, i)
      BY <3>1 DEF OrderBy
    <3> QED BY <3>1, <3>2 DEF AheadIn
  <2> QED BY <2>1 DEF AheadIn
<1>2. Listed(q, t) \ S \in SUBSET Id
  BY DEF Listed
<1>3. IsFiniteSet(AheadIn(q, u, i)) /\ IsFiniteSet(Listed(q, t) \ S)
  BY <1>2, PlacesDiffer, SubsetOfIds
<1> DEFINE A == AheadIn(q, t, i)
           B == AheadIn(q, u, i)
           C == Listed(q, t) \ S
<1> HIDE DEF A, B, C
<1>4. /\ IsFiniteSet(B \cup C) /\ Cardinality(B) \in Nat /\ Cardinality(C) \in Nat
      /\ Cardinality(B \cup C) \in Nat /\ Cardinality(B \cup C) <= Cardinality(B) + Cardinality(C)
  BY <1>3, UnionCard DEF B, C
<1>5. Cardinality(A) \in Nat /\ Cardinality(A) <= Cardinality(B \cup C)
  BY <1>1, <1>4, SubsetCard DEF A, B, C
<1> QED BY <1>4, <1>5 DEF A, B, C, PlaceIn

\* The tables t and u differ in row k at most.
OneRow(t, u, k) == \A i \in Id \ {k} : u[i] = t[i]

\* One write changes one row: one leaves the list at most, and one enters it.
Moved(q, t, u, k, S) ==
  LET out == Listed(q, t) \ S
      in  == Listed(q, u) \ S
  IN  /\ S \in SUBSET Listed(q, t) /\ S \in SUBSET Listed(q, u)
      /\ out \in SUBSET {k} /\ in \in SUBSET {k}
      /\ Cardinality(S) \in Nat /\ Cardinality(out) \in 0..1 /\ Cardinality(in) \in 0..1
      /\ Cardinality(Listed(q, t)) = Cardinality(S) + Cardinality(out)
      /\ Cardinality(Listed(q, u)) = Cardinality(S) + Cardinality(in)
      /\ \A i \in S : /\ PlaceIn(q, t, i) <= PlaceIn(q, u, i) + Cardinality(out)
                      /\ PlaceIn(q, u, i) <= PlaceIn(q, t, i) + Cardinality(in)

LEMMA OneRowChanges ==
  ASSUME NEW q \in Query, NEW t \in Table, NEW u \in Table, NEW k \in Id, OneRow(t, u, k),
         NEW S, S = Stay(q, t, u)
  PROVE  Moved(q, t, u, k, S)
<1>1. S = Stay(q, u, t)
  BY DEF Stay
<1>2. \A i \in S : /\ PlaceIn(q, t, i) <= PlaceIn(q, u, i) + Cardinality(Listed(q, t) \ S)
                   /\ PlaceIn(q, u, i) <= PlaceIn(q, t, i) + Cardinality(Listed(q, u) \ S)
  BY <1>1, PlacesSink
<1>3. S \in SUBSET Listed(q, t) /\ S \in SUBSET Listed(q, u)
  BY DEF Stay
<1>4. ASSUME NEW i \in Id \ {k} PROVE /\ i \in Listed(q, t) <=> i \in Listed(q, u)
                                      /\ SortKey(q, u, i) = SortKey(q, t, i)
  BY <1>4 DEF Listed, SortKey, OneRow
<1>5. Listed(q, t) \in SUBSET Id /\ Listed(q, u) \in SUBSET Id
  BY DEF Listed
<1>6. Listed(q, t) \ S \in SUBSET {k} /\ Listed(q, u) \ S \in SUBSET {k}
  BY <1>4, <1>5 DEF Stay
<1>7. ASSUME NEW L \in SUBSET Id, S \in SUBSET L, L \ S \in SUBSET {k}
      PROVE  /\ Cardinality(L \ S) \in 0..1 /\ Cardinality(S) \in Nat
             /\ Cardinality(L) = Cardinality(S) + Cardinality(L \ S)
  <2>1. Cardinality(L \ S) \in Nat /\ Cardinality(L \ S) <= 1
    BY <1>7, AtMostOne
  <2>2. IsFiniteSet(S) /\ IsFiniteSet(L \ S) /\ Cardinality(S) \in Nat
    BY <1>7, SubsetOfIds
  <2>3. Cardinality(S \cup (L \ S)) = Cardinality(S) + Cardinality(L \ S)
    BY <2>2, UnionCard
  <2>4. S \cup (L \ S) = L
    BY <1>7
  <2>5. Cardinality(L) = Cardinality(S) + Cardinality(L \ S)
    BY <2>3, <2>4
  <2>6. Cardinality(L \ S) \in 0..1
    BY <2>1
  <2> QED BY <2>2, <2>5, <2>6
<1> QED BY <1>2, <1>3, <1>5, <1>6, <1>7 DEF Moved

\* How a write moves the rows of the list and its history: S stays, l leaves, c comes.
LEMMA WriteMoves ==
  ASSUME RegistryInv, NEW t \in Table, NEW k \in Id, OneRow(targets, t, k),
         Write(t), UNCHANGED <<query, seen>>,
         NEW S, S = Stay(query, targets, t),
         NEW l, l = Cardinality(Lists \ S), NEW c, c = Cardinality(Lists' \ S)
  PROVE  /\ S \in SUBSET Lists /\ S \in SUBSET Lists'
         /\ l \in 0..1 /\ c \in 0..1
         /\ Lists \ S \in SUBSET {k} /\ Lists' \ S \in SUBSET {k}
         /\ Cardinality(S) \in Nat
         /\ Cardinality(Lists) = Cardinality(S) + l /\ Cardinality(Lists') = Cardinality(S) + c
         /\ \A i \in S : Place(i) <= Place(i)' + l /\ Place(i)' <= Place(i) + c
         /\ Under => due' = due \cap S /\ came' = came + c /\ left' = left + l
         /\ ~Under => due' = due /\ came' = came /\ left' = left
<1>1. query \in Query /\ targets \in Table /\ came \in Nat /\ left \in Nat
  BY DEF RegistryInv, TypeOK, Table
<1>2. targets' = t /\ query' = query
  BY DEF Write
<1>3. /\ Lists = Listed(query, targets) /\ Lists' = Listed(query, t)
      /\ \A i : Place(i) = PlaceIn(query, targets, i) /\ Place(i)' = PlaceIn(query, t, i)
  BY <1>2 DEF Lists, Place
<1>4. /\ came' = came + (IF Under THEN Cardinality(Listed(query, t) \ S) ELSE 0)
      /\ left' = left + (IF Under THEN Cardinality(Listed(query, targets) \ S) ELSE 0)
      /\ due' = IF Under THEN due \cap S ELSE due
  BY DEF Write, Stay
<1>5. /\ Listed(query, targets) \ S \in SUBSET {k} /\ Listed(query, t) \ S \in SUBSET {k}
      /\ S \in SUBSET Listed(query, targets) /\ S \in SUBSET Listed(query, t)
      /\ Cardinality(Listed(query, targets) \ S) \in 0..1
      /\ Cardinality(Listed(query, t) \ S) \in 0..1
      /\ Cardinality(Listed(query, targets)) = Cardinality(S) + Cardinality(Listed(query, targets) \ S)
      /\ Cardinality(Listed(query, t)) = Cardinality(S) + Cardinality(Listed(query, t) \ S)
      /\ Cardinality(S) \in Nat
      /\ \A i \in S :
           /\ PlaceIn(query, targets, i) <= PlaceIn(query, t, i) + Cardinality(Listed(query, targets) \ S)
           /\ PlaceIn(query, t, i) <= PlaceIn(query, targets, i) + Cardinality(Listed(query, t) \ S)
  <2>1. Moved(query, targets, t, k, S)
    BY <1>1, OneRowChanges
  <2> QED BY <2>1 DEF Moved
<1>6. l = Cardinality(Listed(query, targets) \ S) /\ c = Cardinality(Listed(query, t) \ S)
  BY <1>3
<1>7. /\ Under => due' = due \cap S /\ came' = came + c /\ left' = left + l
      /\ ~Under => due' = due /\ came' = came /\ left' = left
  BY <1>1, <1>4, <1>6
<1>8. \A i \in S : Place(i) <= Place(i)' + l /\ Place(i)' <= Place(i) + c
  BY <1>3, <1>5, <1>6
<1> QED BY <1>3, <1>5, <1>6, <1>7, <1>8

LEMMA ReachedNat ==
  ASSUME query \in Query
  PROVE  Reached \in Nat /\ Offset(query) \in Nat /\ query.page * query.size \in Nat
         /\ Offset(query) + query.size = query.page * query.size
<1> DEFINE p == query.page
           s == query.size
<1>1. p \in Nat /\ p - 1 \in Nat /\ s \in Nat /\ Offset(query) = (p - 1) * s
  BY SizeAssumption DEF Query, Offset
<1> HIDE DEF p, s
<1>2. p * s \in Nat /\ (p - 1) * s \in Nat /\ (p - 1) * s + s = p * s
  BY <1>1
<1> QED BY <1>1, <1>2 DEF Reached, p, s

\* What the history says of a query, and that the query is still the one it is about.
HistoryInv ==
  /\ targets \in Table /\ query \in Query
  /\ seen \in [Id -> Nat] /\ due \in SUBSET Id /\ came \in Nat /\ left \in Nat
  /\ FreshInv /\ WalkInv /\ StatsInv /\ WalkIsAccountedFor /\ NumbersAddUp

LEMMA WriteWalk ==
  ASSUME RegistryInv, NEW t \in Table, NEW k \in Id, OneRow(targets, t, k),
         Write(t), UNCHANGED <<query, seen>>, query.at \in {"list", "count"}
  PROVE  WalkInv'
<1> DEFINE S == Stay(query, targets, t)
           l == Cardinality(Lists \ S)
           c == Cardinality(Lists' \ S)
<1> HIDE DEF S, l, c
<1>1. /\ S \in SUBSET Lists /\ S \in SUBSET Lists'
      /\ l \in 0..1 /\ c \in 0..1
      /\ \A i \in S : Place(i) <= Place(i)' + l /\ Place(i)' <= Place(i) + c
      /\ due' = due \cap S /\ came' = came + c /\ left' = left + l
  BY WriteMoves DEF S, l, c, Under
<1>2. /\ query \in Query /\ targets \in Table /\ due \in SUBSET Id
      /\ came \in Nat /\ left \in Nat /\ seen \in [Id -> Nat]
  BY DEF RegistryInv, TypeOK, Table
<1>3. /\ due \in SUBSET Lists
      /\ Cardinality(Missed) <= left /\ \A n \in Nat \ {0} : Cardinality(Repeat(n)) <= came
      /\ Cardinality(Lists \ due) <= came /\ Cardinality(Gone) <= left
  BY DEF RegistryInv, WalkInv
<1>4. /\ Reached' = Reached /\ (AtEnd' <=> AtEnd) /\ Reached \in Nat
  BY <1>2, ReachedNat DEF Reached, AtEnd, Offset
<1>5. /\ \A i \in Lists : Place(i) \in Nat
      /\ \A i : Place(i)' \in Nat
      /\ \A i, j \in Lists : Place(i) = Place(j) => i = j
  <2>1. query' = query /\ targets' = t
    BY DEF Write
  <2> QED BY <1>2, <2>1, PlacesDiffer DEF Lists, Place
<1>6. Lists \in SUBSET Id /\ Lists' \in SUBSET Id
  BY DEF Lists, Listed
<1>7. IsFiniteSet(Lists \ S) /\ IsFiniteSet(Lists' \ S)
  BY <1>6, SubsetOfIds
<1>8. due' \in SUBSET Lists'
  BY <1>1
\* A row is passed over only when one before it leaves, and only the first not yet reached.
<1>9. Cardinality(Missed') <= left'
  <2> DEFINE New == {i \in due \cap S : Place(i) = Reached /\ l = 1}
  <2>1. Missed' \in SUBSET (Missed \cup New)
    <3>1. ASSUME NEW i \in Missed' PROVE i \in Missed \/ i \in New
      <4>1. i \in due /\ i \in S /\ seen[i] = 0 /\ (Place(i)' < Reached \/ AtEnd)
        BY <1>1, <1>4 DEF Missed
      <4>2. Place(i) \in Nat /\ Place(i)' \in Nat /\ Place(i) <= Place(i)' + l
        BY <1>1, <1>3, <1>5, <4>1
      <4>3. Place(i) < Reached \/ AtEnd \/ (Place(i) = Reached /\ l = 1)
        BY <1>1, <1>4, <4>1, <4>2
      <4> QED BY <4>1, <4>3 DEF Missed
    <3> QED BY <3>1
  <2>2. \A i, j \in New : i = j
    BY <1>1, <1>5
  <2>3. IsFiniteSet(New) /\ Cardinality(New) <= l /\ Cardinality(New) \in Nat
    <3>1. IsFiniteSet(New) /\ Cardinality(New) <= 1 /\ Cardinality(New) \in Nat
          /\ (New = {} => Cardinality(New) = 0)
      <4> HIDE DEF New
      <4> QED BY <2>2, AtMostOne
    <3>2. l = 1 \/ New = {}
      OBVIOUS
    <3> HIDE DEF New
    <3> QED BY <1>1, <3>1, <3>2
  <2>4. Missed \in SUBSET Id
    BY <1>2 DEF Missed
  <2> HIDE DEF New
  <2>5. /\ IsFiniteSet(Missed \cup New) /\ Cardinality(Missed \cup New) \in Nat
        /\ Cardinality(Missed) \in Nat
        /\ Cardinality(Missed \cup New) <= Cardinality(Missed) + Cardinality(New)
    BY <2>3, <2>4, SubsetOfIds, UnionCard
  <2>6. Cardinality(Missed') \in Nat /\ Cardinality(Missed') <= Cardinality(Missed \cup New)
    BY <2>1, <2>5, SubsetCard
  <2> QED BY <1>1, <1>2, <1>3, <2>3, <2>5, <2>6
\* A row is pushed back to what is still to be read only when one enters before it, and
\* only the last of those that were reached.
<1>10. ASSUME NEW n \in Nat \ {0} PROVE Cardinality(Repeat(n)') <= came'
  <2> DEFINE New == {i \in due \cap S : Place(i) = Reached - 1 /\ c = 1}
             Old == Repeat(n)
  <2>1. Repeat(n)' \in SUBSET (Old \cup New)
    <3>1. ASSUME NEW i \in Repeat(n)' PROVE i \in Old \/ i \in New
      <4>1. i \in due /\ i \in S /\ (seen[i] > n \/ (seen[i] >= n /\ Place(i)' >= Reached))
        BY <1>1, <1>4 DEF Repeat
      <4>2. Place(i) \in Nat /\ Place(i)' \in Nat /\ Place(i)' <= Place(i) + c
        BY <1>1, <1>3, <1>5, <4>1
      <4>3. seen[i] > n \/ (seen[i] >= n /\ Place(i) >= Reached) \/ (Place(i) = Reached - 1 /\ c = 1)
        BY <1>1, <1>4, <4>1, <4>2
      <4> QED BY <4>1, <4>3 DEF Repeat
    <3> QED BY <3>1
  <2>2. \A i, j \in New : i = j
    BY <1>1, <1>5
  <2>3. IsFiniteSet(New) /\ Cardinality(New) <= c /\ Cardinality(New) \in Nat
    <3>1. IsFiniteSet(New) /\ Cardinality(New) <= 1 /\ Cardinality(New) \in Nat
          /\ (New = {} => Cardinality(New) = 0)
      <4> HIDE DEF New
      <4> QED BY <2>2, AtMostOne
    <3>2. c = 1 \/ New = {}
      OBVIOUS
    <3> HIDE DEF New
    <3> QED BY <1>1, <3>1, <3>2
  <2>4. Old \in SUBSET Id /\ Cardinality(Old) <= came
    BY <1>2, <1>3 DEF Repeat
  <2> HIDE DEF New, Old
  <2>5. /\ IsFiniteSet(Old \cup New) /\ Cardinality(Old \cup New) \in Nat
        /\ Cardinality(Old) \in Nat
        /\ Cardinality(Old \cup New) <= Cardinality(Old) + Cardinality(New)
    BY <2>3, <2>4, SubsetOfIds, UnionCard
  <2>6. Cardinality(Repeat(n)') \in Nat /\ Cardinality(Repeat(n)') <= Cardinality(Old \cup New)
    BY <2>1, <2>5, SubsetCard
  <2> QED BY <1>1, <1>2, <2>3, <2>4, <2>5, <2>6
\* What enters the list is counted as such, and so is what leaves it.
<1>11. Cardinality((Lists \ due)') <= came'
  <2> DEFINE A == Lists \ due
             C == Lists' \ S
  <2>1. (Lists \ due)' \in SUBSET (A \cup C) /\ A \in SUBSET Id
    BY <1>1, <1>6
  <2>2. IsFiniteSet(C) /\ Cardinality(C) = c /\ Cardinality(A) <= came
    BY <1>3, <1>7 DEF c
  <2> HIDE DEF A, C
  <2>3. /\ IsFiniteSet(A \cup C) /\ Cardinality(A \cup C) \in Nat /\ Cardinality(A) \in Nat
        /\ Cardinality(A \cup C) <= Cardinality(A) + Cardinality(C)
    BY <2>1, <2>2, SubsetOfIds, UnionCard
  <2>4. Cardinality((Lists \ due)') \in Nat /\ Cardinality((Lists \ due)') <= Cardinality(A \cup C)
    BY <2>1, <2>3, SubsetCard
  <2> QED BY <1>1, <1>2, <2>2, <2>3, <2>4
<1>12. Cardinality(Gone') <= left'
  <2> DEFINE L == Lists \ S
  <2>1. Gone' \in SUBSET (Gone \cup L) /\ Gone \in SUBSET Id
    BY <1>1 DEF Gone
  <2>2. IsFiniteSet(L) /\ Cardinality(L) = l
    BY <1>7 DEF l
  <2> HIDE DEF L
  <2>3. /\ IsFiniteSet(Gone \cup L) /\ Cardinality(Gone \cup L) \in Nat /\ Cardinality(Gone) \in Nat
        /\ Cardinality(Gone \cup L) <= Cardinality(Gone) + Cardinality(L)
    BY <2>1, <2>2, SubsetOfIds, UnionCard
  <2>4. Cardinality(Gone') \in Nat /\ Cardinality(Gone') <= Cardinality(Gone \cup L)
    BY <2>1, <2>3, SubsetCard
  <2> QED BY <1>1, <1>2, <1>3, <2>2, <2>3, <2>4
<1> QED BY <1>8, <1>9, <1>10, <1>11, <1>12 DEF WalkInv

\* Every write keeps the history true: of a walk, of statistics, and of what has ended.
LEMMA WriteKeeps ==
  ASSUME RegistryInv, NEW t \in Table, NEW k \in Id, OneRow(targets, t, k),
         Write(t), UNCHANGED <<query, seen>>
  PROVE  HistoryInv'
<1> DEFINE S == Stay(query, targets, t)
           l == Cardinality(Lists \ S)
           c == Cardinality(Lists' \ S)
<1> HIDE DEF S, l, c
<1>1. /\ l \in 0..1 /\ c \in 0..1 /\ Cardinality(S) \in Nat
      /\ Cardinality(Lists) = Cardinality(S) + l /\ Cardinality(Lists') = Cardinality(S) + c
      /\ Under => due' = due \cap S /\ came' = came + c /\ left' = left + l
      /\ ~Under => due' = due /\ came' = came /\ left' = left
  BY WriteMoves DEF S, l, c
<1>2. /\ query \in Query /\ targets \in Table /\ due \in SUBSET Id
      /\ came \in Nat /\ left \in Nat /\ seen \in [Id -> Nat]
  BY DEF RegistryInv, TypeOK, Table
<1>3. query' = query /\ seen' = seen /\ targets' = t
  BY DEF Write
<1>4. /\ targets' \in Table /\ query' \in Query /\ seen' \in [Id -> Nat]
      /\ due' \in SUBSET Id /\ came' \in Nat /\ left' \in Nat
  BY <1>1, <1>2, <1>3
<1>5. FreshInv'
  BY <1>1, <1>3 DEF RegistryInv, FreshInv, Under, Idle
<1>6. WalkInv'
  BY <1>3, WriteWalk DEF WalkInv
<1>7. StatsInv'
  <2>1. SUFFICES ASSUME query.at = "stats" PROVE StatsInv'
    BY <1>3 DEF StatsInv
  <2>2. /\ query.user_id = NULL /\ query.status = NULL /\ query.source = NULL
        /\ query.total + came = Cardinality(Rows) + left /\ query.total \in Nat
    BY <1>2, <2>1, BoundsAssumption DEF RegistryInv, StatsInv, Query
  <2>3. Lists = Rows /\ Lists' = Rows'
    BY <1>3, <2>2 DEF Lists, Listed, buildWhere, Rows
  <2>4. came' = came + c /\ left' = left + l
    BY <1>1, <2>1 DEF Under
  <2>5. query.total + came' = Cardinality(Rows') + left'
    BY <1>1, <1>2, <2>2, <2>3, <2>4
  <2> QED BY <1>3, <2>2, <2>5 DEF StatsInv
<1>8. WalkIsAccountedFor' /\ NumbersAddUp'
  <2>1. CASE query.at = "done"
    <3>1. due' = due /\ came' = came /\ left' = left
      BY <1>1, <2>1 DEF Under
    <3> QED BY <1>3, <3>1 DEF RegistryInv, WalkIsAccountedFor, NumbersAddUp
  <2>2. CASE query.at # "done"
    BY <1>3, <2>2 DEF WalkIsAccountedFor, NumbersAddUp
  <2> QED BY <2>1, <2>2
<1> QED BY <1>4, <1>5, <1>6, <1>7, <1>8 DEF HistoryInv

--------------------------------------------------------------------------------
(* The registry: the writers *)

\* The invariant has a part about the rows and a part about the query.
RowsInv ==
  /\ TidyInv /\ OneRowPerValue /\ UIDBelongsToOwner
  /\ taken \subseteq Id /\ Rows \subseteq taken /\ moves \in 0..MaxMoves

LEMMA TwoParts == (HistoryInv /\ RowsInv <=> RegistryInv) /\ (HistoryInv' /\ RowsInv' <=> RegistryInv')
BY DEF RegistryInv, HistoryInv, RowsInv, TypeOK, Table, Query

\* What an insert must bring, whichever route it comes by.
LEMMA InsertStep ==
  ASSUME RegistryInv, NEW row \in Target, row.value.form = "tidy", row # NULL,
         row.keycloak_uid # NULL => Derive[row.keycloak_uid] = row.user_id, Insert(row)
  PROVE  RegistryInv'
<1>1. PICK i \in Id \ taken : taken' = taken \cup {i} /\ Write([targets EXCEPT ![i] = row])
  BY DEF Insert
<1>2. /\ targets \in Table /\ taken \subseteq Id /\ Rows \subseteq taken
      /\ TidyInv /\ OneRowPerValue /\ UIDBelongsToOwner /\ moves \in 0..MaxMoves
  BY TwoParts DEF HistoryInv, RowsInv
<1>3. ~Conflict(row) /\ UNCHANGED <<moves, query, seen>>
  BY DEF Insert
<1> DEFINE t == [targets EXCEPT ![i] = row]
<1>4. t \in Table /\ OneRow(targets, t, i) /\ t[i] = row
  BY <1>2 DEF Table, OneRow
<1> HIDE DEF t
<1>5. HistoryInv'
  <2>1. Write(t)
    BY <1>1 DEF t
  <2> QED BY <1>1, <1>3, <1>4, <2>1, WriteKeeps
<1>6. targets' = t
  BY <1>1 DEF Write, t
<1>7. Rows' = Rows \cup {i} /\ i \notin Rows /\ \A j \in Rows : targets'[j] = targets[j]
  BY <1>1, <1>2, <1>4, <1>6 DEF Rows, OneRow
<1>8. TidyInv' /\ UIDBelongsToOwner'
  BY <1>2, <1>4, <1>6, <1>7 DEF TidyInv, UIDBelongsToOwner
<1>9. OneRowPerValue'
  <2>1. ASSUME NEW j \in Rows, targets[j].user_id = row.user_id, targets[j].kind = row.kind,
               targets[j].value.name = row.value.name
        PROVE FALSE
    <3>1. targets[j].value \in Raw /\ row.value \in Raw
      BY <1>2 DEF Rows, Table, Target
    <3>2. targets[j].value = row.value
      BY <1>2, <2>1, <3>1 DEF Raw, TidyInv
    <3> QED BY <1>3, <2>1, <3>2 DEF Conflict
  <2> QED BY <1>2, <1>4, <1>6, <1>7, <2>1 DEF OneRowPerValue
<1> QED BY <1>1, <1>2, <1>3, <1>5, <1>7, <1>8, <1>9, TwoParts DEF RowsInv

LEMMA UidIsDerived ==
  ASSUME NEW caller \in User, NEW sub \in Sub \cup {NULL}, NEW owner \in User,
         NEW uid, uid = KeycloakUID(caller, sub, owner)
  PROVE  uid \in Sub \cup {NULL} /\ (uid # NULL => Derive[uid] = owner)
BY DEF KeycloakUID, UserUID

LEMMA Tidied ==
  ASSUME NEW raw \in Raw
  PROVE  NormalizeTargetValue(raw) \in Raw /\ NormalizeTargetValue(raw).form = "tidy"
BY DEF NormalizeTargetValue, Raw

LEMMA CreateStep ==
  ASSUME RegistryInv, NEW u \in User, NEW sub \in Sub \cup {NULL}, NEW kind \in Kind,
         NEW raw \in Raw, Create(u, sub, kind, raw)
  PROVE  RegistryInv'
<1> DEFINE v   == NormalizeTargetValue(raw)
           uid == KeycloakUID(u, sub, u)
           row == [user_id |-> u, kind |-> kind, value |-> v, status |-> "unverified",
                   source |-> "customer", keycloak_uid |-> uid]
<1>1. checkKindAllowed(kind) /\ Insert(row)
  BY DEF Create
<1>2. v \in Raw /\ v.form = "tidy"
  BY Tidied
<1>3. uid \in Sub \cup {NULL} /\ (uid # NULL => Derive[uid] = u)
  BY UidIsDerived
<1> HIDE DEF v, uid
<1>4. row \in Target /\ row.value.form = "tidy"
      /\ (row.keycloak_uid # NULL => Derive[row.keycloak_uid] = row.user_id)
  BY <1>1, <1>2, <1>3 DEF Target, validStatuses, validSources
<1> HIDE DEF row
<1> QED BY <1>1, <1>4, RowAssumption, InsertStep

LEMMA CreateProgramStep ==
  ASSUME RegistryInv, NEW admin \in User, NEW sub \in Sub \cup {NULL},
         NEW user_id \in User \cup {NULL}, NEW kind \in Kind, NEW raw \in Raw,
         CreateProgram(admin, sub, user_id, kind, raw)
  PROVE  RegistryInv'
<1> DEFINE owner == IF user_id = NULL THEN admin ELSE user_id
           v   == NormalizeTargetValue(raw)
           uid == KeycloakUID(admin, sub, owner)
           row == [user_id |-> owner, kind |-> kind, value |-> v, status |-> "verified",
                   source |-> "program", keycloak_uid |-> uid]
<1>1. checkKindAllowed(kind) /\ Insert(row)
  BY DEF CreateProgram
<1>2. v \in Raw /\ v.form = "tidy"
  BY Tidied
<1>3. owner \in User
  OBVIOUS
<1> HIDE DEF owner
<1>4. uid \in Sub \cup {NULL} /\ (uid # NULL => Derive[uid] = owner)
  BY <1>3, UidIsDerived
<1> HIDE DEF v, uid
<1>5. row \in Target /\ row.value.form = "tidy"
      /\ (row.keycloak_uid # NULL => Derive[row.keycloak_uid] = row.user_id)
  BY <1>1, <1>2, <1>3, <1>4 DEF Target, validStatuses, validSources
<1> HIDE DEF row
<1> QED BY <1>1, <1>5, RowAssumption, InsertStep

\* A new status is all that a row's update changes, and so nothing that makes a row unique
\* or ties it to its owner.
LEMMA UpdateStep ==
  ASSUME RegistryInv, NEW i \in Id, NEW status \in validStatuses, UpdateStatus(i, status)
  PROVE  RegistryInv'
<1> DEFINE row == [targets[i] EXCEPT !.status = status]
           t   == [targets EXCEPT ![i] = row]
<1>1. /\ targets \in Table /\ RowsInv /\ Rows \subseteq taken /\ taken \subseteq Id
      /\ moves \in 0..MaxMoves
  BY TwoParts DEF HistoryInv, RowsInv
<1>2. /\ i \in Rows /\ moves < MaxMoves /\ moves' = moves + 1
      /\ UNCHANGED <<taken, query, seen>>
      /\ Write(t)
  BY DEF UpdateStatus
<1>3. targets[i] \in Target
  BY <1>1, <1>2 DEF Rows, Table
<1>4. /\ row \in Target /\ row.user_id = targets[i].user_id /\ row.kind = targets[i].kind
      /\ row.value = targets[i].value /\ row.keycloak_uid = targets[i].keycloak_uid
  BY <1>3 DEF Target
<1> HIDE DEF row
<1>5. t \in Table /\ OneRow(targets, t, i) /\ t[i] = row
  BY <1>1, <1>4 DEF Table, OneRow
<1> HIDE DEF t
<1>6. HistoryInv'
  BY <1>2, <1>5, WriteKeeps
<1>7. targets' = t
  BY <1>2 DEF Write
<1>8. Rows' = Rows /\ \A j \in Rows : j # i => targets'[j] = targets[j]
  BY <1>2, <1>4, <1>5, <1>7, RowAssumption DEF Rows, OneRow
<1>9. \A j \in Rows : /\ targets'[j].user_id = targets[j].user_id
                      /\ targets'[j].kind = targets[j].kind
                      /\ targets'[j].value = targets[j].value
                      /\ targets'[j].keycloak_uid = targets[j].keycloak_uid
  BY <1>4, <1>5, <1>7, <1>8
<1>10. TidyInv' /\ OneRowPerValue' /\ UIDBelongsToOwner'
  BY <1>1, <1>8, <1>9 DEF RowsInv, TidyInv, OneRowPerValue, UIDBelongsToOwner
<1>11. moves' \in 0..MaxMoves
  BY <1>1, <1>2, BoundsAssumption
<1> QED BY <1>1, <1>2, <1>6, <1>8, <1>10, <1>11, TwoParts DEF RowsInv

LEMMA DeleteStep ==
  ASSUME RegistryInv, NEW i \in Id, Delete(i)
  PROVE  RegistryInv'
<1> DEFINE t == [targets EXCEPT ![i] = NULL]
<1>1. targets \in Table /\ RowsInv
  BY TwoParts DEF HistoryInv
<1>2. i \in Rows /\ UNCHANGED <<taken, moves, query, seen>> /\ Write(t)
  BY DEF Delete
<1>3. t \in Table /\ OneRow(targets, t, i) /\ t[i] = NULL
  BY <1>1 DEF Table, OneRow
<1> HIDE DEF t
<1>4. HistoryInv'
  BY <1>2, <1>3, WriteKeeps
<1>5. targets' = t
  BY <1>2 DEF Write
<1>6. Rows' = Rows \ {i} /\ \A j \in Rows' : targets'[j] = targets[j]
  BY <1>3, <1>5 DEF Rows, OneRow
<1>7. TidyInv' /\ OneRowPerValue' /\ UIDBelongsToOwner'
  BY <1>1, <1>6 DEF RowsInv, TidyInv, OneRowPerValue, UIDBelongsToOwner
<1> QED BY <1>1, <1>2, <1>4, <1>6, <1>7, TwoParts DEF RowsInv

--------------------------------------------------------------------------------
(* The registry: the readers *)

\* A reader writes no row.
LEMMA RowsKept ==
  ASSUME RowsInv, UNCHANGED <<targets, taken, moves>>
  PROVE  RowsInv'
<1>1. Rows' = Rows
  BY DEF Rows
<1> QED BY <1>1 DEF RowsInv, TidyInv, OneRowPerValue, UIDBelongsToOwner

LEMMA SizeInRange ==
  ASSUME NEW asked \in Nat
  PROVE  PageSize(asked) \in 1..MaxSize
BY SizeAssumption DEF PageSize

LEMMA EmptyCard == Cardinality({}) = 0
BY FS_EmptySet

\* A walk starts with nothing missed and nothing read.
LEMMA ListStep ==
  ASSUME RegistryInv, NEW q \in Questions, NEW asked \in 0..(MaxSize + 1), ListTargets(q, asked)
  PROVE  RegistryInv'
<1>1. HistoryInv /\ RowsInv /\ query = Idle /\ came = 0 /\ left = 0 /\ \A i \in Id : seen[i] = 0
  BY TwoParts DEF HistoryInv, FreshInv, ListTargets
<1> DEFINE size == PageSize(asked)
           r == [query EXCEPT !.at = "list", !.size = size, !.by = q.by, !.user_id = q.user_id,
                              !.status = q.status, !.source = q.source, !.sort = q.sort,
                              !.ascending = q.ascending]
<1>2. query' = r /\ due' = Listed(q, targets) /\ UNCHANGED <<targets, taken, moves, seen, came, left>>
  BY DEF ListTargets
<1>3. size \in 1..MaxSize
  BY SizeAssumption, SizeInRange
<1> HIDE DEF size
<1>4. q \in SearchParameters
  BY QuestionsAssumption
<1>5. /\ r \in Query /\ r.at = "list" /\ r.page = 1 /\ r.size = size /\ r.by_source = <<>>
      /\ r.user_id = q.user_id /\ r.status = q.status /\ r.source = q.source
  <2>2. /\ q.by \in User \cup {"admin"} /\ q.user_id \in User \cup {NULL}
        /\ q.status \in validStatuses \cup {NULL} /\ q.source \in validSources \cup {NULL}
        /\ q.sort \in {"created_at", "status"} /\ q.ascending \in BOOLEAN
    BY <1>4 DEF SearchParameters
  <2> DEFINE a == [query EXCEPT !.at = "list", !.size = size]
             b == [a EXCEPT !.by = q.by, !.user_id = q.user_id, !.status = q.status]
             c == [b EXCEPT !.source = q.source, !.sort = q.sort, !.ascending = q.ascending]
  <2>3. r = c
    OBVIOUS
  <2>4. /\ a \in Query /\ a.at = "list" /\ a.page = 1 /\ a.size = size /\ a.by_source = <<>>
    BY <1>1, <1>3 DEF HistoryInv, Query, Idle
  <2> HIDE DEF a, r
  <2>5. /\ b \in Query /\ b.at = "list" /\ b.page = 1 /\ b.size = size /\ b.by_source = <<>>
        /\ b.user_id = q.user_id /\ b.status = q.status
    BY <2>2, <2>4 DEF Query
  <2> HIDE DEF b
  <2>6. /\ c \in Query /\ c.at = "list" /\ c.page = 1 /\ c.size = size /\ c.by_source = <<>>
        /\ c.user_id = q.user_id /\ c.status = q.status /\ c.source = q.source
    BY <2>2, <2>5 DEF Query
  <2> QED BY <2>3, <2>6
<1> HIDE DEF r
<1>6. Lists' = due'
  BY <1>2, <1>5 DEF Lists, Listed, buildWhere
<1>7. due' \in SUBSET Id
  BY <1>2 DEF Listed
<1>8. ASSUME NEW i PROVE Place(i)' \in Nat
  <2>1. targets \in Table
    BY <1>1 DEF HistoryInv
  <2> QED BY <1>2, <1>5, <2>1, PlacesDiffer DEF Place
<1>9. Reached' = 0 /\ ~AtEnd'
  <2>1. (r.page - 1) * r.size = 0
    BY <1>3, <1>5
  <2> QED BY <1>2, <1>5, <2>1 DEF Reached, AtEnd, Offset
<1>10. Missed' = {}
  <2>1. \A i : ~ (Place(i)' < 0)
    BY <1>8
  <2> QED BY <1>9, <2>1 DEF Missed
<1>11. ASSUME NEW n \in Nat \ {0} PROVE Repeat(n)' = {}
  <2>1. \A i \in Id : seen'[i] = 0
    BY <1>1, <1>2
  <2>2. ~ (0 > n) /\ ~ (0 >= n)
    OBVIOUS
  <2> QED BY <1>7, <2>1, <2>2 DEF Repeat
<1>12. Gone' = {} /\ (Lists \ due)' = {}
  <2>1. ~ (0 > 0)
    OBVIOUS
  <2> QED BY <1>1, <1>2, <1>6, <2>1 DEF Gone
<1>13. WalkInv'
  <2>1. Cardinality(Missed') = 0 /\ Cardinality(Gone') = 0 /\ Cardinality((Lists \ due)') = 0
    BY <1>10, <1>12, EmptyCard
  <2>2. \A n \in Nat \ {0} : Cardinality(Repeat(n)') = 0
    BY <1>11, EmptyCard
  <2>3. came' = 0 /\ left' = 0 /\ due' \subseteq Lists' /\ 0 <= 0
    BY <1>1, <1>2, <1>6
  <2> QED BY <2>1, <2>2, <2>3 DEF WalkInv
<1>14. FreshInv' /\ StatsInv' /\ WalkIsAccountedFor' /\ NumbersAddUp'
  BY <1>2, <1>5 DEF FreshInv, StatsInv, WalkIsAccountedFor, NumbersAddUp
<1>15. HistoryInv'
  BY <1>1, <1>2, <1>5, <1>7, <1>13, <1>14 DEF HistoryInv
<1> QED BY <1>1, <1>2, <1>15, RowsKept, TwoParts

\* Every row of the page has been read, and so every place up to its end: a row that has
\* not is further on, of which there is none when the page is not full.
LEMMA ReadStep ==
  ASSUME RegistryInv, ReadPage
  PROVE  RegistryInv'
<1> DEFINE P == List(query)
           full == Cardinality(P) = query.size
           r == [query EXCEPT !.at = "count", !.full = full]
<1>1. HistoryInv /\ RowsInv
  BY TwoParts
<1>2. /\ query.at = "list" /\ query' = r
      /\ seen' = [i \in Id |-> seen[i] + (IF i \in P THEN 1 ELSE 0)]
      /\ UNCHANGED <<targets, taken, moves, due, came, left>>
  BY DEF ReadPage
<1>3. /\ query \in Query /\ targets \in Table /\ due \in SUBSET Id
      /\ came \in Nat /\ left \in Nat /\ seen \in [Id -> Nat]
  BY <1>1 DEF HistoryInv
<1>4. P = {j \in Lists : Place(j) \in Offset(query)..(Offset(query) + query.size - 1)}
  BY PageOf
<1>5. ASSUME NEW i \in Lists, Place(i) >= Offset(query) + query.size PROVE full
  BY <1>3, <1>5, ShortPageIsLast
<1>6. full \in BOOLEAN
  OBVIOUS
<1> HIDE DEF P, full
<1>7. /\ r \in Query /\ r.at = "count" /\ r.page = query.page /\ r.size = query.size
      /\ r.full = full /\ r.by_source = query.by_source /\ SameQuestion(query, r)
  BY <1>3, <1>6 DEF Query, SameQuestion
<1> HIDE DEF r
<1>8. Lists' = Lists /\ \A i : Place(i)' = Place(i)
  BY <1>2, <1>7, SamePlaces DEF Lists, Place
<1>9. /\ Reached = Offset(query) /\ Reached' = Offset(query) + query.size
      /\ Offset(query) \in Nat /\ query.size \in Nat
      /\ ~AtEnd /\ (AtEnd' <=> ~full)
  BY <1>2, <1>3, <1>7, ReachedNat, SizeAssumption DEF Reached, AtEnd, Query
<1>10. /\ due \subseteq Lists
       /\ Cardinality(Missed) <= left /\ \A n \in Nat \ {0} : Cardinality(Repeat(n)) <= came
       /\ Cardinality(Lists \ due) <= came /\ Cardinality(Gone) <= left
  BY <1>1, <1>2 DEF HistoryInv, WalkInv
<1>11. \A i \in Lists : Place(i) \in Nat
  BY <1>3, PlacesDiffer DEF Place
<1>12. /\ \A i \in P : i \in Id => seen'[i] = seen[i] + 1
       /\ \A i \in Id \ P : seen'[i] = seen[i]
  BY <1>2, <1>3
<1>13. /\ IsFiniteSet(Missed) /\ \A n : IsFiniteSet(Repeat(n))
       /\ IsFiniteSet(Gone)
       /\ Cardinality(Missed) \in Nat /\ Cardinality(Gone) \in Nat
       /\ \A n : Cardinality(Repeat(n)) \in Nat
  <2>1. Missed \in SUBSET Id /\ Gone \in SUBSET Id /\ \A n : Repeat(n) \in SUBSET Id
    BY <1>3 DEF Missed, Gone, Repeat
  <2> QED BY <2>1, SubsetOfIds
<1>14. Missed' \in SUBSET Missed
  <2>1. ASSUME NEW i \in Missed' PROVE i \in Missed
    <3>1. i \in due /\ i \in Lists /\ i \in Id /\ seen'[i] = 0
          /\ (Place(i) < Reached' \/ ~full)
      BY <1>2, <1>3, <1>8, <1>9, <1>10 DEF Missed
    <3>2. i \notin P /\ seen[i] = 0
      BY <1>3, <1>12, <3>1
    <3>3. Place(i) < Offset(query) + query.size
      BY <1>5, <1>9, <1>11, <3>1
    <3>4. Place(i) < Offset(query)
      BY <1>4, <1>9, <1>11, <3>1, <3>2, <3>3
    <3> QED BY <1>9, <3>1, <3>2, <3>4 DEF Missed
  <2> QED BY <2>1
<1>15. ASSUME NEW n \in Nat \ {0} PROVE Repeat(n)' \in SUBSET Repeat(n)
  <2>1. ASSUME NEW i \in Repeat(n)' PROVE i \in Repeat(n)
    <3>1. i \in due /\ i \in Lists /\ i \in Id
          /\ (seen'[i] > n \/ (seen'[i] >= n /\ Place(i) >= Reached'))
      BY <1>2, <1>3, <1>8, <1>9, <1>10 DEF Repeat
    <3>2. CASE i \in P
      <4>1. Place(i) >= Offset(query) /\ Place(i) < Offset(query) + query.size
        BY <1>4, <1>9, <1>11, <3>2
      <4>2. seen'[i] = seen[i] + 1 /\ seen[i] \in Nat
        BY <1>3, <1>12, <3>1, <3>2
      <4>3. seen[i] >= n
        BY <1>9, <1>11, <3>1, <4>1, <4>2
      <4> QED BY <1>9, <3>1, <4>1, <4>3 DEF Repeat
    <3>3. CASE i \notin P
      <4>1. seen'[i] = seen[i] /\ seen[i] \in Nat
        BY <1>3, <1>12, <3>1, <3>3
      <4>2. seen[i] > n \/ (seen[i] >= n /\ Place(i) >= Reached)
        BY <1>9, <1>11, <3>1, <4>1
      <4> QED BY <3>1, <4>2 DEF Repeat
    <3> QED BY <3>2, <3>3
  <2> QED BY <2>1
<1>16. Gone' \in SUBSET Gone
  <2>1. P \in SUBSET Lists
    BY <1>4
  <2> QED BY <1>8, <1>12, <2>1 DEF Gone
<1>17. WalkInv'
  <2>1. Cardinality(Missed') <= left /\ Cardinality(Gone') <= left
    <3>1. /\ Cardinality(Missed') \in Nat /\ Cardinality(Missed') <= Cardinality(Missed)
          /\ Cardinality(Gone') \in Nat /\ Cardinality(Gone') <= Cardinality(Gone)
      BY <1>13, <1>14, <1>16, SubsetCard
    <3> QED BY <1>3, <1>10, <1>13, <3>1
  <2>2. ASSUME NEW n \in Nat \ {0} PROVE Cardinality(Repeat(n)') <= came
    <3>1. Cardinality(Repeat(n)') \in Nat /\ Cardinality(Repeat(n)') <= Cardinality(Repeat(n))
      BY <1>13, <1>15, SubsetCard
    <3> QED BY <1>3, <1>10, <1>13, <3>1
  <2> QED BY <1>2, <1>8, <1>10, <2>1, <2>2 DEF WalkInv
<1>18. FreshInv' /\ StatsInv' /\ WalkIsAccountedFor' /\ NumbersAddUp'
  BY <1>1, <1>2, <1>7 DEF HistoryInv, FreshInv, StatsInv, WalkIsAccountedFor, NumbersAddUp
<1>19. seen' \in [Id -> Nat]
  BY <1>2, <1>3
<1>20. HistoryInv'
  BY <1>2, <1>3, <1>7, <1>17, <1>18, <1>19 DEF HistoryInv
<1> QED BY <1>1, <1>2, <1>20, RowsKept, TwoParts

\* What a walk that has ended accounts for: the rows it saw, missed and met again, and the
\* total of its last answer.
LEMMA WalkEnds ==
  ASSUME HistoryInv, AtEnd
  PROVE  /\ Cardinality({i \in due : seen[i] = 0}) <= left
         /\ \A n \in 1..MaxId : Cardinality({i \in due : seen[i] > n}) <= came
         /\ Cardinality({i \in Id : seen[i] > 0}) <= Cardinality(Lists) + came + left
         /\ Cardinality(Lists) <= Cardinality({i \in Id : seen[i] > 0}) + came + left
<1>1. /\ due \in SUBSET Id /\ came \in Nat /\ left \in Nat /\ seen \in [Id -> Nat]
      /\ due \subseteq Lists
      /\ Cardinality(Missed) <= left /\ \A n \in Nat \ {0} : Cardinality(Repeat(n)) <= came
      /\ Cardinality(Lists \ due) <= came /\ Cardinality(Gone) <= left
  BY DEF HistoryInv, WalkInv, AtEnd
<1>2. Missed = {i \in due : seen[i] = 0}
  BY DEF Missed
<1>3. ASSUME NEW n \in 1..MaxId PROVE Cardinality({i \in due : seen[i] > n}) <= came
  <2> DEFINE Again == {i \in due : seen[i] > n}
  <2>1. Again \in SUBSET Repeat(n) /\ Repeat(n) \in SUBSET Id
    BY <1>1 DEF Repeat
  <2> HIDE DEF Again
  <2>2. /\ Cardinality(Again) <= Cardinality(Repeat(n)) /\ Cardinality(Again) \in Nat
        /\ Cardinality(Repeat(n)) \in Nat
    BY <2>1, SubsetOfIds, SubsetCard
  <2>3. n \in Nat \ {0}
    BY BoundsAssumption
  <2>4. Cardinality(Again) <= came
    BY <1>1, <2>2, <2>3
  <2> QED BY <2>4 DEF Again
<1> DEFINE R == {i \in Id : seen[i] > 0}
           N == Lists \ due
           L == Lists
<1>4. L \in SUBSET Id /\ N \in SUBSET Id /\ R \in SUBSET Id /\ Gone \in SUBSET Id
      /\ Missed \in SUBSET Id
  BY <1>1 DEF Lists, Listed, Gone, Missed
<1>5. R \in SUBSET (L \cup Gone) /\ L \in SUBSET (R \cup (N \cup Missed))
  <2>1. \A i \in Id : seen[i] = 0 \/ seen[i] > 0
    BY <1>1
  <2> QED BY <1>1, <1>4, <2>1 DEF Gone, Missed, AtEnd
<1>6. Cardinality(N) <= came
  BY <1>1
<1> HIDE DEF R, N, L
<1>7. /\ IsFiniteSet(L) /\ IsFiniteSet(N) /\ IsFiniteSet(R) /\ IsFiniteSet(Gone) /\ IsFiniteSet(Missed)
      /\ Cardinality(L) \in Nat /\ Cardinality(N) \in Nat /\ Cardinality(R) \in Nat
      /\ Cardinality(Gone) \in Nat /\ Cardinality(Missed) \in Nat
  BY <1>4, SubsetOfIds
<1>8. Cardinality(R) <= Cardinality(L) + came + left
  <2>1. /\ IsFiniteSet(L \cup Gone) /\ Cardinality(L \cup Gone) \in Nat
        /\ Cardinality(L \cup Gone) <= Cardinality(L) + Cardinality(Gone)
    BY <1>7, UnionCard
  <2>2. Cardinality(R) <= Cardinality(L \cup Gone)
    BY <1>5, <2>1, SubsetCard
  <2> QED BY <1>1, <1>7, <2>1, <2>2
<1>9. Cardinality(L) <= Cardinality(R) + came + left
  <2>1. /\ IsFiniteSet(N \cup Missed) /\ Cardinality(N \cup Missed) \in Nat
        /\ Cardinality(N \cup Missed) <= Cardinality(N) + Cardinality(Missed)
    BY <1>7, UnionCard
  <2>2. /\ IsFiniteSet(R \cup (N \cup Missed)) /\ Cardinality(R \cup (N \cup Missed)) \in Nat
        /\ Cardinality(R \cup (N \cup Missed)) <= Cardinality(R) + Cardinality(N \cup Missed)
    BY <1>7, <2>1, UnionCard
  <2>3. Cardinality(L) <= Cardinality(R \cup (N \cup Missed))
    BY <1>5, <2>2, SubsetCard
  <2> QED BY <1>1, <1>6, <1>7, <2>1, <2>2, <2>3
<1>10. /\ Cardinality({i \in Id : seen[i] > 0}) <= Cardinality(Lists) + came + left
       /\ Cardinality(Lists) <= Cardinality({i \in Id : seen[i] > 0}) + came + left
  BY <1>8, <1>9 DEF R, L
<1>11. Cardinality({i \in due : seen[i] = 0}) <= left
  BY <1>1, <1>2
<1> QED BY <1>3, <1>10, <1>11

\* The answer moves on by one page, or ends the walk with the total of that moment.
LEMMA AnswerStep ==
  ASSUME RegistryInv, Answer
  PROVE  RegistryInv'
<1> DEFINE total == IF query.by = "admin" THEN Count(query) ELSE 0
           at    == IF query.full THEN "list" ELSE "done"
           page  == IF query.full THEN query.page + 1 ELSE query.page
           r     == [query EXCEPT !.total = total, !.at = at, !.page = page]
<1>1. HistoryInv /\ RowsInv
  BY TwoParts
<1>2. query.at = "count" /\ query' = r /\ UNCHANGED <<targets, taken, moves, seen, due, came, left>>
  BY DEF Answer
<1>3. /\ query \in Query /\ targets \in Table /\ query.page \in Nat \ {0} /\ query.full \in BOOLEAN
      /\ query.by_source = <<>>
  BY <1>1, <1>2 DEF HistoryInv, Query, FreshInv
<1>4. query.by = "admin" => total = Cardinality(Lists)
  BY DEF Count, Lists
<1>5. total \in 0..MaxId
  <2>1. Lists \in SUBSET Id
    BY DEF Lists, Listed
  <2>2. Cardinality(Lists) \in 0..MaxId
    BY <2>1, SubsetOfIds, BoundsAssumption
  <2> QED BY <1>4, <2>2, BoundsAssumption
<1>6. /\ at \in {"list", "done"} /\ (at = "list" <=> query.full)
      /\ page \in Nat \ {0} /\ (query.full => page = query.page + 1)
  BY <1>3
<1> HIDE DEF total, at, page
<1>7. /\ r \in Query /\ r.at = at /\ r.page = page /\ r.total = total /\ r.size = query.size
      /\ r.by = query.by /\ r.by_source = <<>> /\ SameQuestion(query, r)
  BY <1>3, <1>5, <1>6 DEF Query, SameQuestion
<1> HIDE DEF r
<1>8. Lists' = Lists /\ \A i : Place(i)' = Place(i)
  BY <1>2, <1>7, SamePlaces DEF Lists, Place
\* There is a next page: it starts where this one ended.
<1>9. CASE query.full
  <2>1. Reached' = Reached
    <3>1. query.size \in Nat
      BY <1>3, SizeAssumption DEF Query
    <3>2. (page - 1) * query.size = query.page * query.size
      BY <1>3, <1>6, <1>9, <3>1
    <3> QED BY <1>2, <1>6, <1>7, <1>9, <3>2 DEF Reached, Offset
  <2>2. ~AtEnd' /\ ~AtEnd
    BY <1>2, <1>6, <1>7, <1>9 DEF AtEnd
  <2>3. Missed' = Missed /\ Gone' = Gone /\ (Lists \ due)' = Lists \ due
    BY <1>2, <1>8, <2>1, <2>2 DEF Missed, Gone
  <2>4. ASSUME NEW n \in Nat \ {0} PROVE Repeat(n)' = Repeat(n)
    BY <1>2, <1>8, <2>1 DEF Repeat
  <2>5. WalkInv'
    BY <1>1, <1>2, <1>8, <2>3, <2>4 DEF HistoryInv, WalkInv
  <2>6. FreshInv' /\ StatsInv' /\ WalkIsAccountedFor' /\ NumbersAddUp'
    BY <1>2, <1>6, <1>7, <1>9 DEF FreshInv, StatsInv, WalkIsAccountedFor, NumbersAddUp
  <2> QED BY <1>1, <1>2, <1>7, <2>5, <2>6, RowsKept, TwoParts DEF HistoryInv
<1>10. CASE ~query.full
  <2>1. AtEnd
    BY <1>2, <1>10 DEF AtEnd
  <2>2. /\ Cardinality({i \in due : seen[i] = 0}) <= left
        /\ \A n \in 1..MaxId : Cardinality({i \in due : seen[i] > n}) <= came
        /\ Cardinality({i \in Id : seen[i] > 0}) <= Cardinality(Lists) + came + left
        /\ Cardinality(Lists) <= Cardinality({i \in Id : seen[i] > 0}) + came + left
    BY <1>1, <2>1, WalkEnds
  <2>3. WalkIsAccountedFor'
    BY <1>2, <1>4, <1>7, <2>2 DEF WalkIsAccountedFor
  <2>4. at = "done"
    BY <1>6, <1>10
  <2>5. FreshInv' /\ WalkInv' /\ StatsInv' /\ NumbersAddUp'
    BY <1>2, <1>7, <2>4 DEF FreshInv, WalkInv, StatsInv, NumbersAddUp
  <2> QED BY <1>1, <1>2, <1>7, <2>3, <2>5, RowsKept, TwoParts DEF HistoryInv
<1> QED BY <1>3, <1>9, <1>10

--------------------------------------------------------------------------------
(* The registry: the statistics *)

\* The rows that have v in a column of theirs.
Having(column, v) == {i \in Rows : targets[i][column] = v}

\* Statuses and sources are all there are: the groups are disjoint, and cover the table.
LEMMA GroupsCover ==
  ASSUME targets \in Table
  PROVE  /\ Cardinality(Rows) = Cardinality(Having("source", "customer"))
                              + Cardinality(Having("source", "program"))
         /\ Cardinality(Rows) = Cardinality(Having("status", "unverified"))
                              + Cardinality(Having("status", "verifying"))
                              + Cardinality(Having("status", "verified"))
                              + Cardinality(Having("status", "revoked"))
         /\ \A column, v : Cardinality(Having(column, v)) \in Nat
         /\ Cardinality(Rows) \in 0..MaxId
<1>1. ASSUME NEW column, NEW v PROVE Having(column, v) \in SUBSET Id
  BY DEF Having, Rows
<1>2. \A column, v : IsFiniteSet(Having(column, v)) /\ Cardinality(Having(column, v)) \in Nat
  BY <1>1, SubsetOfIds
<1>3. \A i \in Rows : targets[i]["source"] \in validSources /\ targets[i]["status"] \in validStatuses
  BY DEF Rows, Table, Target
<1>4. Cardinality(Rows) = Cardinality(Having("source", "customer"))
                        + Cardinality(Having("source", "program"))
  <2> DEFINE A == Having("source", "customer")
             B == Having("source", "program")
  <2>1. Rows = A \cup B /\ A \cap B = {}
    BY <1>3 DEF Having, validSources
  <2>2. IsFiniteSet(A) /\ IsFiniteSet(B)
    BY <1>2
  <2> HIDE DEF A, B
  <2>3. Cardinality(Rows) = Cardinality(A) + Cardinality(B)
    BY <2>1, <2>2, UnionCard
  <2> QED BY <2>3 DEF A, B
<1>5. Cardinality(Rows) = Cardinality(Having("status", "unverified"))
                        + Cardinality(Having("status", "verifying"))
                        + Cardinality(Having("status", "verified"))
                        + Cardinality(Having("status", "revoked"))
  <2> DEFINE A == Having("status", "unverified")
             B == Having("status", "verifying")
             C == Having("status", "verified")
             D == Having("status", "revoked")
  <2>1. /\ Rows = ((A \cup B) \cup C) \cup D
        /\ A \cap B = {} /\ (A \cup B) \cap C = {} /\ ((A \cup B) \cup C) \cap D = {}
    BY <1>3 DEF Having, validStatuses
  <2>2. IsFiniteSet(A) /\ IsFiniteSet(B) /\ IsFiniteSet(C) /\ IsFiniteSet(D)
    BY <1>2
  <2> HIDE DEF A, B, C, D
  <2>3. IsFiniteSet(A \cup B) /\ Cardinality(A \cup B) = Cardinality(A) + Cardinality(B)
    BY <2>1, <2>2, UnionCard
  <2>4. /\ IsFiniteSet((A \cup B) \cup C)
        /\ Cardinality((A \cup B) \cup C) = Cardinality(A \cup B) + Cardinality(C)
    BY <2>1, <2>2, <2>3, UnionCard
  <2>5. Cardinality(((A \cup B) \cup C) \cup D) = Cardinality((A \cup B) \cup C) + Cardinality(D)
    BY <2>1, <2>2, <2>4, UnionCard
  <2>6. Cardinality(Rows) = Cardinality(A) + Cardinality(B) + Cardinality(C) + Cardinality(D)
    BY <2>1, <2>3, <2>4, <2>5
  <2> QED BY <2>6 DEF A, B, C, D
<1>6. Cardinality(Rows) \in 0..MaxId
  <2>1. Rows \in SUBSET Id
    BY DEF Rows
  <2> QED BY <2>1, SubsetOfIds, BoundsAssumption
<1> QED BY <1>2, <1>4, <1>5, <1>6

LEMMA SumOfTwo ==
  ASSUME NEW f, NEW a, NEW b, a # b, f[a] \in Nat, f[b] \in Nat
  PROVE  SumFunctionOnSet(f, {a, b}) = f[a] + f[b]
<1>1. IsFiniteSet({a, b}) /\ IsFiniteSet({b}) /\ {a, b} \ {a} = {b} /\ {b} \ {b} = {}
  <2>1. {a, b} = {b} \cup {a}
    OBVIOUS
  <2>2. IsFiniteSet({b})
    BY FS_Singleton
  <2>3. IsFiniteSet({b} \cup {a})
    BY <2>2, FS_AddElement
  <2> QED BY <2>1, <2>2, <2>3
<1>2. SumFunctionOnSet(f, {a, b}) = f[a] + SumFunctionOnSet(f, {b})
  <2>1. a \in {a, b} /\ \A x \in {a, b} : f[x] \in Nat
    OBVIOUS
  <2>2. SumFunctionOnSet(f, {a, b}) = f[a] + SumFunctionOnSet(f, {a, b} \ {a})
    BY <1>1, <2>1, SumTakeOut
  <2> QED BY <1>1, <2>2
<1>3. SumFunctionOnSet(f, {b}) = f[b] + 0
  <2>1. b \in {b} /\ \A x \in {b} : f[x] \in Nat
    OBVIOUS
  <2>2. SumFunctionOnSet(f, {b}) = f[b] + SumFunctionOnSet(f, {b} \ {b})
    BY <1>1, <2>1, SumTakeOut
  <2> QED BY <1>1, <2>2, SumEmpty
<1> QED BY <1>2, <1>3

\* One number more.
LEMMA SumOfOneMore ==
  ASSUME NEW f, NEW S, IsFiniteSet(S), NEW a, a \notin S, \A x \in S \cup {a} : f[x] \in Nat
  PROVE  /\ IsFiniteSet(S \cup {a})
         /\ SumFunctionOnSet(f, S \cup {a}) = f[a] + SumFunctionOnSet(f, S)
<1> DEFINE T == S \cup {a}
<1>1. IsFiniteSet(T) /\ T \ {a} = S /\ a \in T /\ \A x \in T : f[x] \in Nat
  BY FS_AddElement
<1> HIDE DEF T
<1>2. SumFunctionOnSet(f, T) = f[a] + SumFunctionOnSet(f, T \ {a})
  BY <1>1, SumTakeOut
<1>3. IsFiniteSet(T) /\ SumFunctionOnSet(f, T) = f[a] + SumFunctionOnSet(f, S)
  BY <1>1, <1>2
<1> QED BY <1>3 DEF T

\* Both breakdowns add up to the number of rows of their moment.
LEMMA BreakdownsAddUp ==
  ASSUME targets \in Table
  PROVE  /\ SumFunction(CountBy("status", validStatuses)) = Cardinality(Rows)
         /\ SumFunction(CountBy("source", validSources)) = Cardinality(Rows)
         /\ CountBy("source", validSources) \in [validSources -> Nat]
<1> DEFINE s == CountBy("status", validStatuses)
           p == CountBy("source", validSources)
<1>1. /\ DOMAIN s = validStatuses /\ DOMAIN p = validSources
      /\ \A k \in validStatuses : s[k] = Cardinality(Having("status", k))
      /\ \A k \in validSources : p[k] = Cardinality(Having("source", k))
  BY DEF CountBy, Having
<1>2. SumFunction(s) = SumFunctionOnSet(s, validStatuses)
      /\ SumFunction(p) = SumFunctionOnSet(p, validSources)
  BY <1>1 DEF SumFunction
<1>3. p \in [validSources -> Nat]
  BY GroupsCover DEF CountBy, Having
<1> HIDE DEF s, p
<1>4. /\ \A k \in validStatuses : s[k] \in Nat
      /\ \A k \in validSources : p[k] \in Nat
  BY <1>1, GroupsCover
<1>5. SumFunctionOnSet(p, validSources) = Cardinality(Rows)
  <2>1. SumFunctionOnSet(p, {"customer", "program"}) = p["customer"] + p["program"]
    BY <1>4, SumOfTwo DEF validSources
  <2> QED BY <1>1, <2>1, GroupsCover DEF validSources
<1>6. SumFunctionOnSet(s, validStatuses) = Cardinality(Rows)
  <2> DEFINE A == {"verified", "revoked"}
             B == A \cup {"verifying"}
             C == B \cup {"unverified"}
  <2>1. C = validStatuses /\ "verifying" \notin A /\ "unverified" \notin B
        /\ A \subseteq validStatuses /\ B \subseteq validStatuses
    BY DEF validStatuses
  <2>2. SumFunctionOnSet(s, A) = s["verified"] + s["revoked"] /\ IsFiniteSet(A)
    <3>1. SumFunctionOnSet(s, A) = s["verified"] + s["revoked"]
      BY <1>4, SumOfTwo DEF validStatuses
    <3>2. A = {"verified"} \cup {"revoked"}
      OBVIOUS
    <3>3. IsFiniteSet({"verified"})
      BY FS_Singleton
    <3> QED BY <3>1, <3>2, <3>3, FS_AddElement
  <2> HIDE DEF A
  <2>3. SumFunctionOnSet(s, B) = s["verifying"] + SumFunctionOnSet(s, A) /\ IsFiniteSet(B)
    BY <1>4, <2>1, <2>2, SumOfOneMore
  <2> HIDE DEF B
  <2>4. SumFunctionOnSet(s, C) = s["unverified"] + SumFunctionOnSet(s, B)
    BY <1>4, <2>1, <2>3, SumOfOneMore
  <2> HIDE DEF C
  <2>5. SumFunctionOnSet(s, validStatuses) =
          s["unverified"] + (s["verifying"] + (s["verified"] + s["revoked"]))
    BY <2>1, <2>2, <2>3, <2>4
  <2>6. /\ s["unverified"] = Cardinality(Having("status", "unverified"))
        /\ s["verifying"] = Cardinality(Having("status", "verifying"))
        /\ s["verified"] = Cardinality(Having("status", "verified"))
        /\ s["revoked"] = Cardinality(Having("status", "revoked"))
    BY <1>1 DEF validStatuses
  <2> QED BY <2>5, <2>6, GroupsCover
<1> QED BY <1>2, <1>3, <1>5, <1>6 DEF s, p

LEMMA StatsByStatusStep ==
  ASSUME RegistryInv, StatsByStatus
  PROVE  RegistryInv'
<1> DEFINE total == SumFunction(CountBy("status", validStatuses))
           r     == [query EXCEPT !.at = "stats", !.total = total]
<1>1. HistoryInv /\ RowsInv /\ targets \in Table /\ query \in Query
  BY TwoParts DEF HistoryInv
<1>2. query.at = "idle" /\ query' = r /\ UNCHANGED <<targets, taken, moves, seen, due, came, left>>
  BY DEF StatsByStatus
<1>3. query = Idle /\ came = 0 /\ left = 0
  BY <1>1, <1>2 DEF HistoryInv, FreshInv
<1>4. total = Cardinality(Rows) /\ total \in 0..MaxId
  BY <1>1, BreakdownsAddUp, GroupsCover
<1> HIDE DEF total
<1>5. /\ r \in Query /\ r.at = "stats" /\ r.total = total /\ r.user_id = NULL
      /\ r.status = NULL /\ r.source = NULL /\ r.by_source = <<>>
  BY <1>1, <1>3, <1>4 DEF Query, Idle
<1> HIDE DEF r
<1>6. StatsInv'
  <2>1. Rows' = Rows
    BY <1>2 DEF Rows
  <2>2. total + 0 = Cardinality(Rows) + 0
    BY <1>4
  <2> QED BY <1>2, <1>3, <1>5, <2>1, <2>2 DEF StatsInv
<1>7. FreshInv' /\ WalkInv' /\ WalkIsAccountedFor' /\ NumbersAddUp'
  BY <1>2, <1>5 DEF FreshInv, WalkInv, WalkIsAccountedFor, NumbersAddUp
<1> QED BY <1>1, <1>2, <1>5, <1>6, <1>7, RowsKept, TwoParts DEF HistoryInv

\* Between the two breakdowns the rows that came and left are counted, and nothing else.
LEMMA StatsBySourceStep ==
  ASSUME RegistryInv, StatsBySource
  PROVE  RegistryInv'
<1> DEFINE by_source == CountBy("source", validSources)
           r == [query EXCEPT !.at = "done", !.by_source = by_source]
<1>1. HistoryInv /\ RowsInv /\ targets \in Table /\ query \in Query
  BY TwoParts DEF HistoryInv
<1>2. query.at = "stats" /\ query' = r /\ UNCHANGED <<targets, taken, moves, seen, due, came, left>>
  BY DEF StatsBySource
<1>3. query.total + came = Cardinality(Rows) + left
  BY <1>1, <1>2 DEF HistoryInv, StatsInv
<1>4. by_source \in [validSources -> Nat] /\ SumFunction(by_source) = Cardinality(Rows)
  BY <1>1, BreakdownsAddUp
<1> HIDE DEF by_source
<1>5. by_source # <<>>
  <2>1. DOMAIN by_source # DOMAIN <<>>
    BY <1>4 DEF validSources
  <2> QED BY <2>1
<1>6. r \in Query /\ r.at = "done" /\ r.total = query.total /\ r.by_source = by_source
  BY <1>1, <1>4 DEF Query
<1> HIDE DEF r
<1>7. NumbersAddUp'
  BY <1>2, <1>3, <1>4, <1>6 DEF NumbersAddUp
<1>8. FreshInv' /\ WalkInv' /\ StatsInv' /\ WalkIsAccountedFor'
  BY <1>2, <1>5, <1>6 DEF FreshInv, WalkInv, StatsInv, WalkIsAccountedFor
<1> QED BY <1>1, <1>2, <1>6, <1>7, <1>8, RowsKept, TwoParts DEF HistoryInv

--------------------------------------------------------------------------------
(* The registry: the theorems *)

LEMMA RegistryInitial == Init => RegistryInv
<1>1. SUFFICES ASSUME Init PROVE RegistryInv
  OBVIOUS
<1>2. /\ targets = [i \in Id |-> NULL] /\ taken = {} /\ moves = 0 /\ query = Idle
      /\ seen = [i \in Id |-> 0] /\ due = {} /\ came = 0 /\ left = 0
  BY <1>1 DEF Init
<1>3. Rows = {}
  BY <1>2 DEF Rows
<1>4. query \in Query /\ query.at = "idle" /\ query.by_source = <<>>
  <2>1. /\ DefaultSize \in 1..MaxSize /\ 1 \in Nat \ {0} /\ 0 \in 0..MaxId
    BY SizeAssumption, BoundsAssumption
  <2>2. Idle \in Query
    BY <2>1 DEF Query, Idle
  <2> QED BY <1>2, <2>2 DEF Idle
<1>5. RowsInv
  BY <1>2, <1>3, BoundsAssumption DEF RowsInv, TidyInv, OneRowPerValue, UIDBelongsToOwner
<1>6. HistoryInv
  <2>1. /\ targets \in Table /\ seen \in [Id -> Nat] /\ due \in SUBSET Id
        /\ came \in Nat /\ left \in Nat
    BY <1>2 DEF Table
  <2>2. FreshInv
    BY <1>2 DEF FreshInv, Idle
  <2>3. WalkInv /\ StatsInv /\ WalkIsAccountedFor /\ NumbersAddUp
    BY <1>4 DEF WalkInv, StatsInv, WalkIsAccountedFor, NumbersAddUp
  <2> QED BY <1>4, <2>1, <2>2, <2>3 DEF HistoryInv
<1> QED BY <1>5, <1>6, TwoParts

LEMMA RegistryStep == RegistryInv /\ [Next]_vars => RegistryInv'
<1>1. SUFFICES ASSUME RegistryInv, [Next]_vars PROVE RegistryInv'
  OBVIOUS
<1>2. CASE Writer
  <2>1. ASSUME NEW u \in User, NEW sub \in Sub \cup {NULL}, NEW kind \in Kind, NEW raw \in Raw,
               Create(u, sub, kind, raw)
        PROVE  RegistryInv'
    BY <1>1, <2>1, CreateStep
  <2>2. ASSUME NEW u \in User, NEW sub \in Sub \cup {NULL}, NEW kind \in Kind, NEW raw \in Raw,
               NEW user_id \in User \cup {NULL}, CreateProgram(u, sub, user_id, kind, raw)
        PROVE  RegistryInv'
    BY <1>1, <2>2, CreateProgramStep
  <2>3. ASSUME NEW i \in Id, Delete(i) PROVE RegistryInv'
    BY <1>1, <2>3, DeleteStep
  <2>4. ASSUME NEW i \in Id, NEW status \in validStatuses, UpdateStatus(i, status)
        PROVE  RegistryInv'
    BY <1>1, <2>4, UpdateStep
  <2> QED BY <1>2, <2>1, <2>2, <2>3, <2>4 DEF Writer
<1>3. CASE Reader
  BY <1>1, <1>3, ListStep, ReadStep, AnswerStep, StatsByStatusStep, StatsBySourceStep DEF Reader
<1>4. CASE UNCHANGED vars
  <2>1. /\ UNCHANGED <<targets, taken, moves>>
        /\ UNCHANGED <<query, seen, due, came, left>>
    BY <1>4 DEF vars
  <2>2. Lists' = Lists /\ Rows' = Rows /\ \A i : Place(i)' = Place(i)
    BY <2>1 DEF Lists, Rows, Place
  <2>3. Reached' = Reached /\ (AtEnd' <=> AtEnd)
    BY <2>1 DEF Reached, AtEnd
  <2>4. Missed' = Missed /\ Gone' = Gone /\ \A n : Repeat(n)' = Repeat(n)
    BY <2>1, <2>2, <2>3 DEF Missed, Gone, Repeat
  <2>5. HistoryInv => HistoryInv'
    BY <2>1, <2>2, <2>4
       DEF HistoryInv, FreshInv, WalkInv, StatsInv, WalkIsAccountedFor, NumbersAddUp
  <2> QED BY <1>1, <2>1, <2>5, RowsKept, TwoParts
<1> QED BY <1>1, <1>2, <1>3, <1>4 DEF Next

\* The inductive invariant of the registry: whatever is written while somebody reads.
THEOREM RegistryInvariant == Spec => []RegistryInv
BY RegistryInitial, RegistryStep, PTL DEF Spec

\* TypeOK of TargetRegistry: no row of a kind that is switched off, no page larger than
\* allowed, no total larger than the table.
THEOREM RegistryTypeCorrect == Spec => []TypeOK
<1>1. RegistryInv => TypeOK
  BY DEF RegistryInv
<1> QED BY <1>1, RegistryInvariant, PTL

\* OneRowPerValue: an owner has a value once, however it was written and whichever of the
\* two routes each of the requests took.
THEOREM NeverTwoRows == Spec => []OneRowPerValue
<1>1. RegistryInv => OneRowPerValue
  BY DEF RegistryInv
<1> QED BY <1>1, RegistryInvariant, PTL

\* UIDBelongsToOwner: the UUID on a row derives the row's owner.
THEOREM UIDIsTheOwners == Spec => []UIDBelongsToOwner
<1>1. RegistryInv => UIDBelongsToOwner
  BY DEF RegistryInv
<1> QED BY <1>1, RegistryInvariant, PTL

\* WalkIsAccountedFor: for lists of any length, pages of any size and any number of writes
\* between two pages, the rows that a walk misses, and those it meets again, are no more
\* than the rows that left the list, and those that entered it.
THEOREM WalksAreAccountedFor == Spec => []WalkIsAccountedFor
<1>1. RegistryInv => WalkIsAccountedFor
  BY DEF RegistryInv
<1> QED BY <1>1, RegistryInvariant, PTL

\* NumbersAddUp: the two breakdowns of the statistics differ by what was written between
\* them and by nothing else.
THEOREM StatisticsAddUp == Spec => []NumbersAddUp
<1>1. RegistryInv => NumbersAddUp
  BY DEF RegistryInv
<1> QED BY <1>1, RegistryInvariant, PTL
================================================================================
