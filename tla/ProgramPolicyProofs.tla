-------------------------- MODULE ProgramPolicyProofs --------------------------
(***************************************************************************)
(* For every set of hosts, sequence of editions, number of overlapping     *)
(* syncs and checks, and value of the bounds: what a check allows is       *)
(* justified by the syncs that committed, the store is always one sync's   *)
(* although their transactions overlap, and an undisturbed fetch stores    *)
(* the whole listing.                                                      *)
(***************************************************************************)
EXTENDS ProgramPolicy, TLAPS

--------------------------------------------------------------------------------
(* The inductive invariant *)

\* What a check has read is what the log held when it read it.
CheckOK(k) ==
  /\ k.step = "assets" =>
       k.since \in 1..Len(log) /\ k.row = {log[k.since].row}
  /\ k.step = "answered" => \A q \in k.allows :
       /\ k.since \in 1..Len(log) /\ k.until \in k.since .. Len(log)
       /\ TermsAllow(log[k.since].row, q[2], k.at)
       /\ AssetsAllow(log[k.until].assets, q[1])

Pages(e, n) == UNION {Edition[e][k] : k \in {j \in DOMAIN Edition[e] : j < n}}

AfterFetch == {"begin", "upsert", "delete", "commit"}

\* How far a fetch has come in an edition the platform has not left; and a transaction
\* holds the program's row from the upsert on, and has deleted all there is.
SyncOK(s) ==
  /\ s.first <= edition
  /\ s.step = "fetch" /\ s.first = edition =>
       /\ s.got = Pages(s.first, s.page)
       /\ s.page = 1 \/ s.page <= Len(Edition[s.first])
  /\ s.step \in AfterFetch /\ s.first = s.last /\ Readable(s.first) =>
       s.got = Whole(s.first)
  /\ s.row # {} <=> s.step \in {"delete", "commit"}
  /\ s.step = "commit" => s.gone = assets

\* One transaction at a time holds the row.
OneHolder ==
  \A a, b \in Admin : sync[a].row # {} /\ sync[b].row # {} => a = b

IInv ==
  /\ TypeOK
  /\ StoreIsOnePolicy
  /\ \A c \in Check : CheckOK(check[c])
  /\ \A a \in Admin : SyncOK(sync[a])
  /\ OneHolder
  /\ SyncStoresWholeListing

\* The sets the types are made of.
CheckRec == [step : {"idle", "assets", "answered"},
             row : {{}} \cup {{p} : p \in Row}, allows : SUBSET Question,
             since : 0..MaxSyncs, until : 0..MaxSyncs, at : 0..MaxTime]
SyncRec  == [step : {"idle", "fetch"} \cup AfterFetch, page : Page,
             got : SUBSET Asset, began : 0..MaxTime,
             row : {{}} \cup {{p} : p \in Row}, gone : SUBSET Asset,
             first : DOMAIN Edition, last : DOMAIN Edition]

--------------------------------------------------------------------------------
(* Lemmas *)

\* An idle sync and an idle check are of their types and claim nothing.
LEMMA IdleOK ==
  ASSUME IInv
  PROVE  /\ SyncIdle \in SyncRec /\ SyncOK(SyncIdle)
         /\ CheckIdle \in CheckRec /\ CheckOK(CheckIdle)
<1>1. edition >= 1 /\ edition \in Nat /\ 1 \in DOMAIN Edition
  BY EditionAssumption DEF IInv, TypeOK
<1>2. SyncIdle \in SyncRec /\ SyncOK(SyncIdle)
  BY <1>1, BoundAssumption DEF SyncIdle, SyncRec, SyncOK, AfterFetch, Page
<1>3. CheckIdle \in CheckRec /\ CheckOK(CheckIdle)
  BY BoundAssumption DEF CheckIdle, CheckRec, CheckOK
<1> QED BY <1>2, <1>3

\* A step of one check leaves the rest of the invariant to that check's record.
LEMMA CheckStep ==
  ASSUME IInv, NEW c \in Check, NEW k \in CheckRec, CheckOK(k),
         check' = [check EXCEPT ![c] = k],
         UNCHANGED <<edition, program, assets, sync, now, log>>
  PROVE  IInv'
<1> USE DEF IInv
<1>1. TypeOK'
  BY DEF TypeOK, CheckRec
<1>2. StoreIsOnePolicy' /\ SyncStoresWholeListing'
  BY DEF StoreIsOnePolicy, SyncStoresWholeListing
<1>3. (\A a \in Admin : SyncOK(sync[a])') /\ OneHolder'
  BY DEF SyncOK, OneHolder
<1>4. ASSUME NEW d \in Check PROVE CheckOK(check[d])'
  <2>1. check'[d] = IF d = c THEN k ELSE check[d]
    BY DEF TypeOK
  <2>2. CheckOK(check'[d])
    BY <2>1
  <2> QED BY <2>2 DEF CheckOK
<1> QED BY <1>1, <1>2, <1>3, <1>4

\* The same for a step of one sync request that stores nothing, and takes the row only
\* when it is free.
LEMMA SyncStep ==
  ASSUME IInv, NEW a \in Admin, NEW s \in SyncRec, SyncOK(s),
         s.row = {} \/ sync[a].row # {} \/ RowFree(a),
         sync' = [sync EXCEPT ![a] = s],
         UNCHANGED <<edition, program, assets, check, now, log>>
  PROVE  IInv'
<1> USE DEF IInv
<1>1. TypeOK'
  BY DEF TypeOK, SyncRec, AfterFetch
<1>2. StoreIsOnePolicy' /\ SyncStoresWholeListing'
  BY DEF StoreIsOnePolicy, SyncStoresWholeListing
<1>3. \A c \in Check : CheckOK(check[c])'
  BY DEF CheckOK
<1>4. ASSUME NEW b \in Admin PROVE SyncOK(sync[b])'
  <2>1. sync'[b] = IF b = a THEN s ELSE sync[b]
    BY DEF TypeOK
  <2>2. SyncOK(sync'[b])
    BY <2>1
  <2> QED BY <2>2 DEF SyncOK
<1>5. OneHolder'
  <2>1. \A b \in Admin : sync'[b] = IF b = a THEN s ELSE sync[b]
    BY DEF TypeOK
  <2> QED BY <2>1 DEF OneHolder, RowFree
<1> QED BY <1>1, <1>2, <1>3, <1>4, <1>5

--------------------------------------------------------------------------------
(* Steps of a check *)

LEMMA CheckSteps ==
  ASSUME IInv, NEW c \in Check, ReadProgram(c) \/ ReadAssets(c) \/ Answer(c)
  PROVE  IInv'
<1> USE DEF IInv
<1>0. check[c] \in CheckRec /\ now \in 0..MaxTime /\ Len(log) \in 0..MaxSyncs
  BY DEF TypeOK, CheckRec
<1>1. CASE ReadProgram(c)
  <2> DEFINE k == [CheckIdle EXCEPT !.step = "assets", !.row = program, !.since = Len(log)]
  <2>1. k \in CheckRec
    BY <1>0, IdleOK DEF TypeOK, CheckRec, CheckIdle
  <2>2. CheckOK(k)
    BY <1>0, <1>1 DEF ReadProgram, CheckOK, CheckIdle, StoreIsOnePolicy, TypeOK
  <2> HIDE DEF k
  <2>3. check' = [check EXCEPT ![c] = k] /\ UNCHANGED <<edition, program, assets, sync, now, log>>
    BY <1>1 DEF ReadProgram, k
  <2> QED BY <2>1, <2>2, <2>3, CheckStep
<1>2. CASE ReadAssets(c)
  <2> DEFINE al == {q \in Question : \E p \in check[c].row : ProgramVerdict(p, assets, q, now)}
             k  == [check[c] EXCEPT !.step = "answered", !.allows = al,
                                    !.until = Len(log), !.at = now]
  <2>1. k \in CheckRec
    BY <1>0 DEF CheckRec
  <2>2. check[c].since \in 1..Len(log) /\ check[c].row = {log[check[c].since].row}
    BY <1>2 DEF ReadAssets, CheckOK
  <2>3. assets = log[Len(log)].assets
    BY <2>2, <1>0 DEF StoreIsOnePolicy, TypeOK
  <2>4. CheckOK(k)
    <3>1. /\ k.step = "answered" /\ k.since = check[c].since /\ k.until = Len(log)
          /\ k.at = now /\ k.allows = al
      BY <1>0 DEF CheckRec
    <3>2. ASSUME NEW q \in al
          PROVE /\ TermsAllow(log[check[c].since].row, q[2], now)
                /\ AssetsAllow(log[Len(log)].assets, q[1])
      BY <2>2, <2>3 DEF ProgramVerdict
    <3>3. check[c].since \in 1..Len(log) /\ Len(log) \in check[c].since .. Len(log)
      BY <2>2, <1>0
    <3> QED BY <3>1, <3>2, <3>3 DEF CheckOK
  <2> HIDE DEF k
  <2>5. check' = [check EXCEPT ![c] = k] /\ UNCHANGED <<edition, program, assets, sync, now, log>>
    BY <1>2 DEF ReadAssets, k
  <2> QED BY <2>1, <2>4, <2>5, CheckStep
<1>3. CASE Answer(c)
  BY <1>3, IdleOK, CheckStep DEF Answer
<1> QED BY <1>1, <1>2, <1>3

--------------------------------------------------------------------------------
(* Steps of a sync *)

\* A page read while the edition stands extends the pages read before it.
LEMMA NextPage ==
  ASSUME NEW e \in DOMAIN Edition, NEW n \in Nat
  PROVE  Pages(e, n + 1) =
           Pages(e, n) \cup (IF n \in DOMAIN Edition[e] THEN Edition[e][n] ELSE {})
<1>1. DOMAIN Edition[e] \subseteq Nat
  BY EditionAssumption
<1>2. {j \in DOMAIN Edition[e] : j < n + 1} =
        {j \in DOMAIN Edition[e] : j < n} \cup (DOMAIN Edition[e] \cap {n})
  BY <1>1
<1> QED BY <1>2 DEF Pages

\* The pages read are all of a listing they reach the end of.
LEMMA LastPage ==
  ASSUME NEW e \in DOMAIN Edition, NEW n \in Nat, n >= Len(Edition[e])
  PROVE  Pages(e, n + 1) = Whole(e)
<1>1. DOMAIN Edition[e] = 1..Len(Edition[e]) /\ Len(Edition[e]) \in Nat
  BY EditionAssumption
<1>2. {j \in DOMAIN Edition[e] : j < n + 1} = DOMAIN Edition[e]
  BY <1>1
<1> QED BY <1>2 DEF Pages, Whole

LEMMA FetchOK ==
  ASSUME IInv, NEW a \in Admin, FetchPage(a)
  PROVE  IInv'
<1> USE DEF IInv
<1> DEFINE n == sync[a].page
           g == sync[a].got \cup PageOf(n)
           s == Fetched(sync[a])
<1>1. sync[a] \in SyncRec /\ edition \in DOMAIN Edition /\ n \in 1..PageCap
  BY DEF TypeOK, SyncRec, AfterFetch, Page
<1>2. g \in SUBSET Asset /\ Len(Edition[edition]) \in Nat
  BY <1>1, EditionAssumption DEF SyncRec, PageOf
<1>3. /\ s.step = IF IsLastPage(n) THEN "begin" ELSE "fetch"
      /\ s.page = IF IsLastPage(n) THEN n ELSE n + 1
      /\ s.got = g /\ s.first = sync[a].first /\ s.last = edition /\ s.row = sync[a].row
  BY <1>1 DEF SyncRec, Fetched
<1>4. s \in SyncRec
  <2>1. s.step \in {"begin", "fetch"} /\ s.page \in Page
    BY <1>1, <1>2, <1>3, BoundAssumption DEF IsLastPage, Page
  <2> QED BY <1>1, <1>2, <1>3, <2>1 DEF SyncRec, AfterFetch, Fetched
<1>5. sync[a].first <= edition /\ sync[a].step = "fetch" /\ sync[a].row = {}
  BY DEF SyncOK, FetchPage
<1>6. ASSUME sync[a].first = edition PROVE g = Pages(edition, n + 1)
  <2>1. sync[a].got = Pages(edition, n)
    BY <1>5, <1>6 DEF SyncOK
  <2> QED BY <1>1, <2>1, NextPage DEF PageOf
<1>7. SyncOK(s)
  <2>1. ASSUME s.step = "fetch", s.first = edition
        PROVE  s.got = Pages(s.first, s.page) /\ s.page <= Len(Edition[s.first])
    <3>1. ~IsLastPage(n)
      BY <1>3, <2>1
    <3> QED BY <1>1, <1>2, <1>3, <1>6, <2>1, <3>1 DEF IsLastPage
  <2>2. ASSUME s.step = "begin", s.first = s.last, Readable(s.first)
        PROVE  s.got = Whole(s.first)
    <3>1. IsLastPage(n) /\ sync[a].first = edition
      BY <1>3, <2>2
    <3>2. Len(Edition[edition]) <= PageCap /\ \A i \in DOMAIN Edition[edition] : Edition[edition][i] # {}
      BY <1>3, <2>2, <3>1 DEF Readable
    <3>3. PageOf(n) = {} => n >= Len(Edition[edition])
      <4>1. DOMAIN Edition[edition] = 1..Len(Edition[edition])
        BY <1>1, EditionAssumption
      <4> QED BY <1>1, <1>2, <3>2, <4>1, BoundAssumption DEF PageOf
    <3>4. n >= Len(Edition[edition])
      BY <1>1, <1>2, <3>1, <3>2, <3>3, BoundAssumption DEF IsLastPage
    <3> QED BY <1>1, <1>3, <1>6, <3>1, <3>4, LastPage
  <2>3. s.row = {} /\ s.step \in {"begin", "fetch"}
    BY <1>3, <1>5
  <2> QED BY <1>3, <1>5, <2>1, <2>2, <2>3 DEF SyncOK, AfterFetch
<1> HIDE DEF s
<1>8. sync' = [sync EXCEPT ![a] = s] /\ UNCHANGED <<edition, program, assets, check, now, log>>
  BY DEF FetchPage, s
<1>9. s.row = {}
  BY <1>3, <1>5 DEF s
<1> QED BY <1>4, <1>7, <1>8, <1>9, SyncStep

LEMMA CommitOK ==
  ASSUME IInv, NEW a \in Admin, CommitSync(a)
  PROVE  IInv'
<1> USE DEF IInv
<1>1. sync[a] \in SyncRec /\ Len(log) \in 0..MaxSyncs /\ log \in Seq(Policy) /\ Len(log) < MaxSyncs
  BY DEF TypeOK, SyncRec, AfterFetch, CommitSync
<1>2. sync[a].row # {} /\ sync[a].gone = assets
  BY DEF SyncOK, CommitSync
<1>3. PICK row \in Row : sync[a].row = {row}
  BY <1>1, <1>2 DEF SyncRec
<1> DEFINE p == [row |-> row, assets |-> sync[a].got,
                 first |-> sync[a].first, last |-> sync[a].last]
<1>4. /\ p \in Policy
      /\ p.row = row /\ p.assets = sync[a].got /\ p.first = sync[a].first /\ p.last = sync[a].last
      /\ program' = {row} /\ log' = Append(log, p)
      /\ assets' = sync[a].got
      /\ sync' = [sync EXCEPT ![a] = SyncIdle]
      /\ UNCHANGED <<edition, check, now>>
  BY <1>1, <1>2, <1>3 DEF CommitSync, SyncRec, Policy
<1> HIDE DEF p
<1>5. /\ log' \in Seq(Policy) /\ Len(log') = Len(log) + 1
      /\ log'[Len(log) + 1] = p
      /\ \A k \in 1..Len(log) : log'[k] = log[k]
  BY <1>1, <1>4
<1>6. TypeOK'
  <2>1. sync' \in [Admin -> SyncRec]
    BY <1>4, IdleOK DEF TypeOK, SyncRec, AfterFetch
  <2>2. Len(log') <= MaxSyncs
    BY <1>1, <1>5, BoundAssumption
  <2>3. assets' \in SUBSET Asset
    BY <1>1, <1>4 DEF SyncRec
  <2> QED BY <1>3, <1>4, <1>5, <2>1, <2>2, <2>3 DEF TypeOK, SyncRec, AfterFetch
<1>7. StoreIsOnePolicy'
  <2>1. log' # <<>> /\ program' = {log'[Len(log')].row} /\ assets' = log'[Len(log')].assets
    BY <1>1, <1>4, <1>5
  <2> QED BY <2>1 DEF StoreIsOnePolicy
<1>8. ASSUME NEW c \in Check PROVE CheckOK(check[c])'
  <2>1. CheckOK(check[c]) /\ check'[c] = check[c]
    BY <1>4
  <2>2. \A i, j : i \in 1..Len(log) /\ j \in i..Len(log) =>
          /\ i \in 1..Len(log') /\ j \in i..Len(log')
          /\ log'[i] = log[i] /\ log'[j] = log[j]
    BY <1>1, <1>5
  <2>3. \A i : i \in 1..Len(log) => i \in 1..Len(log') /\ log'[i] = log[i]
    BY <1>1, <1>5
  <2> QED BY <2>1, <2>2, <2>3 DEF CheckOK
<1>9. ASSUME NEW b \in Admin PROVE SyncOK(sync[b])'
  <2>1. sync'[b] = IF b = a THEN SyncIdle ELSE sync[b]
    BY <1>4 DEF TypeOK
  <2>2. b # a => sync[b].row = {}
    BY <1>2 DEF OneHolder
  <2>3. CASE b = a
    BY <1>4, <2>1, <2>3, IdleOK DEF SyncOK, SyncIdle
  <2>4. CASE b # a
    <3>1. SyncOK(sync[b]) /\ sync[b].step # "commit"
      BY <2>2, <2>4 DEF SyncOK
    <3> QED BY <1>4, <2>1, <2>4, <3>1 DEF SyncOK
  <2> QED BY <2>3, <2>4
<1>10. OneHolder'
  <2>1. \A b \in Admin : sync'[b] = IF b = a THEN SyncIdle ELSE sync[b]
    BY <1>4 DEF TypeOK
  <2> QED BY <2>1 DEF OneHolder, SyncIdle
<1>11. SyncStoresWholeListing'
  <2> SUFFICES ASSUME NEW k \in 1..Len(log'), log'[k].first = log'[k].last,
                      Readable(log'[k].first)
               PROVE  log'[k].assets = Whole(log'[k].first)
    BY <1>5 DEF SyncStoresWholeListing
  <2>1. CASE k \in 1..Len(log)
    BY <1>1, <1>5, <2>1 DEF SyncStoresWholeListing
  <2>2. CASE k = Len(log) + 1
    <3>1. sync[a].step = "commit" /\ SyncOK(sync[a])
      BY DEF CommitSync
    <3> QED BY <1>4, <1>5, <2>2, <3>1 DEF SyncOK, AfterFetch
  <2> QED BY <1>1, <1>5, <2>1, <2>2
<1> QED BY <1>6, <1>7, <1>8, <1>9, <1>10, <1>11

LEMMA SyncSteps ==
  ASSUME IInv, NEW a \in Admin,
         \/ SyncProgram(a) \/ BeginSync(a) \/ UpsertProgram(a) \/ DeleteAssets(a)
         \/ SyncFails(a)
  PROVE  IInv'
<1> USE DEF IInv
<1>0. /\ sync[a] \in SyncRec /\ now \in 0..MaxTime /\ edition \in DOMAIN Edition
      /\ SyncOK(sync[a]) /\ assets \in SUBSET Asset
  BY DEF TypeOK, SyncRec, AfterFetch
<1>1. CASE SyncProgram(a)
  <2> DEFINE s == [SyncIdle EXCEPT !.step = "fetch", !.first = edition]
  <2>1. s \in SyncRec /\ s.row = {}
    BY <1>0, IdleOK DEF SyncRec, SyncIdle
  <2>2. SyncOK(s)
    <3>1. Pages(edition, 1) = {} /\ edition <= edition
      BY <1>0, EditionAssumption DEF Pages
    <3> QED BY <3>1 DEF SyncOK, SyncIdle, AfterFetch
  <2> HIDE DEF s
  <2>3. sync' = [sync EXCEPT ![a] = s] /\ UNCHANGED <<edition, program, assets, check, now, log>>
    BY <1>1 DEF SyncProgram, s
  <2> QED BY <2>1, <2>2, <2>3, SyncStep
<1>2. CASE BeginSync(a)
  <2> DEFINE s == [sync[a] EXCEPT !.step = "upsert", !.began = now]
  <2>1. s \in SyncRec
    BY <1>0 DEF SyncRec, AfterFetch
  <2>2. SyncOK(s) /\ s.row = {}
    BY <1>0, <1>2 DEF SyncOK, SyncRec, AfterFetch, BeginSync
  <2>3. sync' = [sync EXCEPT ![a] = s] /\ UNCHANGED <<edition, program, assets, check, now, log>>
    BY <1>2 DEF BeginSync, Statement, TypeOK
  <2> HIDE DEF s
  <2> QED BY <2>1, <2>2, <2>3, SyncStep
<1>3. CASE UpsertProgram(a)
  <2>1. PICK terms \in Term :
          sync' = [sync EXCEPT ![a].step = "delete",
                               ![a].row = {[terms |-> terms, at |-> sync[a].began]}]
    BY <1>3 DEF UpsertProgram, Statement
  <2> DEFINE row == [terms |-> terms, at |-> sync[a].began]
  <2>2. row \in Row
    BY <1>0 DEF SyncRec, Row
  <2> DEFINE one == {row}
  <2>3. one \in {{}} \cup {{p} : p \in Row} /\ one # {}
    BY <2>2
  <2>4. sync' = [sync EXCEPT ![a].step = "delete", ![a].row = one]
    BY <2>1
  <2> HIDE DEF row, one
  <2> DEFINE s == [sync[a] EXCEPT !.step = "delete", !.row = one]
  <2>5. s \in SyncRec
    BY <1>0, <2>3 DEF SyncRec, AfterFetch
  <2>6. SyncOK(s)
    BY <1>0, <1>3, <2>3 DEF SyncOK, SyncRec, AfterFetch, UpsertProgram
  <2>7. sync' = [sync EXCEPT ![a] = s] /\ UNCHANGED <<edition, program, assets, check, now, log>>
    BY <1>3, <2>4 DEF UpsertProgram, TypeOK
  <2> HIDE DEF s
  <2> QED BY <1>3, <2>5, <2>6, <2>7, SyncStep DEF UpsertProgram
<1>4. CASE DeleteAssets(a)
  <2> DEFINE s == [sync[a] EXCEPT !.step = "commit", !.gone = assets]
  <2>1. s \in SyncRec
    BY <1>0 DEF SyncRec, AfterFetch
  <2>2. SyncOK(s) /\ sync[a].row # {}
    BY <1>0, <1>4 DEF SyncOK, SyncRec, AfterFetch, DeleteAssets
  <2>3. sync' = [sync EXCEPT ![a] = s] /\ UNCHANGED <<edition, program, assets, check, now, log>>
    BY <1>4 DEF DeleteAssets, Statement, TypeOK
  <2> HIDE DEF s
  <2> QED BY <2>1, <2>2, <2>3, SyncStep
<1>5. CASE SyncFails(a)
  <2>1. SyncIdle.row = {}
    BY DEF SyncIdle
  <2> QED BY <1>5, <2>1, IdleOK, SyncStep DEF SyncFails
<1> QED BY <1>1, <1>2, <1>3, <1>4, <1>5

\* The platform moves on: a fetch under way can no longer claim one edition.
LEMMA PublishOK ==
  ASSUME IInv, Publish
  PROVE  IInv'
<1> USE DEF IInv
<1>1. edition \in Nat /\ edition' = edition + 1 /\ edition' \in DOMAIN Edition
  BY EditionAssumption DEF TypeOK, Publish
<1>2. UNCHANGED <<program, assets, sync, check, now, log>>
  BY DEF Publish
<1>3. TypeOK'
  BY <1>1, <1>2 DEF TypeOK
<1>4. /\ StoreIsOnePolicy' /\ SyncStoresWholeListing' /\ OneHolder'
      /\ \A c \in Check : CheckOK(check[c])'
  BY <1>2 DEF StoreIsOnePolicy, SyncStoresWholeListing, OneHolder, CheckOK
<1>5. ASSUME NEW a \in Admin PROVE SyncOK(sync[a])'
  <2>1. sync[a].first \in Nat /\ sync[a].first <= edition
    BY EditionAssumption DEF TypeOK, SyncOK
  <2>2. sync[a].first <= edition' /\ sync[a].first # edition'
    BY <1>1, <2>1
  <2> QED BY <1>2, <2>2 DEF SyncOK
<1> QED BY <1>3, <1>4, <1>5

LEMMA TickOK ==
  ASSUME IInv, Tick
  PROVE  IInv'
<1> USE DEF IInv
<1>1. TypeOK'
  <2>1. now' \in 0..MaxTime /\ UNCHANGED <<edition, program, assets, sync, check, log>>
    BY BoundAssumption DEF TypeOK, Tick
  <2> QED BY <2>1 DEF TypeOK
<1>2. StoreIsOnePolicy' /\ SyncStoresWholeListing' /\ OneHolder'
  BY DEF StoreIsOnePolicy, SyncStoresWholeListing, OneHolder, Tick
<1>3. (\A c \in Check : CheckOK(check[c])') /\ (\A a \in Admin : SyncOK(sync[a])')
  BY DEF CheckOK, SyncOK, Tick
<1> QED BY <1>1, <1>2, <1>3

--------------------------------------------------------------------------------
(* The theorems *)

LEMMA InitOK == Init => IInv
<1> SUFFICES ASSUME Init PROVE IInv
  OBVIOUS
<1>1. 1 \in DOMAIN Edition
  BY EditionAssumption
<1>2. TypeOK
  <2>1. SyncIdle \in SyncRec /\ CheckIdle \in CheckRec
    BY <1>1, BoundAssumption DEF SyncIdle, SyncRec, CheckIdle, CheckRec, Page
  <2>2. <<>> \in Seq(Policy) /\ Len(<<>>) <= MaxSyncs
    BY BoundAssumption
  <2> QED BY <1>1, <2>1, <2>2, BoundAssumption DEF Init, TypeOK, SyncRec, AfterFetch, CheckRec
<1>3. StoreIsOnePolicy /\ SyncStoresWholeListing
  BY DEF Init, StoreIsOnePolicy, SyncStoresWholeListing
<1>4. \A c \in Check : CheckOK(check[c])
  BY DEF Init, CheckOK, CheckIdle
<1>5. \A a \in Admin : SyncOK(sync[a])
  BY DEF Init, SyncOK, SyncIdle, AfterFetch
<1>6. OneHolder
  BY DEF Init, OneHolder, SyncIdle
<1> QED BY <1>2, <1>3, <1>4, <1>5, <1>6 DEF IInv

LEMMA NextOK == IInv /\ [Next]_vars => IInv'
<1> SUFFICES ASSUME IInv, [Next]_vars PROVE IInv'
  OBVIOUS
<1>1. ASSUME NEW a \in Admin,
             \/ SyncProgram(a) \/ FetchPage(a) \/ BeginSync(a) \/ UpsertProgram(a)
             \/ DeleteAssets(a) \/ CommitSync(a) \/ SyncFails(a)
      PROVE  IInv'
  BY <1>1, SyncSteps, FetchOK, CommitOK
<1>2. ASSUME NEW c \in Check, ReadProgram(c) \/ ReadAssets(c) \/ Answer(c)
      PROVE  IInv'
  BY <1>2, CheckSteps
<1>3. CASE UNCHANGED vars
  BY <1>3 DEF vars, IInv, TypeOK, StoreIsOnePolicy, SyncStoresWholeListing, CheckOK, SyncOK, OneHolder
<1> QED BY <1>1, <1>2, <1>3, PublishOK, TickOK DEF Next

\* The inductive invariant holds in every reachable state.
THEOREM SpecInv == Spec => []IInv
BY InitOK, NextOK, PTL DEF Spec

\* The types of the tables, the requests and the history.
THEOREM TypeCorrect == Spec => []TypeOK
<1>1. IInv => TypeOK
  BY DEF IInv
<1> QED BY <1>1, SpecInv, PTL

\* No allowance without a stored, fresh and permitting policy behind its terms and
\* one behind its scope, however checks and syncs overlap (programVerdict).
THEOREM Justified == Spec => []AllowIsJustified
<1>1. IInv => AllowIsJustified
  <2> SUFFICES ASSUME IInv, NEW c \in Check, check[c].step = "answered",
                      NEW q \in check[c].allows
               PROVE  /\ check[c].since >= 1
                      /\ TermsAllow(log[check[c].since].row, q[2], check[c].at)
                      /\ \E n \in check[c].since .. check[c].until :
                           Covered(log[n].assets, q[1]) /\ ~Excluded(log[n].assets, q[1])
    BY DEF AllowIsJustified
  <2>1. /\ check[c].since \in 1..Len(log)
        /\ check[c].until \in check[c].since .. Len(log)
        /\ TermsAllow(log[check[c].since].row, q[2], check[c].at)
        /\ AssetsAllow(log[check[c].until].assets, q[1])
    BY DEF IInv, CheckOK
  <2>2. Covered(log[check[c].until].assets, q[1]) /\ ~Excluded(log[check[c].until].assets, q[1])
    BY <2>1 DEF AssetsAllow, Covered, Excluded
  <2>3. check[c].since >= 1 /\ check[c].until \in check[c].since .. check[c].until
    BY <2>1 DEF IInv, TypeOK
  <2> QED BY <2>1, <2>2, <2>3
<1> QED BY <1>1, SpecInv, PTL

\* Although the transactions of Sync overlap, the lock that its first statement takes
\* lets no DELETE miss the assets of another one.
THEOREM OnePolicyStored == Spec => []StoreIsOnePolicy
<1>1. IInv => StoreIsOnePolicy
  BY DEF IInv
<1> QED BY <1>1, SpecInv, PTL

\* The page loop of FetchProgram loses nothing of a readable listing.
THEOREM WholeListing == Spec => []SyncStoresWholeListing
<1>1. IInv => SyncStoresWholeListing
  BY DEF IInv
<1> QED BY <1>1, SpecInv, PTL
================================================================================
