----------------------------- MODULE ProgramPolicy -----------------------------
(***************************************************************************)
(* Program mode: the stored policy of one bug-bounty program, the admin    *)
(* requests that sync it from its platform (program_service.go,            *)
(* ingest/hackerone.go, program_repository.go), and the checks that a      *)
(* program-linked authorization hands over to it (resolveProgramAuth and   *)
(* programVerdict of scope_service.go).                                    *)
(*                                                                         *)
(* The program row and its assets are two tables.  A sync replaces both in *)
(* one transaction of several statements, of which others see nothing      *)
(* before it commits, and two may overlap; a check reads the tables with   *)
(* two statements outside any transaction.                                 *)
(* The platform is external: it goes through a sequence of editions of its *)
(* scope listing, and may move on between two pages of one fetch.          *)
(***************************************************************************)
EXTENDS Naturals, Sequences

CONSTANTS
  Host,           \* what a check asks about
  Under,          \* Under[h]: the hosts below h
  Edition,        \* the platform's listings in order, each a sequence of pages
  Term,           \* the terms an admin may attest with a sync
  Phase,          \* scan phases
  Admin,          \* slots of sync requests
  Check,          \* slots of checks
  PageCap,        \* hackerOneMaxScopePages
  DefaultWindow,  \* DefaultProgramStaleWindow
  MaxSyncs,       \* bound: syncs that commit
  MaxTime         \* bound: the clock

AssetType == {"domain", "wildcard", "url", "ip", "cidr", "other"}
Asset     == [type : AssetType, id : Host, inScope : BOOLEAN]
Technique == {"brute_force", "account_creation", "network_scanning", "automated_scanning"}
Terms     == [active : BOOLEAN, automation : BOOLEAN,
              prohibited : SUBSET Technique, window : Nat]

ASSUME HostAssumption == Under \in [Host -> SUBSET Host]
ASSUME TermAssumption == Term \subseteq Terms
ASSUME EditionAssumption ==
  /\ Edition \in Seq(Seq(SUBSET Asset))
  /\ Edition # <<>>
ASSUME BoundAssumption ==
  /\ PageCap \in Nat \ {0} /\ DefaultWindow \in Nat
  /\ MaxSyncs \in Nat /\ MaxTime \in Nat

VARIABLES
  edition,  \* the edition the platform lists now
  program,  \* bugbounty_programs: no row before the first sync, then one
  assets,   \* program_assets
  sync,     \* each sync request: next step, what it has fetched, what it has written
  check,    \* each check: next step, the row it read, what it allows
  now,      \* the clock
  log       \* history: the policies committed, in order

vars == <<edition, program, assets, sync, check, now, log>>

Row      == [terms : Term, at : 0..MaxTime]
Question == Host \X Phase
Page     == 1..PageCap

--------------------------------------------------------------------------------
(* The verdict *)

\* programAssetMatches for a host: while IPTargetsEnabled is false CheckScope
\* answers every request that names an IP before it gets here.
AssetMatches(a, h) ==
  \/ a.type \in {"domain", "url", "other"} /\ h = a.id
  \/ a.type = "wildcard" /\ h \in {a.id} \cup Under[a.id]

\* Mutant: one included asset that matches is enough.
IncludedIsEnough(as, h) == \E a \in as : a.inScope /\ AssetMatches(a, h)

\* The two loops of programVerdict: exclusions win.
AssetsAllow(as, h) ==
  /\ ~\E a \in as : ~a.inScope /\ AssetMatches(a, h)
  /\ \E a \in as : a.inScope /\ AssetMatches(a, h)

\* A phase that is not listed performs no restricted technique.
PhaseTechnique ==
  [cred |-> "brute_force", auth_register |-> "account_creation",
   auth_account_mgmt |-> "account_creation", network |-> "network_scanning",
   web_vuln |-> "automated_scanning", auth_crawl |-> "automated_scanning",
   agent |-> "automated_scanning"]

Prohibits(terms, ph) ==
  ph \in DOMAIN PhaseTechnique /\ PhaseTechnique[ph] \in terms.prohibited

\* synced_at within stale_after_seconds, 0 standing for the default.
Window(terms)  == IF terms.window > 0 THEN terms.window ELSE DefaultWindow
Fresh(p, time) == time <= p.at + Window(p.terms)

TermsAllow(p, ph, time) ==
  /\ p.terms.active /\ Fresh(p, time)
  /\ p.terms.automation /\ ~Prohibits(p.terms, ph)

\* programVerdict: every condition must hold, so their order only picks the reason.
ProgramVerdict(p, as, q, time) == TermsAllow(p, q[2], time) /\ AssetsAllow(as, q[1])

--------------------------------------------------------------------------------
(* Syncing *)

\* row and gone are what its transaction has written and deleted so far.  first and
\* last are history: the editions the first and the last page came from.
SyncIdle == [step |-> "idle", page |-> 1, got |-> {}, began |-> 0, row |-> {},
             gone |-> {}, first |-> 1, last |-> 1]

\* FetchProgram reads the program's name, then its scopes.  The terms the request
\* attests are chosen where they are stored.
SyncProgram(a) ==
  /\ sync[a].step = "idle"
  /\ sync' = [sync EXCEPT ![a] = [SyncIdle EXCEPT !.step = "fetch", !.first = edition]]
  /\ UNCHANGED <<edition, program, assets, check, now, log>>

\* What page n of the current edition holds: nothing past the end of the listing.
\* Entries without an identifier, which are skipped, are left out of the editions.
PageOf(n) == IF n \in DOMAIN Edition[edition] THEN Edition[edition][n] ELSE {}

\* Mutant: the loop ends one page before the cap.
StopsBeforeCap(n) == PageOf(n) = {} \/ n + 1 >= Len(Edition[edition]) \/ n >= PageCap

\* An empty page, no next link, or the last page the connector asks for.
IsLastPage(n) == PageOf(n) = {} \/ n >= Len(Edition[edition]) \/ n >= PageCap

Fetched(s) ==
  [s EXCEPT !.got  = s.got \cup PageOf(s.page),
            !.step = IF IsLastPage(s.page) THEN "begin" ELSE "fetch",
            !.page = IF IsLastPage(s.page) THEN s.page ELSE s.page + 1,
            !.last = edition]

FetchPage(a) ==
  /\ sync[a].step = "fetch"
  /\ sync' = [sync EXCEPT ![a] = Fetched(sync[a])]
  /\ UNCHANGED <<edition, program, assets, check, now, log>>

\* Mutant: the assets are replaced before the row is written.
AssetsFirst == [begin |-> "delete", delete |-> "upsert", upsert |-> "commit"]

\* The statement that follows each statement of Sync.
Statement == [begin |-> "upsert", upsert |-> "delete", delete |-> "commit"]

\* BEGIN: inside the transaction now() is the time it began, however long it
\* then waits for another sync of the program.
BeginSync(a) ==
  /\ sync[a].step = "begin"
  /\ sync' = [sync EXCEPT ![a].step = Statement["begin"], ![a].began = now]
  /\ UNCHANGED <<edition, program, assets, check, now, log>>

\* A row that is written stays locked until its transaction ends, and one that is
\* inserted keeps others from inserting its key.
RowFree(a) == \A b \in Admin \ {a} : sync[b].row = {}

\* INSERT ... ON CONFLICT (platform, handle) DO UPDATE waits for the row.
UpsertProgram(a) ==
  /\ sync[a].step = "upsert"
  /\ RowFree(a)
  /\ \E terms \in Term :
       sync' = [sync EXCEPT ![a].step = Statement["upsert"],
                            ![a].row = {[terms |-> terms, at |-> sync[a].began]}]
  /\ UNCHANGED <<edition, program, assets, check, now, log>>

\* DELETE of the program's assets: those it sees, which are the committed ones.
DeleteAssets(a) ==
  /\ sync[a].step = "delete"
  /\ sync' = [sync EXCEPT ![a].step = Statement["delete"], ![a].gone = assets]
  /\ UNCHANGED <<edition, program, assets, check, now, log>>

\* The INSERTs of the fetched assets, seen by nobody before the COMMIT.
CommitSync(a) ==
  /\ sync[a].step = "commit"
  /\ Len(log) < MaxSyncs
  /\ program' = sync[a].row
  /\ assets' = (assets \ sync[a].gone) \cup sync[a].got
  /\ \E row \in sync[a].row :
       log' = Append(log, [row |-> row, assets |-> sync[a].got,
                           first |-> sync[a].first, last |-> sync[a].last])
  /\ sync' = [sync EXCEPT ![a] = SyncIdle]
  /\ UNCHANGED <<edition, check, now>>

\* The platform or a statement of the transaction fails: it is rolled back.
SyncFails(a) ==
  /\ sync[a].step # "idle"
  /\ sync' = [sync EXCEPT ![a] = SyncIdle]
  /\ UNCHANGED <<edition, program, assets, check, now, log>>

--------------------------------------------------------------------------------
(* Checking *)

\* since, until and at are history: the policies stored when the row and when
\* the assets were read, and the time of the verdict.
CheckIdle == [step |-> "idle", row |-> {}, allows |-> {}, since |-> 0, until |-> 0, at |-> 0]

\* GetByPlatformHandle.
ReadProgram(c) ==
  /\ check[c].step = "idle"
  /\ program # {}
  /\ check' = [check EXCEPT ![c] =
       [CheckIdle EXCEPT !.step = "assets", !.row = program, !.since = Len(log)]]
  /\ UNCHANGED <<edition, program, assets, sync, now, log>>

\* ListAssets, and the verdict on every question the check may have asked.
ReadAssets(c) ==
  /\ check[c].step = "assets"
  /\ check' = [check EXCEPT ![c] = [@ EXCEPT
       !.step   = "answered",
       !.allows = {q \in Question : \E p \in check[c].row : ProgramVerdict(p, assets, q, now)},
       !.until  = Len(log),
       !.at     = now]]
  /\ UNCHANGED <<edition, program, assets, sync, now, log>>

\* The answer is sent; a read that failed or found no program is a denial.
Answer(c) ==
  /\ check[c].step # "idle"
  /\ check' = [check EXCEPT ![c] = CheckIdle]
  /\ UNCHANGED <<edition, program, assets, sync, now, log>>

--------------------------------------------------------------------------------
(* The environment *)

Publish ==
  /\ edition < Len(Edition)
  /\ edition' = edition + 1
  /\ UNCHANGED <<program, assets, sync, check, now, log>>

Tick ==
  /\ now < MaxTime
  /\ now' = now + 1
  /\ UNCHANGED <<edition, program, assets, sync, check, log>>

Init ==
  /\ edition = 1
  /\ program = {}
  /\ assets = {}
  /\ sync = [a \in Admin |-> SyncIdle]
  /\ check = [c \in Check |-> CheckIdle]
  /\ now = 0
  /\ log = <<>>

Next ==
  \/ \E a \in Admin : \/ SyncProgram(a) \/ FetchPage(a) \/ BeginSync(a)
                      \/ UpsertProgram(a) \/ DeleteAssets(a) \/ CommitSync(a)
                      \/ SyncFails(a)
  \/ \E c \in Check : ReadProgram(c) \/ ReadAssets(c) \/ Answer(c)
  \/ Publish
  \/ Tick

Spec == Init /\ [][Next]_vars

--------------------------------------------------------------------------------
(* Properties *)

Policy == [row : Row, assets : SUBSET Asset,
           first : DOMAIN Edition, last : DOMAIN Edition]

\* Tables, requests and history have their types, and the table of programs holds
\* at most the one row its unique key allows.
TypeOK ==
  /\ edition \in DOMAIN Edition
  /\ program \in {{}} \cup {{p} : p \in Row}
  /\ assets \subseteq Asset
  /\ sync \in [Admin -> [step : {"idle", "fetch", "begin", "upsert", "delete", "commit"},
                         page : Page, got : SUBSET Asset, began : 0..MaxTime,
                         row : {{}} \cup {{p} : p \in Row}, gone : SUBSET Asset,
                         first : DOMAIN Edition, last : DOMAIN Edition]]
  /\ check \in [Check -> [step : {"idle", "assets", "answered"},
                          row : {{}} \cup {{p} : p \in Row}, allows : SUBSET Question,
                          since : 0..MaxSyncs, until : 0..MaxSyncs, at : 0..MaxTime]]
  /\ now \in 0..MaxTime
  /\ log \in Seq(Policy) /\ Len(log) <= MaxSyncs

Covered(as, h)  == \E a \in as : AssetMatches(a, h)
Excluded(as, h) == Covered({a \in as : ~a.inScope}, h)

\* An allowance rests on synced policies only: the terms of one that was stored
\* when the check began and still fresh at the verdict, and the scope of one stored
\* no earlier and before the check ended.  So a pause, a prohibition or an
\* exclusion that was committed before a check began binds that check, and nothing
\* is allowed before the first sync.
AllowIsJustified ==
  \A c \in Check : check[c].step = "answered" =>
    \A q \in check[c].allows :
      /\ check[c].since >= 1
      /\ TermsAllow(log[check[c].since].row, q[2], check[c].at)
      /\ \E n \in check[c].since .. check[c].until :
           Covered(log[n].assets, q[1]) /\ ~Excluded(log[n].assets, q[1])

\* However the statements of syncs overlap, and whichever of them fail, the row and
\* the assets stored are those of the last sync that committed: no asset of an earlier
\* one is left because the DELETE did not see it.
StoreIsOnePolicy ==
  IF log = <<>> THEN program = {} /\ assets = {}
  ELSE program = {log[Len(log)].row} /\ assets = log[Len(log)].assets

Whole(e) == UNION {Edition[e][n] : n \in DOMAIN Edition[e]}

\* Within the page cap, and with something on each page.
Readable(e) ==
  /\ Len(Edition[e]) <= PageCap
  /\ \A n \in DOMAIN Edition[e] : Edition[e][n] # {}

\* A fetch the platform did not change under stores a readable listing whole: no
\* exclusion is lost between two pages or by the end of the loop.
SyncStoresWholeListing ==
  \A k \in DOMAIN log :
    /\ log[k].first = log[k].last
    /\ Readable(log[k].first)
    => log[k].assets = Whole(log[k].first)
================================================================================
