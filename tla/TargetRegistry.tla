----------------------------- MODULE TargetRegistry -----------------------------
(***************************************************************************)
(* The table target.targets as its owners and admins see it                *)
(* (internal/handler/{target,admin}_handler.go, internal/service/target_   *)
(* {service,admin_service}.go, internal/repository/target_repository.go):  *)
(* who may add and remove rows, and what a client that reads page by page, *)
(* or asks for the statistics, learns while others write.  Every statement *)
(* is a transaction of its own.                                            *)
(***************************************************************************)
EXTENDS Naturals, FiniteSets, Functions

CONSTANTS
  User,        \* values of X-User-Id
  Sub,         \* values of X-User-Uid: Keycloak UUIDs
  Derive,      \* deriveUserID: the X-User-Id of each Sub
  NULL,        \* no value: of a header, a filter, a column, or no row
  Name,        \* target values up to case and surrounding space
  MaxId,       \* bound: rows ever inserted
  MaxMoves,    \* bound: status updates
  DefaultSize, \* page_size of a list when the client asks for none
  MaxSize,     \* and the most a client can have
  Questions    \* the lists that are asked for

ASSUME DeriveAssumption == Derive \in [Sub -> User] /\ NULL \notin User \cup Sub
ASSUME BoundsAssumption == MaxId \in Nat /\ MaxMoves \in Nat
ASSUME SizeAssumption ==
  DefaultSize \in Nat \ {0} /\ MaxSize \in Nat /\ DefaultSize <= MaxSize

Id   == 1..MaxId   \* BIGSERIAL; created_at follows it
Kind == {"domain", "url", "ip", "cidr"}
validStatuses == {"unverified", "verifying", "verified", "revoked"}
validSources  == {"customer", "program"}

\* A customer's list is of the customer's own rows, an admin's of anybody's.
SearchParameters ==
  [by : User \cup {"admin"}, user_id : User \cup {NULL}, status : validStatuses \cup {NULL},
   source : validSources \cup {NULL}, sort : {"created_at", "status"}, ascending : BOOLEAN]

ASSUME QuestionsAssumption == Questions \subseteq SearchParameters

IPTargetsEnabled == FALSE
checkKindAllowed(kind) == kind \in {"ip", "cidr"} => IPTargetsEnabled

\* A value as a client sends it: "tidy" is trimmed and in lower case.
Raw == [name : Name, form : {"tidy", "untidy"}]

Target ==
  [user_id : User, kind : {k \in Kind : checkKindAllowed(k)}, value : Raw,
   status : validStatuses, source : validSources, keycloak_uid : Sub \cup {NULL}]

ASSUME RowAssumption == NULL \notin Target

VARIABLES
  targets,  \* the rows by id; NULL before the insert and after the delete
  taken,    \* ids handed out
  moves,    \* status updates so far
  query,    \* the one list or statistics under way: where it is, what it asks and has
  seen,     \* how often each row was on a page
  due,      \* history: rows it has listed all the time, in the same place
  came,     \* history: rows that entered what it lists, since it was asked
  left      \* history: rows that left it

vars == <<targets, taken, moves, query, seen, due, came, left>>

Rows == {i \in Id : targets[i] # NULL}

--------------------------------------------------------------------------------
(* What a list shows *)

\* Statuses in alphabetical order; a column that may not be sorted by counts as
\* created_at.
Rank(status) ==
  CASE status = "revoked" -> 1 [] status = "unverified" -> 2
    [] status = "verified" -> 3 [] status = "verifying" -> 4
SortKey(q, t, i) == IF q.sort = "status" THEN Rank(t[i].status) ELSE i

\* ORDER BY column, id, both in the one direction.
OrderBy(q, t, i, j) ==
  LET Less(k, l) == \/ SortKey(q, t, k) < SortKey(q, t, l)
                    \/ SortKey(q, t, k) = SortKey(q, t, l) /\ k < l
  IN  IF q.ascending THEN Less(i, j) ELSE Less(j, i)

buildWhere(q, row) ==
  /\ q.user_id \in {NULL, row.user_id}
  /\ q.status \in {NULL, row.status}
  /\ q.source \in {NULL, row.source}

Listed(q, t) == {i \in Id : t[i] # NULL /\ buildWhere(q, t[i])}

\* A query that has not ended, for which the history is kept.
Under == query.at \notin {"idle", "done"}

\* Mutant: pages are counted from zero.
ZeroBased(q) == q.page * q.size

Offset(q) == (q.page - 1) * q.size

\* LIMIT and OFFSET: a row's place is the number of rows before it.
List(q) ==
  LET Before(i) == {j \in Listed(q, targets) : OrderBy(q, targets, j, i)}
  IN  {i \in Listed(q, targets) : Cardinality(Before(i)) \in Offset(q)..(Offset(q) + q.size - 1)}

Count(q) == Cardinality(Listed(q, targets))

\* Mutant: the zero meant for a key that no row has goes to one that rows have.
CountByButOne(column, keys) ==
  LET k0 == CHOOSE k \in keys : TRUE IN
  [k \in keys |-> IF k = k0 THEN 0 ELSE Cardinality({i \in Rows : targets[i][column] = k})]

\* GROUP BY column, with a zero for the keys that no row has.
CountBy(column, keys) == [k \in keys |-> Cardinality({i \in Rows : targets[i][column] = k})]

--------------------------------------------------------------------------------
(* Writers *)

\* A write to the table; the history of a query under way follows it.
Write(t) ==
  LET was  == Listed(query, targets)
      is   == Listed(query, t)
      stay == {i \in was \cap is : SortKey(query, t, i) = SortKey(query, targets, i)}
  IN  /\ targets' = t
      /\ came' = came + (IF Under THEN Cardinality(is \ stay) ELSE 0)
      /\ left' = left + (IF Under THEN Cardinality(was \ stay) ELSE 0)
      /\ due'  = IF Under THEN due \cap stay ELSE due

\* The middleware keeps an X-User-Uid only with the X-User-Id it derives.
UserUID(id, sub) == IF sub # NULL /\ Derive[sub] = id THEN sub ELSE NULL

\* Mutant: the caller's UUID goes on whatever row the caller makes.
CallersUID(caller, sub, owner) == UserUID(caller, sub)

KeycloakUID(caller, sub, owner) == IF caller = owner THEN UserUID(caller, sub) ELSE NULL

\* Mutant: the value is stored as it was sent.
AsSent(raw) == raw

NormalizeTargetValue(raw) == [raw EXCEPT !.form = "tidy"]

\* ON CONFLICT (user_id, kind, value) DO NOTHING: the 409.
Conflict(row) ==
  \E j \in Rows : /\ targets[j].user_id = row.user_id /\ targets[j].kind = row.kind
                  /\ targets[j].value = row.value

\* The ids are handed out in order, and the inserts commit in any.
Insert(row) ==
  /\ ~Conflict(row)
  /\ \E i \in Id \ taken :
       /\ taken' = taken \cup {i}
       /\ Write([targets EXCEPT ![i] = row])
  /\ UNCHANGED <<moves, query, seen>>

\* POST /v1/targets
Create(u, sub, kind, raw) ==
  /\ checkKindAllowed(kind)
  /\ Insert([user_id |-> u, kind |-> kind, value |-> NormalizeTargetValue(raw),
             status |-> "unverified", source |-> "customer",
             keycloak_uid |-> KeycloakUID(u, sub, u)])

\* POST /v1/admin/targets, for the user_id of the body or else for the admin.
CreateProgram(admin, sub, user_id, kind, raw) ==
  LET owner == IF user_id = NULL THEN admin ELSE user_id IN
  /\ checkKindAllowed(kind)
  /\ Insert([user_id |-> owner, kind |-> kind, value |-> NormalizeTargetValue(raw),
             status |-> "verified", source |-> "program",
             keycloak_uid |-> KeycloakUID(admin, sub, owner)])

UpdateStatus(i, status) ==
  /\ i \in Rows /\ targets[i].status # status
  /\ moves < MaxMoves /\ moves' = moves + 1
  /\ Write([targets EXCEPT ![i].status = status])
  /\ UNCHANGED <<taken, query, seen>>

\* By its owner under /v1/targets, by anybody who is an admin under /v1/admin.
Delete(i) ==
  /\ i \in Rows
  /\ Write([targets EXCEPT ![i] = NULL])
  /\ UNCHANGED <<taken, moves, query, seen>>

--------------------------------------------------------------------------------
(* Readers *)

\* Mutant: what the client asks for is what it gets.
AskedSize(asked) == asked

\* A size that is left out, or is no number, is 0.
PageSize(asked) ==
  IF asked < 1 THEN DefaultSize ELSE IF asked > MaxSize THEN MaxSize ELSE asked

Idle == [at |-> "idle", by |-> "admin", user_id |-> NULL, status |-> NULL, source |-> NULL,
         sort |-> "created_at", ascending |-> FALSE, size |-> DefaultSize, page |-> 1,
         full |-> FALSE, total |-> 0, by_source |-> <<>>]

\* A client that will read page after page.
ListTargets(q, asked) ==
  /\ query.at = "idle"
  /\ query' = [query EXCEPT !.at = "list", !.size = PageSize(asked), !.by = q.by,
                            !.user_id = q.user_id, !.status = q.status, !.source = q.source,
                            !.sort = q.sort, !.ascending = q.ascending]
  /\ due' = Listed(q, targets)
  /\ UNCHANGED <<targets, taken, moves, seen, came, left>>

\* One page, one statement.
ReadPage ==
  /\ query.at = "list"
  /\ seen' = [i \in Id |-> seen[i] + (IF i \in List(query) THEN 1 ELSE 0)]
  /\ query' = [query EXCEPT !.at = "count", !.full = Cardinality(List(query)) = query.size]
  /\ UNCHANGED <<targets, taken, moves, due, came, left>>

\* An admin's page is answered with the total, which is another statement; then the
\* client asks for the next page, unless this one was not full.
Answer ==
  /\ query.at = "count"
  /\ query' = [query EXCEPT !.total = IF query.by = "admin" THEN Count(query) ELSE 0,
                            !.at = IF query.full THEN "list" ELSE "done",
                            !.page = IF query.full THEN @ + 1 ELSE @]
  /\ UNCHANGED <<targets, taken, moves, seen, due, came, left>>

\* GET /v1/admin/stats counts by status, which the total is the sum of,
StatsByStatus ==
  /\ query.at = "idle"
  /\ query' = [query EXCEPT !.at = "stats", !.total = SumFunction(CountBy("status", validStatuses))]
  /\ UNCHANGED <<targets, taken, moves, seen, due, came, left>>

\* and then by source.
StatsBySource ==
  /\ query.at = "stats"
  /\ query' = [query EXCEPT !.at = "done", !.by_source = CountBy("source", validSources)]
  /\ UNCHANGED <<targets, taken, moves, seen, due, came, left>>

--------------------------------------------------------------------------------
Init ==
  /\ targets = [i \in Id |-> NULL] /\ taken = {} /\ moves = 0
  /\ query = Idle /\ seen = [i \in Id |-> 0]
  /\ due = {} /\ came = 0 /\ left = 0

Writer ==
  \/ \E u \in User, sub \in Sub \cup {NULL}, kind \in Kind, raw \in Raw :
       \/ Create(u, sub, kind, raw)
       \/ \E user_id \in User \cup {NULL} : CreateProgram(u, sub, user_id, kind, raw)
  \/ \E i \in Id : Delete(i) \/ \E status \in validStatuses : UpdateStatus(i, status)

Reader ==
  \/ \E q \in Questions, asked \in 0..(MaxSize + 1) : ListTargets(q, asked)
  \/ ReadPage \/ Answer \/ StatsByStatus \/ StatsBySource

Next == Writer \/ Reader

Spec == Init /\ [][Next]_vars

--------------------------------------------------------------------------------
(* Properties *)

\* Types: no row is of a kind that is switched off, and no page is larger than allowed.
TypeOK ==
  /\ targets \in [Id -> Target \cup {NULL}]
  /\ taken \subseteq Id /\ Rows \subseteq taken /\ moves \in 0..MaxMoves
  /\ query.at \in {"idle", "list", "count", "stats", "done"}
  /\ query.size \in 1..MaxSize /\ query.page \in Nat \ {0} /\ query.total \in 0..MaxId
  /\ seen \in [Id -> Nat] /\ due \subseteq Id /\ came \in Nat /\ left \in Nat

\* The same domain is registered once per owner, however it was written and whichever
\* route it came by (target_service.go:35, the 409 of README.md:101).
OneRowPerValue ==
  \A i, j \in Rows :
    /\ targets[i].user_id = targets[j].user_id /\ targets[i].kind = targets[j].kind
    /\ targets[i].value.name = targets[j].value.name
    => i = j

\* user_uid.go:24: no header attaches a UUID to a row of somebody else's, neither by
\* a forged X-User-Uid nor by an admin who registers for another user.
UIDBelongsToOwner ==
  \A i \in Rows : targets[i].keycloak_uid # NULL => Derive[targets[i].keycloak_uid] = targets[i].user_id

\* Who has read a list to its end has missed no more rows than left it meanwhile (were
\* deleted, filtered out, or moved to another place), has met no more rows twice than
\* entered it, and has been given a total that is off by no more than both.
WalkIsAccountedFor ==
  query.at = "done" /\ query.by_source = <<>> =>
    /\ Cardinality({i \in due : seen[i] = 0}) <= left
    /\ \A n \in 1..MaxId : Cardinality({i \in due : seen[i] > n}) <= came
    /\ query.by = "admin" =>
         LET read == Cardinality({i \in Id : seen[i] > 0})
         IN  read <= query.total + came + left /\ query.total <= read + came + left

\* The statistics, whose two breakdowns are read one after the other, add up but for
\* the rows that were inserted and deleted between them.
NumbersAddUp ==
  query.at = "done" /\ query.by_source # <<>> =>
    query.total + came = SumFunction(query.by_source) + left
================================================================================
