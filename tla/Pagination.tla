------------------------------ MODULE Pagination ------------------------------
(***************************************************************************)
(* The query endpoints of the control plane: a client walks the rows of    *)
(* one table in a time window page by page, handing back the next_cursor   *)
(* of each answer, while the runtime goes on inserting rows.               *)
(*                                                                         *)
(* A row is its keyset key: <<event_time, id>> for trades,                 *)
(* <<open_time, source, interval>> for klines and                          *)
(* <<snapshot_time, snapshot_id>> for snapshots, texts by their rank.      *)
(* A request that fails leaves the client where it was, a stuttering step. *)
(***************************************************************************)
EXTENDS Integers, Sequences, FiniteSets

CONSTANTS
  Keys,          \* the keys rows may have, for each endpoint
  Times,         \* instants a window may begin or end at
  Limits,        \* limits a client may ask for
  defaultQueryLimit,
  maxQueryLimit

Endpoints == {"trades", "klines", "snapshots"}
Arity(e) == IF e = "klines" THEN 3 ELSE 2

ASSUME KeysAssumption ==
  /\ Keys \in [Endpoints -> SUBSET Seq(Nat)]
  /\ \A e \in Endpoints : IsFiniteSet(Keys[e]) /\ \A k \in Keys[e] : Len(k) = Arity(e)
ASSUME TimesAssumption == Times \subseteq Nat
ASSUME LimitAssumption ==
  /\ Limits \subseteq Nat
  /\ defaultQueryLimit \in Nat \ {0} /\ maxQueryLimit \in Nat \ {0}

VARIABLES
  endpoint,  \* the endpoint the client walks
  rows,      \* rows of its table
  pc,        \* the client: "idle", "paging", or "done" without a next_cursor
  from, to,  \* the window [from, to)
  cursor,    \* next_cursor of the last answer, NoCursor for the first page
  pages,     \* history: the pages of this walk
  begin      \* history: rows of the window when the walk began

walk == <<pc, from, to, cursor, pages, begin>>
vars == <<endpoint, rows, walk>>

(* A cursor is the text "time|id" or "time|source|interval"; "" is none.    *)
(* RFC3339Nano keeps all of a timestamp with microseconds.                  *)
NoCursor == [time |-> 0, rest |-> <<>>]
Cursor(e) == [time : Nat, rest : [1 .. Arity(e) - 1 -> Nat]]

(* Mutant: a trade cursor format serves all endpoints. *)
formatCursorShort(k) == [time |-> k[1], rest |-> <<k[2]>>]

formatCursor(k) ==
  [time |-> k[1], rest |-> [i \in 1 .. Len(k) - 1 |-> k[i + 1]]]
parseCursor(c) ==
  [i \in 1 .. Len(c.rest) + 1 |-> IF i = 1 THEN c.time ELSE c.rest[i - 1]]

TypeOK ==
  /\ endpoint \in Endpoints
  /\ rows \subseteq Keys[endpoint]
  /\ pc \in {"idle", "paging", "done"}
  /\ from \in Nat /\ to \in Nat
  /\ cursor \in Cursor(endpoint) \cup {NoCursor}
  /\ pages \in Seq(SUBSET Keys[endpoint])
  /\ begin \subseteq rows

Init ==
  /\ endpoint \in Endpoints
  /\ rows = {}
  /\ pc = "idle"
  /\ from = 0 /\ to = 0
  /\ cursor = NoCursor
  /\ pages = <<>>
  /\ begin = {}

(* A fact or a snapshot is written; a kline's revision changes no key. *)
Insert(k) ==
  /\ k \in Keys[endpoint] \ rows
  /\ rows' = rows \cup {k}
  /\ UNCHANGED <<endpoint, walk>>

InWindow(k, f, t) == f <= k[1] /\ k[1] < t

(* The first request of a walk, which parseTimeRange lets through. *)
StartWalk(f, t) ==
  /\ pc # "paging"
  /\ f < t
  /\ pc' = "paging"
  /\ from' = f
  /\ to' = t
  /\ cursor' = NoCursor
  /\ pages' = <<>>
  /\ begin' = {k \in rows : InWindow(k, f, t)}
  /\ UNCHANGED <<endpoint, rows>>

validateQueryLimit(n) ==
  IF n <= 0 THEN defaultQueryLimit
  ELSE IF n > maxQueryLimit THEN maxQueryLimit ELSE n

(* Row comparison of PostgreSQL, the order of the pages as well. *)
Less(a, b) ==
  \E i \in 1 .. Len(a) : a[i] < b[i] /\ \A j \in 1 .. i - 1 : a[j] = b[j]

(* Mutant: the components are compared one by one. *)
AfterCursorLoose(c, k) ==
  c = NoCursor \/ \E i \in 1 .. Len(k) : parseCursor(c)[i] < k[i]

(* Mutant: the cursor is the timestamp alone. *)
AfterCursorTime(c, k) == c = NoCursor \/ parseCursor(c)[1] < k[1]

AfterCursor(c, k) == c = NoCursor \/ Less(parseCursor(c), k)

(* The WHERE clause. *)
Matching == {k \in rows : InWindow(k, from, to) /\ AfterCursor(cursor, k)}

(* ORDER BY key LIMIT n: p is the first n elements of s. *)
First(p, s, n) ==
  /\ p \subseteq s
  /\ \A a \in p, b \in s \ p : Less(a, b)
  /\ Cardinality(p) = IF Cardinality(s) < n THEN Cardinality(s) ELSE n

(* Fetch one row more than the page has, cut it off and make its key the    *)
(* next cursor.                                                             *)
Answer(limit) ==
  \E fetched \in SUBSET Matching :
    /\ First(fetched, Matching, limit + 1)
    /\ \E page \in SUBSET fetched :
         /\ First(page, fetched, limit)
         /\ pages' = Append(pages, page)
         /\ IF page = fetched
            THEN pc' = "done" /\ cursor' = NoCursor
            ELSE \E last \in fetched \ page :
                   cursor' = formatCursor(last) /\ UNCHANGED pc

(* The handlers after their checks; each request may ask for its own limit. *)
handleQuery(e, n) ==
  /\ pc = "paging"
  /\ endpoint = e
  /\ Answer(validateQueryLimit(n))
  /\ UNCHANGED <<endpoint, rows, from, to, begin>>

QueryTrades == \E n \in Limits : handleQuery("trades", n)
QueryKlines == \E n \in Limits : handleQuery("klines", n)
QuerySnapshots == \E n \in Limits : handleQuery("snapshots", n)

Next ==
  \/ \E k \in Keys[endpoint] : Insert(k)
  \/ \E f, t \in Times : StartWalk(f, t)
  \/ QueryTrades
  \/ QueryKlines
  \/ QuerySnapshots

Spec == Init /\ [][Next]_vars

-----------------------------------------------------------------------------
Returned == UNION {pages[i] : i \in DOMAIN pages}

(* The pages of a walk follow each other in key order, whatever is inserted *)
(* between two requests: no row is returned twice.                          *)
PagesAscend ==
  \A i, j \in DOMAIN pages : i < j =>
    \A a \in pages[i], b \in pages[j] : Less(a, b)

(* QueryResult promises that its cursor "avoids skipping rows at page       *)
(* boundaries or when multiple records share the same timestamp": a         *)
(* finished walk has returned every row that was there when it began.  The  *)
(* code does not keep this: the row it takes the cursor from is lost.       *)
NoRowSkipped == pc = "done" => begin \subseteq Returned

(* How much a walk loses: less than one row a page, however many rows share *)
(* a timestamp, are inserted around the cursor, or fit on a page.           *)
OneRowPerBoundary == pc = "done" => Cardinality(begin \ Returned) < Len(pages)

===============================================================================
