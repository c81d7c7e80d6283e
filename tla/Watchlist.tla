------------------------------ MODULE Watchlist ------------------------------
(***************************************************************************)
(* The watchlist of one user and market: app/api/watchlist_routes.py and   *)
(* app/infra/watchlist_store.py with its table                             *)
(* (migrations/20260730_005_watchlist_items.sql).                          *)
(*                                                                         *)
(* With Supabase ("supabase") every request works on the table and mirrors *)
(* what it did into one Redis value; a failed statement falls back to      *)
(* Redis.  Without it ("redis") Redis is the store.  The Redis value holds *)
(* the whole list: every operation reads it, changes its copy and writes   *)
(* the copy back, so requests of several gunicorn workers interleave       *)
(* between the two.                                                        *)
(*                                                                         *)
(* A row is its id, symbol and sort_index.  Ids count upwards and stand    *)
(* for created_at as well (both are fixed in one expression); a PATCH is a *)
(* change of sort_index, which stands for the note too.                    *)
(***************************************************************************)
EXTENDS Numbers, SequencesExt

CONSTANTS Symbols,       \* the symbols of the cached whitelist
          Workers,       \* requests that may be served at the same time
          Modes,         \* backends the process may have been started with
          Limit,         \* MAX_ITEMS_PER_USER
          MaxRequests,   \* bound: requests made
          MaxFaults      \* bound: statements or Redis calls that fail

ASSUME WatchlistAssumption ==
    /\ Modes \subseteq {"supabase", "redis"}
    /\ Limit \in Nat \ {0} /\ MaxRequests \in Nat /\ MaxFaults \in Nat

VARIABLES mode,          \* backend
          table,         \* rows of watchlist_items
          redis,         \* rows in the Redis value
          req,           \* the request each worker serves
          made,          \* requests made so far; also the source of ids
          faults,        \* faults left
          calm,          \* history: requests never overlapped, nothing failed and
                         \* the table never had more than Limit rows
          wanted         \* history: ids in the order the answered requests ask for
wlVars == <<mode, table, redis, req, made, faults, calm, wanted>>

Rows == [id : Nat, symbol : Symbols, idx : Nat]

Before(r, s) == r.idx < s.idx \/ (r.idx = s.idx /\ r.id < s.id)
\* In order: the k-th row has k - 1 before it.
Listed(rows) ==
    [k \in 1..Cardinality(rows) |-> CHOOSE r \in rows : Cardinality({s \in rows : Before(s, r)}) = k - 1]
Ids(rows) == {r.id : r \in rows}
IdsInOrder(rows) == [k \in 1..Cardinality(rows) |-> Listed(rows)[k].id]
RowOf(rows, id) == CHOOSE r \in rows : r.id = id

\* What list_items returns while Supabase answers.
Visible == IF mode = "supabase" THEN table ELSE redis

\* The reads of _next_sort_index and reorder fall back to Redis like the others.
ReadFrom(failed) == IF mode = "supabase" /\ ~failed THEN table ELSE redis

\* Mutant: the number of rows for the highest index.
NextSortIndexByCount(rows) == Cardinality(rows)

NextSortIndex(rows) ==
    IF rows = {} THEN 0 ELSE Max({r.idx : r \in rows}) + 1

Idle == [pc |-> "idle"]
Busy(w) == req[w].pc # "idle"

-----------------------------------------------------------------------------
(* Requests arrive. *)

\* The statement on the table comes next, or the read of the Redis value.
FirstPc == IF mode = "supabase" THEN "table" ELSE "load"

Begin(w, x, failed) ==
    /\ ~Busy(w) /\ made < MaxRequests
    /\ made' = made + 1
    /\ req' = [req EXCEPT ![w] = x]
    /\ calm' = (calm /\ ~failed /\ \A v \in Workers : ~Busy(v))
    /\ UNCHANGED <<mode, table, redis, wanted>>

\* A read of the table may fail too; reading Redis instead is not seen outside.
ReadFault(failed) ==
    /\ failed => mode = "supabase" /\ faults > 0
    /\ faults' = IF failed THEN faults - 1 ELSE faults

Request(op, row, order) ==
    [pc |-> FirstPc, op |-> op, row |-> row, order |-> order,
     mirror |-> FALSE, at |-> 0, done |-> {}, copy |-> {}]

Add(w, s, failed) ==
    /\ ReadFault(failed)
    /\ Begin(w, Request("create", [id |-> made + 1, symbol |-> s,
                                   idx |-> NextSortIndex(ReadFrom(failed))], <<>>), failed)

RemoveItem(w, r) ==
    /\ Begin(w, Request("delete", r, <<>>), FALSE)
    /\ UNCHANGED faults

Patch(w, r, i) ==
    /\ Begin(w, Request("update", [r EXCEPT !.idx = i], <<>>), FALSE)
    /\ UNCHANGED faults

\* reorder refuses a list of ids that is not exactly the one it reads; the
\* refusal leaves no trace, so only lists that pass are taken up.
Reorder(w, order, failed) ==
    /\ ReadFault(failed)
    /\ Range(order) = Ids(ReadFrom(failed)) /\ order # <<>>
    /\ Begin(w, Request("reorder", RowOf(ReadFrom(failed), order[1]), order), failed)

-----------------------------------------------------------------------------
(* Answers. *)

\* The order a successful request leaves: an added item goes to the end, a
\* removed one is cut out, a reorder is taken as it is, and a PATCH of
\* sort_index moves its item to wherever the new index sorts.
Wish(x, visible) ==
    CASE x.op = "create"  -> Append(wanted, x.row.id)
      [] x.op = "delete"  -> EntriesAt(wanted, {k \in DOMAIN wanted : wanted[k] # x.row.id})
      [] x.op = "reorder" -> x.order
      [] x.op = "update"  -> IdsInOrder(visible)

Answer(w, ok, visible) ==
    /\ req' = [req EXCEPT ![w] = Idle]
    /\ wanted' = IF ok THEN Wish(req[w], visible) ELSE wanted

Continue(w, x) ==
    /\ req' = [req EXCEPT ![w] = x]
    /\ UNCHANGED wanted

-----------------------------------------------------------------------------
(* Statements on the table. *)

AtTable(w) == Busy(w) /\ req[w].pc = "table"
Mirror(x) == [x EXCEPT !.pc = "load", !.mirror = TRUE]

Insert(w) ==
    /\ AtTable(w) /\ req[w].op = "create"
    /\ IF \E r \in table : r.symbol = req[w].row.symbol
       THEN Answer(w, FALSE, Visible) /\ UNCHANGED table
       ELSE table' = table \cup {req[w].row} /\ Continue(w, Mirror(req[w]))
    /\ calm' = (calm /\ Cardinality(table') <= Limit)
    /\ UNCHANGED <<mode, redis, made, faults>>

DeleteRow(w) ==
    /\ AtTable(w) /\ req[w].op = "delete"
    /\ IF req[w].row.id \notin Ids(table)
       THEN Answer(w, FALSE, Visible) /\ UNCHANGED table
       ELSE /\ table' = {r \in table : r.id # req[w].row.id}
            /\ Continue(w, Mirror(req[w]))
    /\ UNCHANGED <<mode, redis, made, faults, calm>>

\* One UPDATE: of the patched row, or of the next row of a reorder.
UpdateRow(w) ==
    /\ AtTable(w) /\ req[w].op \in {"update", "reorder"}
    /\ LET x == req[w]
           k == x.at + 1
           id == IF x.op = "update" THEN x.row.id ELSE x.order[k]
           idx == IF x.op = "update" THEN x.row.idx ELSE k - 1
       IN  IF id \notin Ids(table)
           THEN Answer(w, FALSE, Visible) /\ UNCHANGED table
           ELSE LET new == [RowOf(table, id) EXCEPT !.idx = idx]
                    y == [x EXCEPT !.at = k, !.done = @ \cup {new}]
                IN  /\ table' = {r \in table : r.id # id} \cup {new}
                    /\ Continue(w, IF x.op = "reorder" /\ k < Len(x.order) THEN y ELSE Mirror(y))
    /\ UNCHANGED <<mode, redis, made, faults, calm>>

\* The statement fails: the same operation is tried on Redis, as the main one.
StatementFails(w) ==
    /\ AtTable(w) /\ faults > 0
    /\ faults' = faults - 1 /\ calm' = FALSE
    /\ Continue(w, [req[w] EXCEPT !.pc = "load"])
    /\ UNCHANGED <<mode, table, redis, made>>

-----------------------------------------------------------------------------
(* Redis: the value is read, changed in the worker, and written back. *)

\* The operation is refused on these rows (Duplicate, Limit, NotFound).
Refused(x, rows) ==
    CASE x.op = "create"  -> (\E r \in rows : r.symbol = x.row.symbol) \/ Cardinality(rows) >= Limit
      [] x.op = "reorder" -> ~x.mirror /\ ~(Range(x.order) \subseteq Ids(rows))
      [] OTHER            -> x.row.id \notin Ids(rows)

Changed(x, rows) ==
    CASE x.op = "create"  -> rows \cup {x.row}
      [] x.op = "delete"  -> {r \in rows : r.id # x.row.id}
      [] x.op = "update"  -> {r \in rows : r.id # x.row.id} \cup
                             {IF x.mirror THEN CHOOSE d \in x.done : TRUE
                              ELSE [RowOf(rows, x.row.id) EXCEPT !.idx = x.row.idx]}
      [] x.op = "reorder" -> IF x.mirror THEN x.done
                             ELSE {IF \E k \in 1..Len(x.order) : x.order[k] = r.id
                                   THEN [r EXCEPT !.idx = (CHOOSE k \in 1..Len(x.order) : x.order[k] = r.id) - 1]
                                   ELSE r : r \in rows}

\* A mirrored operation that is refused is still answered with success.
Load(w) ==
    /\ Busy(w) /\ req[w].pc = "load"
    /\ IF Refused(req[w], redis)
       THEN Answer(w, req[w].mirror, Visible)
       ELSE Continue(w, [req[w] EXCEPT !.pc = "save", !.copy = Changed(req[w], redis)])
    /\ UNCHANGED <<mode, table, redis, made, faults, calm>>

Save(w) ==
    /\ Busy(w) /\ req[w].pc = "save"
    /\ redis' = req[w].copy
    /\ Answer(w, TRUE, IF mode = "supabase" THEN table ELSE req[w].copy)
    /\ UNCHANGED <<mode, table, made, faults, calm>>

\* A failing Redis call is swallowed by a mirror and raised by anything else.
RedisFails(w) ==
    /\ Busy(w) /\ req[w].pc \in {"load", "save"} /\ faults > 0
    /\ faults' = faults - 1 /\ calm' = FALSE
    /\ Answer(w, req[w].mirror, Visible)
    /\ UNCHANGED <<mode, table, redis, made>>

-----------------------------------------------------------------------------
WatchlistInit ==
    /\ mode \in Modes
    /\ table = {} /\ redis = {}
    /\ req = [w \in Workers |-> Idle]
    /\ made = 0 /\ faults = MaxFaults
    /\ calm = TRUE /\ wanted = <<>>

\* Orders of the ids a client has seen: all arrangements of what is stored.
Orders == {o \in SeqOf(Ids(table \cup redis), Cardinality(Ids(table \cup redis))) : IsInjective(o)}

Arrive(w) ==
    \/ \E s \in Symbols, f \in BOOLEAN : Add(w, s, f)
    \/ \E r \in table \cup redis : RemoveItem(w, r) \/ \E i \in 0..Limit : Patch(w, r, i)
    \/ \E o \in Orders, f \in BOOLEAN : Reorder(w, o, f)

Serve(w) ==
    \/ Insert(w) \/ DeleteRow(w) \/ UpdateRow(w) \/ StatementFails(w)
    \/ Load(w) \/ Save(w) \/ RedisFails(w)

WatchlistNext == \E w \in Workers : Arrive(w) \/ Serve(w)

WatchlistSpec == WatchlistInit /\ [][WatchlistNext]_wlVars

-----------------------------------------------------------------------------
WatchlistTypeOK ==
    /\ mode \in Modes
    /\ table \subseteq Rows /\ redis \subseteq Rows
    /\ made \in 0..MaxRequests /\ faults \in 0..MaxFaults
    /\ \A w \in Workers : req[w].pc \in {"idle", "table", "load", "save"}

\* Neither store lists a symbol twice, and the two agree about what an id stands for.
SymbolsUnique ==
    /\ \A r, s \in table : r.symbol = s.symbol => r = s
    /\ \A r, s \in redis : r.symbol = s.symbol => r = s
    /\ \A r \in table, s \in redis : r.id = s.id => r.symbol = s.symbol

\* Quiet: all requests are answered and the history is calm.
Quiet == calm /\ \A w \in Workers : ~Busy(w)

\* However requests interleave and whatever fails, no store lists a symbol twice or
\* gives an id two meanings.  In a quiet history the items are listed in the order that
\* the successful requests ask for, additions last, a reorder exactly as sent; and the
\* mirror is the table, so an outage shows the user the list they know.
ListedAsWanted ==
    /\ SymbolsUnique
    /\ Quiet => /\ IdsInOrder(Visible) = wanted
                /\ mode = "supabase" => redis = table

\* "Raised when the user already has MAX_ITEMS_PER_USER items"
\* (watchlist_store.py:65), "422 on 51st" (docs/plans/watchlist-design-v3.md:65).
ListCapped == Cardinality(Visible) <= Limit

\* "so callers always see the row they just wrote" (watchlist_store.py:341): an
\* added item is listed until somebody removes it.
AddedIsListed == (\A w \in Workers : ~Busy(w)) => Range(wanted) \subseteq Ids(Visible)

\* A removed item does not come back.
RemovedStaysAway == (\A w \in Workers : ~Busy(w)) => Ids(Visible) \subseteq Range(wanted)
=============================================================================
