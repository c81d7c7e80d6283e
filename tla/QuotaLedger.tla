---------------------------- MODULE QuotaLedger ----------------------------
(***************************************************************************)
(* The usage_ledger table and the three RPC functions that metered routes  *)
(* call (migrations/20260715_001_initial_schema.sql).  A ledger row is     *)
(* named by the id the route passes as p_analysis_id: every route draws a  *)
(* fresh uuid per request and reserves once, so a row and its id are one.  *)
(* All callers pass units = 1, so units_reserved is 1 and units_consumed   *)
(* is 1 exactly in the status "consumed".                                  *)
(*                                                                         *)
(* The operators below are transactions: each maps the table to the table  *)
(* it leaves behind.  Modules that own the routes turn them into actions.  *)
(***************************************************************************)
EXTENDS Integers, FiniteSets

CONSTANTS
    User,           \* profiles.id
    ActiveUser,     \* profiles whose status is 'active'
    Id,             \* the uuids that requests draw
    DailyQuota,     \* profiles.daily_quota
    MaxDay,         \* bound: number of midnights that pass
    NoRow           \* no such row

VARIABLES
    ledger,     \* usage_ledger
    today       \* CURRENT_DATE

Day == 0 .. MaxDay
LedgerStatus == {"reserved", "consumed", "released"}
LedgerRow == [user : User, date : Day, status : LedgerStatus]

ASSUME QuotaAssumption ==
    /\ ActiveUser \subseteq User
    /\ IsFiniteSet(Id)
    /\ DailyQuota \in Nat
    /\ MaxDay \in Nat
    /\ NoRow \notin LedgerRow

Row(u, d, s) == [user |-> u, date |-> d, status |-> s]

\* The rows of one user and day in one status.
RowsIn(u, d, s) == {i \in Id : ledger[i] = Row(u, d, s)}

\* SELECT SUM(units_consumed) ... AND status = 'consumed'
UsedToday(u) == Cardinality(RowsIn(u, today, "consumed"))

LedgerTypeOK ==
    /\ ledger \in [Id -> LedgerRow \cup {NoRow}]
    /\ today \in Day

LedgerInit ==
    /\ ledger = [i \in Id |-> NoRow]
    /\ today = 0

\* A reservation that ignores what is already used.
GrantsUnmetered(u) == u \in ActiveUser /\ 1 <= DailyQuota

\* The answer of reserve_quota: an inactive profile has no quota, and only
\* consumed units count against it.  Reserved ones do not.
Grants(u) == u \in ActiveUser /\ UsedToday(u) + 1 <= DailyQuota

\* The INSERT at the end of reserve_quota, under the advisory lock.
Reserved(u, i) == [ledger EXCEPT ![i] = Row(u, today, "reserved")]

\* consume_quota and release_quota update by primary key, whatever the status.
Consumed(i) == [ledger EXCEPT ![i].status = "consumed"]
Released(i) == [ledger EXCEPT ![i].status = "released"]

\* Midnight: CURRENT_DATE moves on, the rows keep their usage_date.
Midnight ==
    /\ today < MaxDay
    /\ today' = today + 1
    /\ UNCHANGED ledger
=============================================================================
