----------------------------- MODULE MarketData -----------------------------
(***************************************************************************)
(* The candles of the legacy source (app/infra/marketdata.py): one fetch   *)
(* of num_candles, page by page backwards in time, each page with retries, *)
(* while the exchange goes on adding candles.  A candle is its open time;  *)
(* the exchange may have gaps.  The futures class differs in its URL only. *)
(***************************************************************************)
EXTENDS Numbers, SequencesExt

CONSTANTS
    OpenTimes,      \* open times of the candles the exchange may come to list
    Counts,         \* num_candles asked for
    Bounds,         \* start and end asked for, besides NoBound
    NoBound,
    MAX_CANDLES,    \* rows in a page at most
    max_retries

ASSUME MarketDataAssumption ==
    /\ OpenTimes \subseteq Nat /\ Bounds \subseteq Nat /\ NoBound \notin Int
    /\ Counts \subseteq Nat \ {0}
    /\ MAX_CANDLES \in Nat \ {0} /\ max_retries \in Nat

VARIABLES
    listed,     \* the open times the exchange has
    fetch,      \* the call: its parameters, rows so far, next endTime, attempt
    firstSeen   \* ghost: what the exchange had at the first page

marketVars == <<listed, fetch, firstSeen>>

MarketInit ==
    listed \in {times \in SUBSET OpenTimes : IsFiniteSet(times)} /\ fetch = [at |-> "idle"] /\ firstSeen = {}

Latest(rows, n) == SubSeq(rows, Max({1, Len(rows) - n + 1}), Len(rows))
Within(times, start, end) ==
    {t \in times : (start = NoBound \/ t >= start) /\ (end = NoBound \/ t <= end)}

\* The exchange: the latest rows up to endTime, ascending.
Page(limit, end) == Latest(Ascending(Within(listed, NoBound, end)), limit)

\* The exchange opens a candle, after all it has.
Open ==
    \E t \in OpenTimes :
        /\ \A u \in listed : u < t
        /\ listed' = listed \cup {t} /\ UNCHANGED <<fetch, firstSeen>>

\* get_candles: an interval Binance does not have is refused.
get_candles ==
    /\ fetch.at = "idle" /\ UNCHANGED <<listed, firstSeen>>
    /\ \/ \E n \in Counts, start, end \in Bounds \cup {NoBound} :
             fetch' = [at |-> "page", n |-> n, start |-> start, end |-> end, rows |-> <<>>,
                       endTime |-> end, attempt |-> 0, first |-> TRUE]
       \/ fetch' = [at |-> "invalid"]

\* timeouts, lost connections, 429, 451 and 5xx
_is_retryable_error(err) == err \in {"timeout", "connection", "429", "451", "5xx"}

\* _request_with_retry: the same request again, at most max_retries times.
RequestFails ==
    \E err \in {"timeout", "connection", "429", "451", "5xx", "4xx", "other"} :
        /\ fetch.at = "page"
        /\ fetch' = IF fetch.attempt = max_retries \/ ~_is_retryable_error(err)
                    THEN [at |-> "failed"] ELSE [fetch EXCEPT !.attempt = @ + 1]
        /\ UNCHANGED <<listed, firstSeen>>

\* The next page ends before the first row of this one; a plausible slip is "with it".
EndAt(batch) == batch[1]
EndBefore(batch) == batch[1] - 1

BatchSize(f) == IF f.n - Len(f.rows) < MAX_CANDLES THEN f.n - Len(f.rows) ELSE MAX_CANDLES

\* One page of _fetch_paginated.  The rows before start are dropped; a short page,
\* before or after that, is the last one.
Turn(f, page) ==
    LET batch == EntriesAt(page, {i \in DOMAIN page : f.start = NoBound \/ page[i] >= f.start})
        rows == batch \o f.rows
        last == \/ Len(batch) < BatchSize(f)
                \/ Len(rows) >= f.n
                \/ f.start # NoBound /\ EndBefore(batch) < f.start
    IN  IF last
        THEN IF rows = <<>> THEN [at |-> "nodata", n |-> f.n, start |-> f.start, end |-> f.end]
             ELSE [at |-> "done", n |-> f.n, start |-> f.start, end |-> f.end, rows |-> Latest(rows, f.n)]
        ELSE [f EXCEPT !.rows = rows, !.endTime = EndBefore(batch), !.attempt = 0, !.first = FALSE]

PageArrives ==
    /\ fetch.at = "page"
    /\ fetch' = Turn(fetch, Page(BatchSize(fetch), fetch.endTime))
    /\ firstSeen' = IF fetch.first THEN listed ELSE firstSeen
    /\ UNCHANGED listed

MarketNext == Open \/ get_candles \/ RequestFails \/ PageArrives

MarketSpec == MarketInit /\ [][MarketNext]_marketVars
-----------------------------------------------------------------------------
\* "the final result is the most recent num_candles candles (ascending by open time)",
\* start and end being absolute bounds: whatever candles open and whatever requests
\* are repeated between two pages, the rows are exactly the latest of those the
\* exchange had at the first page, none twice and none left out; and a fetch finds
\* no data only if there was none.
PaginationExact ==
    LET asked == Ascending(Within(firstSeen, fetch.start, fetch.end))
    IN  /\ fetch.at = "done" => fetch.rows = Latest(asked, fetch.n)
        /\ fetch.at = "nodata" => asked = <<>>
=============================================================================
