-------------------------- MODULE AnalysisPipeline --------------------------
(***************************************************************************)
(* AnalysisOrchestrator.analyze (app/services/analysis.py) with the data   *)
(* and the caches under it (app/infra/pyharmonics_adapter.py,              *)
(* kline_cache.py, analysis_cache.py, tradingview_adapter.py).  Requests   *)
(* run side by side and share a cache of candles by market, symbol,        *)
(* interval and limit (here: by symbol) and one of answers by user and     *)
(* Idempotency-Key.  Prices are abstracted to their signs and candles to   *)
(* the time since they were read at the source: the clock is kept as the   *)
(* ages of what it stamps, so behaviours have no end.                      *)
(*                                                                         *)
(* detect_patterns stores no "raw_assessment", so extract_candidates finds *)
(* nothing and no signal is ever built: the levels of an answer are those  *)
(* of the raw position.                                                    *)
(***************************************************************************)
EXTENDS Integers, Sequences, SequencesExt

CONSTANTS
    Request, Symbol, IdemKey, NoKey,
    AnalysisTypes,
    Searches,       \* what pyharmonics may find: formed and forming families
    Patterns,       \* signs of a pattern's completion prices
    Positions,      \* signs of the stop and first target Position computes, or PositionRaises
    KlineTTL,       \* KLINE_CACHE_TTL_SECONDS, in the clock's unit
    AnalysisTTL,    \* ANALYSIS_CACHE_TTL_SECONDS
    MaxRun          \* bound: how long a request runs

ASSUME PipelineAssumption ==
    {KlineTTL, AnalysisTTL, MaxRun} \subseteq Nat /\ NoKey \notin IdemKey

VARIABLES
    kline,      \* symbol -> candles held, with their age and time left, or Missing
    answers,    \* Idempotency-Key -> answer held, or Missing
    run         \* request -> how far it is and what it has

pipeVars == <<kline, answers, run>>

Missing == [held |-> FALSE]
Absent == "none"
PositionRaises == [raises |-> TRUE]
Families == <<"XABCD", "ABCD", "ABC">>
Waiting == [at |-> "idle"]

PipeInit ==
    /\ kline = [s \in Symbol |-> Missing]
    /\ answers = [k \in IdemKey |-> Missing]
    /\ run = [r \in Request |-> Waiting]

Step(r, next) == run' = [run EXCEPT ![r] = next]
\* The fields of f laid over the run so far.
Goes(r, f) == Step(r, [x \in DOMAIN run[r] \cup DOMAIN f |-> IF x \in DOMAIN f THEN f[x] ELSE run[r][x]])
Fails(r, code, blamed) == Step(r, [at |-> "failed", code |-> code, blamed |-> blamed])
\* An answer for a symbol whose price was lag old when it was stamped, since ago.
Gives(r, status, symbol, lag, since) ==
    Step(r, [at |-> "answered", status |-> status, asked |-> run[r].symbol, for |-> symbol,
             lag |-> lag, since |-> since])
-----------------------------------------------------------------------------
\* The validated request; only one with a user and a key is looked up.
Arrive(r) ==
    \E s \in Symbol, k \in IdemKey \cup {NoKey} :
        /\ run[r] = Waiting
        /\ Step(r, [at |-> IF k = NoKey THEN "fetch" ELSE "lookup", symbol |-> s, key |-> k,
                    ran |-> 0, blamed |-> {}])
        /\ UNCHANGED <<kline, answers>>

\* AnalysisCache.get and _restore_cached.  model_validate_json comes first and
\* raises on a price that is not positive; an answer with an entry and no stop is
\* dirty and computed again.  (Here and below, a cache that raises is a miss.)
Malformed(tech) == "negative" \in {tech.entry, tech.stop, tech.target}
Dirty(tech) == tech.entry # Absent /\ tech.stop = Absent
Lookup(r) ==
    LET entry == answers[run[r].key]
    IN  /\ run[r].at = "lookup"
        /\ \/ Goes(r, [at |-> "fetch"])
           \/ entry.held /\ Malformed(entry.tech) /\ Fails(r, "INTERNAL_ERROR", {"replay"})
           \/ /\ entry.held /\ ~Malformed(entry.tech) /\ ~Dirty(entry.tech)
              /\ Gives(r, "RESTORED", entry.for, entry.lag, entry.since)
        /\ UNCHANGED <<kline, answers>>

\* A hit puts the candles back with a fresh time to live.
FetchCachedSliding(r) ==
    LET entry == kline[run[r].symbol]
    IN  /\ run[r].at = "fetch"
        /\ \/ Goes(r, [at |-> "source"]) /\ UNCHANGED kline
           \/ /\ entry.held /\ Goes(r, [at |-> "candles", age |-> entry.age])
              /\ kline' = [kline EXCEPT ![run[r].symbol].left = KlineTTL]
        /\ UNCHANGED answers

\* KLineCache.get: candles within the TTL are used as they are.
FetchCached(r) ==
    LET entry == kline[run[r].symbol]
    IN  /\ run[r].at = "fetch"
        /\ \/ Goes(r, [at |-> "source"])
           \/ entry.held /\ Goes(r, [at |-> "candles", age |-> entry.age])
        /\ UNCHANGED <<kline, answers>>

\* is_tradingview_enabled() and is_bridge_healthy(): a probe at most some seconds old
\* says whether TradingView is asked first.  The source reads its candles now.
Ask(r) ==
    /\ run[r].at = "source"
    /\ \E source \in {"tradingview", "legacy"} : Goes(r, [at |-> source, age |-> 0])
    /\ UNCHANGED <<kline, answers>>

\* KLineCache.set: the candles, with a time to live from now.
KlineEntry(age) == [held |-> TRUE, age |-> age, left |-> KlineTTL]

\* _cache_candle_data stores the candles; a failure of it is logged.
_cache_candle_data(r) ==
    \/ kline' = [kline EXCEPT ![run[r].symbol] = KlineEntry(run[r].age)]
    \/ UNCHANGED kline

\* The bridge answers one question, without a retry, and with candles...
TradingViewAnswers(r) ==
    /\ run[r].at = "tradingview"
    /\ Goes(r, [at |-> "candles"])
    /\ _cache_candle_data(r)
    /\ UNCHANGED answers

\* ... the legacy source after its retries.
Receive(r) ==
    /\ run[r].at = "legacy"
    /\ Goes(r, [at |-> "candles"])
    /\ _cache_candle_data(r)
    /\ UNCHANGED answers

\* A bridge that is disabled by now, out of reach, unsuccessful or without candles is
\* followed by a question to the legacy source...
FallBack(r) ==
    /\ run[r].at = "tradingview"
    /\ Goes(r, [at |-> "legacy", age |-> 0, blamed |-> {"tradingview"}])
    /\ UNCHANGED <<kline, answers>>

\* ... whose failure is the request's.
SourceFails(r) ==
    /\ run[r].at = "legacy"
    /\ Fails(r, "MARKET_DATA_UNAVAILABLE", run[r].blamed \cup {"legacy"})
    /\ UNCHANGED <<kline, answers>>

\* The close of the last candle is the current price, stamped with the time of now.
Price(r) ==
    /\ run[r].at = "candles"
    /\ Step(r, [at |-> "detect", symbol |-> run[r].symbol, key |-> run[r].key, ran |-> run[r].ran,
                lag |-> run[r].age, since |-> 0])
    /\ UNCHANGED <<kline, answers>>
-----------------------------------------------------------------------------
\* detect_patterns: forming patterns are searched for in two of the modes; the first
\* family with a formed one wins, then the first with a forming one.
Found(search, type) ==
    LET forming == IF type \in {"forming", "auto"} THEN search.forming ELSE {}
    IN  SelectSeq(Families, LAMBDA f : f \in search.formed) \o SelectSeq(Families, LAMBDA f : f \in forming)

\* _compute_strike: the middle of the completion zone, for ABC its upper end, or 0.
_compute_strike(pattern, family) ==
    IF /\ pattern.max = "positive"
       /\ family = "ABC" \/ pattern.min = "positive"
    THEN "positive" ELSE "zero"

\* A stop that is not positive is none, a target is taken as it comes.
_PatternPosition(pattern, family, position) ==
    [strike |-> _compute_strike(pattern, family),
     stop |-> IF position # PositionRaises /\ position.stop = "positive" THEN "positive" ELSE Absent,
     target |-> IF position = PositionRaises THEN Absent ELSE position.target]

\* technical_result_to_schema: 0 is falsy, so a strike of 0 is no entry.
technical_result_to_schema(p) ==
    [entry |-> IF p.strike = "zero" THEN Absent ELSE p.strike, stop |-> p.stop, target |-> p.target]

\* net_rr has the contract that a target is positive.
BreaksContract(tech) == tech.entry # Absent /\ tech.stop # Absent /\ tech.target = "negative"

\* Without a pattern the answer is NO_RESULT, and is not cached.  (The request's type
\* is chosen here, where it is first read.)
Detect(r) ==
    /\ run[r].at = "detect"
    /\ \E type \in AnalysisTypes, search \in Searches, pattern \in Patterns, position \in Positions :
          LET found == Found(search, type)
              tech == technical_result_to_schema(_PatternPosition(pattern, Head(found), position))
          IN  \/ found = <<>> /\ Gives(r, "NO_RESULT", run[r].symbol, run[r].lag, run[r].since)
              \/ found # <<>> /\ ~BreaksContract(tech) /\ Goes(r, [at |-> "interpret", tech |-> tech])
              \/ found # <<>> /\ BreaksContract(tech) /\ Fails(r, "INTERNAL_ERROR", {"geometry"})
    /\ UNCHANGED <<kline, answers>>

DetectFails(r) ==
    /\ run[r].at = "detect" /\ Fails(r, "DETECTION_ERROR", {"pyharmonics"})
    /\ UNCHANGED <<kline, answers>>

\* AnalysisCache.set: the answer as it is given, with a time to live from now.
AnswerEntry(x) ==
    [held |-> TRUE, tech |-> x.tech, lag |-> x.lag, since |-> x.since, for |-> x.symbol, left |-> AnalysisTTL]

\* The model's answer is optional, and its failure leaves a summary that says so.
\* The answer is cached under the key, if any, and given.  (Without a key it is
\* stored under the request's parameters, where nothing looks.)
Answer(r) ==
    /\ run[r].at = "interpret"
    /\ Gives(r, "COMPLETED", run[r].symbol, run[r].lag, run[r].since)
    /\ \/ /\ run[r].key # NoKey
          /\ answers' = [answers EXCEPT ![run[r].key] = AnswerEntry(run[r])]
       \/ UNCHANGED answers
    /\ UNCHANGED kline

\* The client is gone; the thread takes another request.
Leave(r) ==
    /\ run[r].at \in {"answered", "failed"} /\ Step(r, Waiting)
    /\ UNCHANGED <<kline, answers>>

\* A unit of time passes: what is held grows older, and goes when its time is up.
Older(e) ==
    [x \in DOMAIN e |-> CASE x \in {"age", "since", "ran"} -> e[x] + 1
                          [] x = "left" -> e[x] - 1
                          [] OTHER -> e[x]]
StillHeld(e) == IF e.held /\ e.left > 0 THEN Older(e) ELSE Missing
Busy(r) == run[r].at \notin {"idle", "answered", "failed"}
Elapse ==
    /\ \A r \in Request : Busy(r) => run[r].ran < MaxRun
    /\ kline' = [s \in Symbol |-> StillHeld(kline[s])]
    /\ answers' = [k \in IdemKey |-> StillHeld(answers[k])]
    /\ run' = [r \in Request |-> IF Busy(r) THEN Older(run[r]) ELSE run[r]]

PipeNext ==
    \/ \E r \in Request :
          \/ Arrive(r) \/ Lookup(r) \/ FetchCached(r) \/ Ask(r) \/ TradingViewAnswers(r)
          \/ Receive(r) \/ FallBack(r) \/ SourceFails(r) \/ Price(r) \/ Detect(r) \/ DetectFails(r) \/ Answer(r) \/ Leave(r)
    \/ Elapse

PipeSpec == PipeInit /\ [][PipeNext]_pipeVars
-----------------------------------------------------------------------------
Answered(r) == run[r].at = "answered"

\* The price in an answer, which says it is the price at its stamp, is older than
\* that by at most the time to live of the candles and two runs (the one that stored
\* them and the one that stamps); an answer restored by its key is at most the time
\* to live of answers and one run older than its stamp.  A slow request may overwrite
\* newer candles with older ones and give those a full time to live: it never adds
\* up over several requests.
BoundedStaleness ==
    \A r \in Request : Answered(r) =>
        /\ run[r].lag <= KlineTTL + 2 * MaxRun
        /\ run[r].since <= AnalysisTTL + MaxRun

\* "so the app keeps working even if the bridge is down": candles are missing only
\* when the legacy source failed, in this very request.
BridgeNeverFatal ==
    \A r \in Request :
        run[r].at = "failed" /\ run[r].code = "MARKET_DATA_UNAVAILABLE" => "legacy" \in run[r].blamed

\* "conveys 'this price is current as of HH:MM:SS UTC'" (analysis.py:226): the price
\* was read in the run that stamps it.
PriceIsCurrent == \A r \in Request : Answered(r) => run[r].lag <= MaxRun

\* "Cache hit for idempotent request": a key answers for the symbol it was sent with.
AnswerIsForRequest == \A r \in Request : Answered(r) => run[r].for = run[r].asked

\* "Dirty cache (v1 schema or malformed payload) - drop it and fall through to the
\* live detection path": a restored answer never fails a request.
ReplayNeverRaises == \A r \in Request : run[r].at = "failed" => "replay" \notin run[r].blamed
=============================================================================
