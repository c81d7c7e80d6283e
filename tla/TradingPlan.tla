----------------------------- MODULE TradingPlan -----------------------------
(***************************************************************************)
(* The trading plan of the RSI strategy: evaluate_decision and             *)
(* compute_targets (app/domain/rsi_trend_plan.py) and build_plan with its  *)
(* process-wide cache of AI insights                                       *)
(* (app/services/rsi_trend_plan_service.py, app/services/llm_client.py).   *)
(*                                                                         *)
(* The market prints bars; a plan is built from the snapshot of the last   *)
(* bar and the most recent signal.  The quota each request pays for is the *)
(* subject of MeteredRoutes.                                               *)
(***************************************************************************)
EXTENDS Integers

CONSTANTS PlanKeys,      \* the "symbol:interval" a request may name
          Entries,       \* closes a signal may be given at
          Risks,         \* distances of its stop: detect_signals drops a signal without one
          Ages,          \* bars since the signal
          Qualities,     \* its score
          Deviations,    \* distance of the last close from the EMA200, per cent
          MaxPlanBars    \* bound: bars printed

ASSUME PlanAssumption ==
    /\ Entries \subseteq Int /\ Risks \subseteq Nat \ {0}
    /\ Ages \subseteq Nat /\ Qualities \subseteq 0 .. 100 /\ Deviations \subseteq Nat
    /\ MaxPlanBars \in Nat

DEVIATION_WATCH_PCT == 15
STALE_BARS == 12
QUALITY_HARD_FLOOR == 50

NoSignal == [direction |-> "none", age |-> 999, quality |-> 0, entry |-> 0, stop |-> 0]
NoInsight == [bar |-> 0, action |-> "none"]

\* The latest signal: detect_signals puts the stop below a long entry and above
\* a short one.
Signals ==
    {[direction |-> d, age |-> a, quality |-> q, entry |-> e,
      stop |-> IF d = "long" THEN e - r ELSE e + r] :
        d \in {"long", "short"}, a \in Ages, q \in Qualities, e \in Entries, r \in Risks}

Snapshots ==
    [trend : {"bullish"}, deviation : Deviations, entangled : BOOLEAN,
     signal : Signals \cup {NoSignal}]
    \cup
    [trend : {"bearish"}, deviation : {0 - d : d \in Deviations}, entangled : BOOLEAN,
     signal : Signals \cup {NoSignal}]
    \cup
    [trend : {"neutral"}, deviation : {0}, entangled : {TRUE}, signal : {NoSignal}]

VARIABLES planBar,       \* index of the last bar
          snapshot,      \* market overview and latest signal at that bar
          aiCache,       \* _AI_CACHE, one slot per key of this process
          reply          \* the plan last returned, or why there is none
planVars == <<planBar, snapshot, aiCache, reply>>

-----------------------------------------------------------------------------
Abs(x) == IF x < 0 THEN 0 - x ELSE x

Direction(m) ==
    CASE m.trend = "bullish" -> "long"
      [] m.trend = "bearish" -> "short"
      [] OTHER               -> "none"

\* Mutant: the direction of the signal is not compared with the trend.
DecideWithoutConflict(m) ==
    CASE Direction(m) = "none"                      -> "watch"
      [] Abs(m.deviation) >= DEVIATION_WATCH_PCT    -> "watch"
      [] m.entangled                                -> "watch"
      [] m.signal = NoSignal                        -> "no_trade"
      [] m.signal.age > STALE_BARS                  -> "watch"
      [] m.signal.quality < QUALITY_HARD_FLOOR      -> "no_trade"
      [] OTHER                                      -> "trade"
\* The four layers, in their order; the first that objects decides.
evaluate_decision(m) ==
    CASE Direction(m) = "none"                      -> "watch"
      [] Abs(m.deviation) >= DEVIATION_WATCH_PCT    -> "watch"
      [] m.entangled                                -> "watch"
      [] m.signal = NoSignal                        -> "no_trade"
      [] m.signal.direction # Direction(m)          -> "no_trade"
      [] m.signal.age > STALE_BARS                  -> "watch"
      [] m.signal.quality < QUALITY_HARD_FLOOR      -> "no_trade"
      [] OTHER                                      -> "trade"

\* Targets at 1, 2 and 3.5 times the risk, in half units of price.
compute_targets(m) ==
    LET risk == Abs(m.signal.entry - m.signal.stop)
        sign == IF Direction(m) = "long" THEN 1 ELSE -1
    IN  <<2 * m.signal.entry + sign * 2 * risk,
          2 * m.signal.entry + sign * 4 * risk,
          2 * m.signal.entry + sign * 7 * risk>>

\* What the LLM gives within its retry: a text that is no JSON and a JSON object
\* with a summary both become an insight; a failure, an empty answer and an
\* object without a summary become none; any other JSON value raises.
Answers == {"insight", "nothing", "raises"}

-----------------------------------------------------------------------------
NoReply == [status |-> "none", action |-> "none", direction |-> "none",
            targets |-> <<>>, insight |-> NoInsight]

PlanInit ==
    /\ planBar = 1
    /\ snapshot \in Snapshots
    /\ aiCache = [k \in PlanKeys |-> NoInsight]
    /\ reply = NoReply

NextBar(m) ==
    /\ planBar < MaxPlanBars
    /\ planBar' = planBar + 1
    /\ snapshot' = m
    /\ reply' = NoReply
    /\ UNCHANGED aiCache

Respond(insight) ==
    LET action == evaluate_decision(snapshot)
    IN  reply' = [status |-> "ok", action |-> action,
                  direction |-> IF action = "trade" THEN Direction(snapshot) ELSE "none",
                  targets |-> IF action = "trade" THEN compute_targets(snapshot) ELSE <<>>,
                  insight |-> insight]

AsksForInsight == evaluate_decision(snapshot) \in {"trade", "watch"}

\* The cache key is symbol:interval:bar_key.  bar_key is read from a field of the
\* request that nothing sets, so it is the same empty string at every bar.
CacheKey(k) == k

BuildPlanPlain ==
    /\ ~AsksForInsight
    /\ Respond(NoInsight)
    /\ UNCHANGED <<planBar, snapshot, aiCache>>

BuildPlanCached(k) ==
    /\ AsksForInsight
    /\ aiCache[CacheKey(k)] # NoInsight
    /\ Respond(aiCache[CacheKey(k)])
    /\ UNCHANGED <<planBar, snapshot, aiCache>>

BuildPlanAsk(k, answer) ==
    /\ AsksForInsight
    /\ aiCache[CacheKey(k)] = NoInsight
    /\ LET insight == [bar |-> planBar, action |-> evaluate_decision(snapshot)]
       IN  CASE answer = "insight" -> /\ aiCache' = [aiCache EXCEPT ![CacheKey(k)] = insight]
                                      /\ Respond(insight)
             [] answer = "nothing" -> Respond(NoInsight) /\ UNCHANGED aiCache
             [] answer = "raises"  -> /\ reply' = [NoReply EXCEPT !.status = "error"]
                                      /\ UNCHANGED aiCache
    /\ UNCHANGED <<planBar, snapshot>>

\* A new process starts with an empty cache.
Restart ==
    /\ aiCache' = [k \in PlanKeys |-> NoInsight]
    /\ reply' = NoReply
    /\ UNCHANGED <<planBar, snapshot>>

PlanNext ==
    \/ \E m \in Snapshots : NextBar(m)
    \/ BuildPlanPlain
    \/ \E k \in PlanKeys : BuildPlanCached(k) \/ \E a \in Answers : BuildPlanAsk(k, a)
    \/ Restart

PlanSpec == PlanInit /\ [][PlanNext]_planVars

-----------------------------------------------------------------------------
\* A plan to trade is one that can be traded: stop, entry and targets lie in
\* order along the direction the decision names.  The direction comes from the
\* trend at the last bar, entry and stop from a signal several bars older.
PlanIsOrdered ==
    reply.action = "trade" =>
        LET s == 2 * snapshot.signal.stop
            e == 2 * snapshot.signal.entry
            t == reply.targets
        IN  \/ reply.direction = "long" /\ s < e /\ e < t[1] /\ t[1] < t[2] /\ t[2] < t[3]
            \/ reply.direction = "short" /\ s > e /\ e > t[1] /\ t[1] > t[2] /\ t[2] > t[3]

\* "AI insight (cached per bar, only for trade/watch)" (rsi_trend_plan_service.py:115):
\* the insight in a plan was given for the bar the plan is about.
InsightIsOfThisBar ==
    reply.insight # NoInsight => reply.insight.bar = planBar

\* "LLM summary (null when skipped/failed)" (rsi_trend_plan.py:135): a useless
\* answer of the LLM costs the plan its insight and nothing else.
LlmFailureIsHarmless == reply.status # "error"
=============================================================================
