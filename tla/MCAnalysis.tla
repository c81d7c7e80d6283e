----------------------------- MODULE MCAnalysis -----------------------------
(***************************************************************************)
(* From candles to a trade: the data source, the analysis of a request,    *)
(* the signal engine, the walk of the weights and the harness of the       *)
(* strategy groups.  They share no state here: a behaviour runs one.       *)
(***************************************************************************)
EXTENDS SignalEngine, WalkForward, AnalysisPipeline, MarketData, BacktestHarness

CONSTANTS
    Machines,   \* the machines a run explores
    w1, w2

VARIABLE machine

\* Two candidates of the grid; a well-formed signal of either side and bars that reach
\* the entry, one level, both levels or nothing.
MCGrid == <<w1, w2>>
MCWalkSignals ==
    {[direction |-> "long", entry |-> 5, close |-> 6, stop |-> 3, tp1 |-> 8],
     [direction |-> "short", entry |-> 5, close |-> 4, stop |-> 7, tp1 |-> 2]}
MCWalkBars ==
    {[low |-> l, high |-> h] : l \in {1, 4}, h \in {5, 8}} \cup {[low |-> 9, high |-> 9]}

\* A low, a middle and a high bar; long and short patterns, one without risk, one too
\* old, one still forming and one whose zone is not positive.
BarOf(l, h, c) == [low |-> l, high |-> h, close |-> c]
MCHarnessBars == {BarOf(3, 5, 4), BarOf(5, 7, 6), BarOf(7, 9, 9)}
Long == [bullish |-> TRUE, formed |-> TRUE, family |-> "XABCD", age |-> 1, c_idx |-> 1,
         prz_low |-> 4, prz_high |-> 5, entry |-> 5, stop |-> 3, tp1 |-> 7, tp2 |-> 8]
Short == [Long EXCEPT !.bullish = FALSE, !.prz_low = 5, !.prz_high = 6, !.stop = 8, !.tp1 = 4, !.tp2 = 3]
MCFoundPatterns ==
    {Long, Short, [Long EXCEPT !.stop = 5], [Long EXCEPT !.age = 9], [Long EXCEPT !.formed = FALSE],
     [Long EXCEPT !.prz_low = 0]}

\* Prices around 100000 with an ATR of 2000: zones two, and five, per cent wide, price
\* inside, on both sides of and through them, swings near and far.
Osc(rsi, moving, rd, md, macd, hist, prev) ==
    [rsi |-> rsi, moving |-> moving, rsiDivs |-> rd, macdDivs |-> md,
     macd |-> macd, hist |-> hist, histPrev |-> prev]
Div(name, bullish) == {[name |-> name, bullish |-> bullish]}

\* Strong and weak readings of either side, and one that moves nowhere.
LongStrong == Osc(28, "up", Div("Regular", TRUE), Div("Regular", TRUE), -1, 2, 1)
LongWeak == Osc(38, "up", Div("Hidden", TRUE), Div("Regular", TRUE), -1, 1, 2)
Idle == Osc(50, "flat", {}, {}, 0, 0, 0)
ShortWeak == Osc(63, "down", Div("Regular", FALSE), {}, 1, -1, 0)
ShortStrong == Osc(72, "down", Div("Regular", FALSE), Div("Hidden", FALSE), 1, -2, -1)

\* Trend, regime, authenticity, momentum, reversal candle, volume, oscillators.
Mood(trend, regime, auth, sharpe, reversal, expansion, osc) ==
    [trend |-> trend, regime |-> regime, auth |-> auth, sharpe |-> sharpe,
     reversal |-> reversal, expansion |-> expansion, osc |-> osc]
MCMoods ==
    {Mood("bullish", "normal", 60, 0, "bull", TRUE, LongStrong),
     Mood("bullish", "high_quant", 60, 0, "bull", TRUE, LongStrong),
     Mood("bullish", "high_quant", 60, 0, "none", FALSE, LongWeak),
     Mood("bearish", "moderate_quant", 30, 0, "bear", FALSE, ShortStrong),
     Mood("bearish", "high_quant", 60, 0, "bear", TRUE, ShortWeak),
     Mood("unknown", "high_quant", 20, -2, "none", FALSE, Idle)}

Market(price, low, high, below, above, atr, mood) ==
    [price |-> price, low |-> price - low, high |-> price + high, atr |-> atr,
     anchorLow |-> price - low - below, swingLow |-> price - low - below,
     anchorHigh |-> price + high + above, swingHigh |-> price + high + above,
     reversal |-> mood.reversal, expansion |-> mood.expansion, authenticity |-> mood.auth,
     regime |-> mood.regime, trend |-> mood.trend, sharpe |-> mood.sharpe, osc |-> mood.osc]

MCMarkets ==
    {Market(price, wick, 1000, swing, 4000 - swing, 2000, mood) :
        price \in {95000, 97000, 99000, 101000}, wick \in {1000, 2000},
        swing \in {0, 4000}, mood \in MCMoods}
    \cup
    \* no volatility at all, and a price that has collapsed below its own ATR
    {Market(99000, 0, 0, 0, 0, 0, mood) : mood \in MCMoods}
    \cup
    {Market(3000, 1000, 1000, 0, 0, 4000, mood) : mood \in MCMoods}

Pattern(bullish, formed, extended, x, a, low, high, age, breaks, failed, bump) ==
    [bullish |-> bullish, formed |-> formed, extended |-> extended, x |-> x, a |-> a,
     low |-> low, high |-> high, age |-> age, breaks |-> breaks, hunts |-> breaks = "warn",
     climax |-> breaks = "penalty", zoneFailed |-> failed, bump |-> bump]

MCCandidates ==
    {Pattern(TRUE, formed, FALSE, 96000, a, 98000, 100000, 3, "none", FALSE, 5) :
        formed \in BOOLEAN, a \in {114000, 120000}}
    \cup
    {Pattern(FALSE, formed, FALSE, 102000, a, 98000, 100000, 3, "warn", FALSE, 5) :
        formed \in BOOLEAN, a \in {84000, 78000}}
    \cup
    {Pattern(TRUE, TRUE, TRUE, 101000, 118000, 98000, 100000, 3, "none", FALSE, -3),
     Pattern(FALSE, TRUE, TRUE, 97000, 80000, 98000, 100000, 3, "penalty", FALSE, -3),
     Pattern(TRUE, TRUE, FALSE, 93000, 120000, 95000, 100000, 3, "none", FALSE, 2),
     Pattern(TRUE, TRUE, FALSE, 96000, 120000, 98000, 100000, 21, "none", FALSE, 0),
     Pattern(TRUE, TRUE, FALSE, 96000, 120000, 98000, 100000, 3, "veto", FALSE, 0),
     Pattern(TRUE, TRUE, FALSE, 1000, 9000, 2000, 3000, 3, "none", FALSE, 0)}

\* A request finds a formed, a forming or, by its type, no pattern, with levels that
\* are complete, break the contract of net_rr, or are to be computed again.
MCSearches == {[formed |-> {}, forming |-> {"XABCD"}], [formed |-> {"ABC"}, forming |-> {"XABCD"}]}
MCPatterns == {[min |-> "positive", max |-> "positive"]}
MCPositions ==
    {PositionRaises} \cup
    {[raises |-> FALSE, stop |-> p[1], target |-> p[2]] :
        p \in {<<"positive", "positive">>, <<"positive", "negative">>, <<"negative", "negative">>}}

IdleMarket == listed = {} /\ fetch = [at |-> "idle"] /\ firstSeen = {}
IdleHarness ==
    /\ HarnessInit
    /\ picked = [anchor |-> Min(Anchors), cand |-> Long, signal |-> "none"]
IdleWalk == WalkInit /\ mode = "prz"
IdleEngine == SignalInit /\ IdleWalk

AnalysisInit ==
    /\ machine \in Machines
    /\ \/ machine = "engine" /\ IdleEngine /\ PipeInit /\ IdleMarket /\ IdleHarness
       \/ machine = "walk" /\ SignalInit /\ WalkInit /\ PipeInit /\ IdleMarket /\ IdleHarness
       \/ machine = "pipeline" /\ IdleEngine /\ PipeInit /\ IdleMarket /\ IdleHarness
       \/ machine = "market" /\ IdleEngine /\ PipeInit /\ MarketInit /\ IdleHarness
       \/ machine = "harness" /\ IdleEngine /\ PipeInit /\ IdleMarket /\ HarnessInit

AnalysisNext ==
    \/ machine = "engine" /\ SignalNext /\ UNCHANGED <<machine, walkVars, pipeVars, marketVars, harnessVars>>
    \/ machine = "walk" /\ WalkNext /\ UNCHANGED <<machine, sigVars, pipeVars, marketVars, harnessVars>>
    \/ machine = "pipeline" /\ PipeNext /\ UNCHANGED <<machine, sigVars, walkVars, marketVars, harnessVars>>
    \/ machine = "market" /\ MarketNext /\ UNCHANGED <<machine, sigVars, walkVars, pipeVars, harnessVars>>
    \/ machine = "harness" /\ HarnessNext /\ UNCHANGED <<machine, sigVars, walkVars, pipeVars, marketVars>>

AnalysisSpec ==
    AnalysisInit /\ [][AnalysisNext]_<<machine, sigVars, walkVars, pipeVars, marketVars, harnessVars>>

Symmetric == Permutations(Request)
=============================================================================
