--------------------------- MODULE BacktestHarness ---------------------------
(***************************************************************************)
(* The walk-forward harness of the strategy groups                         *)
(* (.scratch/backtest/run_backtest_v3.py, and run_backtest.py before it).  *)
(* A candidate found at an anchor bar is entered one bar later, in three   *)
(* groups with more and more filters, over a frame that holds the whole    *)
(* history.  Whether a filter looks into the future is a question about    *)
(* two histories: the harness runs over two worlds whose bars agree up to  *)
(* the entry bar and may differ after it.                                  *)
(***************************************************************************)
EXTENDS Integers, Sequences, SequencesExt, FiniteSetsExt

CONSTANTS
    max_ttl,        \* default_ttl_bars
    min_daily_bars,
    SlopeDays,      \* days between the two averages of the slope
    HarnessBars,    \* bars a market may show
    FoundPatterns,  \* what the search finds at the anchor
    Anchors,        \* positions of the anchor
    FrameLength,    \* bars in a frame
    BarsPerDay,
    max_age_bars, max_hold_bars

ASSUME HarnessAssumption ==
    /\ max_ttl \in Nat /\ min_daily_bars \in Nat \ {0} /\ SlopeDays \in Nat \ {0}
    /\ {FrameLength, BarsPerDay, max_hold_bars} \subseteq Nat \ {0} /\ max_age_bars \in Nat
    /\ Anchors \subseteq 1 .. FrameLength - 2      \* the code stays 50 bars off the end
    /\ \A b \in HarnessBars : {b.low, b.high, b.close} \subseteq Int /\ b.low <= b.close /\ b.close <= b.high
    \* what the direction gate of the engine leaves of a signal's levels
    /\ \A p \in FoundPatterns :
          /\ {p.entry, p.stop, p.tp1, p.tp2} \subseteq Int
          /\ p.bullish => p.stop <= p.entry /\ p.entry <= p.tp1 /\ p.tp1 <= p.tp2
          /\ ~p.bullish => p.stop >= p.entry /\ p.entry >= p.tp1 /\ p.tp1 >= p.tp2

VARIABLES
    frame,      \* world -> its bars
    picked,      \* the candidate, its anchor and whether it gives a signal
    turn,       \* what the run does next: "data", a group, "done" or "failed"
    trades      \* group -> world -> the trade, or NoTrade

harnessVars == <<frame, picked, turn, trades>>

World == {"a", "b"}
Groups == <<"control", "strict", "experimental">>
NoTrade == [taken |-> FALSE]
entry_bar == picked.anchor + 1

----------------------------------------------------------------------------
\* The discipline checks (app/services/discipline_filters.py) and the macro overlay
\* (app/services/macro_bias.py).  Prices are integers, positions in a frame count from 1;
\* the averages keep their form, with spans short enough to compute.

\* Wicks count: any bar after C that overlaps the zone, on either side.
_prz_was_touched(after, c) == \E i \in DOMAIN after : after[i].high >= c.prz_low /\ after[i].low <= c.prz_high

_past_tp2(price, c) == IF c.bullish THEN price > c.tp2 ELSE price < c.tp2

\* evaluate: a breach and TP2 reject, age only downgrades.
evaluate(bars, c, price) ==
    LET breached == _prz_was_touched(SubSeq(bars, c.c_idx + 1, Len(bars)), c)
        past == _past_tp2(price, c)
    IN  [passed |-> ~breached /\ ~past, breached |-> breached, past_tp2 |-> past,
         stale |-> Len(bars) - c.c_idx > max_ttl,
         in_prz |-> c.prz_low <= price /\ price <= c.prz_high]

\* The exponential average of the daily closes, in 64ths.  Its weight is 1/2, the
\* span 3, in place of 200.
Unit == 64
Ema(closes) == FoldLeft(LAMBDA e, p : (e + Unit * p) \div 2, Unit * closes[1], Tail(closes))

\* compute: the multiplier, in tenths, from the side of the average, its slope and
\* how far the price is from it.
Macro(mult, dir, versus) == [size_mult |-> mult, macro_dir |-> dir, signal_vs_macro |-> versus]
compute(daily, long) ==
    IF Len(daily) < min_daily_bars THEN Macro(8, "short", "unknown")
    ELSE LET now == Ema(daily)
             before == IF Len(daily) > SlopeDays THEN Ema(SubSeq(daily, 1, Len(daily) - SlopeDays)) ELSE now
             price == Unit * Last(daily)
             above == price > now
             trending_up == 1000 * (now - before) >= 5 * before
             trending_down == 1000 * (now - before) <= -5 * before
             aligned == long = above
             extreme == 100 * (price - now) > 20 * now \/ 100 * (now - price) > 20 * now
             dir == IF above THEN "bull" ELSE "bear"
         IN  CASE extreme /\ ~aligned -> Macro(12, dir, "against, extreme")
               [] aligned -> Macro(10, dir, "with")      \* trending and ranging alike
               [] ~extreme /\ ~aligned /\ (IF long THEN trending_up ELSE trending_down) -> Macro(6, dir, "against")
               [] OTHER -> Macro(5, dir, "against")
----------------------------------------------------------------------------
\* The formed XABCD patterns whose D is fresh at the anchor.
find_fresh_patterns == {p \in FoundPatterns : p.formed /\ p.family = "XABCD" /\ p.age <= max_age_bars}

HarnessInit ==
    /\ frame = [w \in World |-> <<>>]
    /\ picked \in [anchor : Anchors, cand : find_fresh_patterns, signal : {"built", "none", "raises"}]
    /\ turn = "data"
    /\ trades = [g \in Range(Groups) |-> [w \in World |-> NoTrade]]

\* The market: one history up to the entry bar, two after it.
Bar ==
    /\ turn = "data" /\ Len(frame["a"]) < FrameLength
    /\ \E x, y \in HarnessBars :
          /\ Len(frame["a"]) < entry_bar => x = y
          /\ frame' = [w \in World |-> Append(frame[w], IF w = "a" THEN x ELSE y)]
    /\ UNCHANGED <<picked, turn, trades>>

\* The frame is complete, and the first group runs over it.
Load ==
    /\ turn = "data" /\ Len(frame["a"]) = FrameLength
    /\ turn' = Groups[1]
    /\ UNCHANGED <<frame, picked, trades>>
-----------------------------------------------------------------------------
\* _simulate_trade: the first later bar that reaches a level ends the trade, the stop
\* before the targets; else the close of the last bar does.
_simulate_trade(bars, c) ==
    LET end == IF entry_bar + max_hold_bars < Len(bars) THEN entry_bar + max_hold_bars ELSE Len(bars)
        toward(x) == IF c.bullish THEN x - c.entry ELSE c.entry - x
        hits(i, level) == IF c.bullish THEN bars[i].high >= level ELSE bars[i].low <= level
        stops(i) == IF c.bullish THEN bars[i].low <= c.stop ELSE bars[i].high >= c.stop
        exits == {i \in entry_bar + 1 .. end : stops(i) \/ hits(i, c.tp1) \/ hits(i, c.tp2)}
        risk == 0 - toward(c.stop)
        Ends(i, gain, reason) == [taken |-> TRUE, exit_bar |-> i, gain |-> gain, risk |-> risk, reason |-> reason]
    IN  CASE c.entry = c.stop -> Ends(entry_bar, 0, "degenerate_risk")
          [] c.entry # c.stop /\ exits = {} -> Ends(end, toward(bars[end].close), "end_of_data")
          [] c.entry # c.stop /\ exits # {} ->
               LET i == Min(exits)
               IN  IF stops(i) THEN Ends(i, 0 - risk, "stop_loss")
                   ELSE IF hits(i, c.tp1) THEN Ends(i, toward(c.tp1), "tp1")
                   ELSE Ends(i, toward(c.tp2), "tp2")

\* to_daily_close over the whole frame, and the part handed to the macro overlay: the
\* days before the first one that starts at or after the entry bar, and that one.
DayOf(i) == (i - 1) \div BarsPerDay + 1
to_daily_close(bars) ==
    [d \in 1 .. DayOf(Len(bars)) |-> bars[IF d * BarsPerDay < Len(bars) THEN d * BarsPerDay ELSE Len(bars)].close]
daily_pt(bars) ==
    LET before == Cardinality({d \in 1 .. DayOf(Len(bars)) : (d - 1) * BarsPerDay + 1 < entry_bar})
        last == IF before + 1 < DayOf(Len(bars)) THEN before + 1 ELSE DayOf(Len(bars))
    IN  SubSeq(to_daily_close(bars), 1, last)

\* The path-integrity gate of forming candidates, applied to formed ones too.
AcceptsPassed(group, c, verdict) == group = "control" \/ verdict.passed

\* For a formed candidate the stricter groups ask for TP2 only.
Accepts(group, c, verdict) == group = "control" \/ (IF c.formed THEN ~verdict.past_tp2 ELSE verdict.passed)

\* One candidate in one group.  The filters get the frame of the whole history.
TradeIn(group, bars) ==
    LET c == picked.cand
        verdict == evaluate(bars, c, bars[entry_bar].close)
        macro == compute(daily_pt(bars), c.bullish)
    IN  IF picked.signal # "built" \/ ~Accepts(group, c, verdict) THEN NoTrade
        ELSE [outcome |-> _simulate_trade(bars, c), taken |-> TRUE, discipline_passed |-> verdict.passed,
              macro_size_mult |-> IF group = "experimental" THEN macro.size_mult ELSE 10,
              macro_regime |-> macro.macro_dir]

\* A candidate whose zone is not positive breaks evaluate's contract, which nothing
\* catches: the run ends.  (The grades the engine gives meanwhile are the harness's
\* own, part of what it takes for a signal.)
After(group) == IF group = "control" THEN "strict" ELSE IF group = "strict" THEN "experimental" ELSE "done"
RunGroup ==
    /\ turn \in Range(Groups)
    /\ IF picked.signal = "built" /\ picked.cand.prz_low <= 0
       THEN turn' = "failed" /\ UNCHANGED trades
       ELSE /\ trades' = [trades EXCEPT ![turn] = [w \in World |-> TradeIn(turn, frame[w])]]
            /\ turn' = After(turn)
    /\ UNCHANGED <<frame, picked>>

HarnessNext == Bar \/ Load \/ RunGroup

HarnessSpec == HarnessInit /\ [][HarnessNext]_harnessVars
-----------------------------------------------------------------------------
\* No group decides to take a trade on bars that come after its entry: two histories
\* that agree up to the entry bar give the same trades, though the frame that the
\* filters see holds all the later bars; and no trade loses more than its risk.
DecisionPointInTime ==
    \A g \in Range(Groups) :
        /\ trades[g]["a"].taken = trades[g]["b"].taken
        /\ \A w \in World : trades[g][w].taken => trades[g][w].outcome.gain >= 0 - trades[g][w].outcome.risk

\* "Point-in-time macro: only pass daily closes up to the entry bar."
MacroPointInTime ==
    \A g \in Range(Groups) :
        trades[g]["a"].taken /\ trades[g]["b"].taken =>
            /\ trades[g]["a"].macro_size_mult = trades[g]["b"].macro_size_mult
            /\ trades[g]["a"].macro_regime = trades[g]["b"].macro_regime

\* The same of the discipline verdict a trade is reported with.
DisciplinePointInTime ==
    \A g \in Range(Groups) :
        trades[g]["a"].taken /\ trades[g]["b"].taken =>
            trades[g]["a"].discipline_passed = trades[g]["b"].discipline_passed
=============================================================================
