----------------------------- MODULE RsiBacktest -----------------------------
(***************************************************************************)
(* The event-driven backtest of the trend-RSI strategy: detect_signals     *)
(* (app/domain/rsi_trend.py) and run_backtest with _simulate_one           *)
(* (app/domain/rsi_trend_backtest.py).                                     *)
(*                                                                         *)
(* run_backtest takes the signals in bar order and skips a signal whose    *)
(* bar is covered by the trade before it, so every bar is looked at by at  *)
(* most one trade: the model reads the bars once, from left to right, and  *)
(* the market decides each bar only when it is read.                       *)
(*                                                                         *)
(* Prices are integers and the position is four quarters (the partial exits *)
(* halve it at most twice).  R multiples are kept in units of 1/(4*RScale): *)
(* RScale is a multiple of every initial risk the prices allow.            *)
(***************************************************************************)
EXTENDS Integers, Sequences, SequencesExt

CONSTANTS Prices,        \* the prices of a bar
          Levels,        \* the RSI readings told apart
          Zones,         \* (oversold, overbought) of the rsi_zone presets
          RewardRisks,   \* reward_risk, at least 1 (RsiTrendScanRequest)
          Atr,           \* atr_mult * ATR and the trailing distance
          RScale,
          MaxBars        \* bound: bars read

ASSUME BacktestAssumption ==
    /\ Prices \subseteq Nat /\ Levels \subseteq Nat
    /\ RewardRisks \subseteq Nat \ {0}
    /\ Atr \in Nat \ {0} /\ RScale \in Nat \ {0} /\ MaxBars \in Nat

OVERSOLD == 30
OVERBOUGHT == 70

VARIABLES request,       \* reward_risk, rsi zone, partial_mode, trailing_stop
          bar,           \* the last bar read and its index
          trade,         \* the locals of _simulate_one, or NoTrade
          trades,        \* the trades closed so far, in order
          equity,        \* cumulative R, its peak and the deepest fall from it
          ended          \* the data is exhausted
btVars == <<request, bar, trade, trades, equity, ended>>

NoTrade == [open |-> FALSE]
HasTrade == trade.open

\* A bar: its prices, the side of EMA200 its close is on, and its RSI.
Market ==
    {b \in [high : Prices, low : Prices, close : Prices,
            trend : {"above", "at", "below"}, rsi : Levels] :
        b.low <= b.close /\ b.close <= b.high}

Sign(long, x) == IF long THEN x ELSE 0 - x
AtOrBeyond(long, x, y) == IF long THEN x >= y ELSE x <= y

-----------------------------------------------------------------------------
\* RSI leaves the zone through its threshold on the right side of EMA200.
CrossedUp(b) == bar.rsi <= request.zone[1] /\ b.rsi > request.zone[1]
CrossedDown(b) == bar.rsi >= request.zone[2] /\ b.rsi < request.zone[2]
LongSignal(b) == CrossedUp(b) /\ b.trend = "above"
ShortSignal(b) == ~CrossedUp(b) /\ CrossedDown(b) /\ b.trend = "below"
Fires(b) == LongSignal(b) \/ ShortSignal(b)

\* The signal opened at the close of its own bar.
Enter(b, i) ==
    LET long == LongSignal(b)
        stop == IF long THEN b.low - Atr ELSE b.high + Atr
        risk == Sign(long, b.close - stop)
    IN  [open |-> TRUE, long |-> long, entry |-> b.close, initial |-> stop,
         target |-> b.close + Sign(long, request.rr * risk), risk |-> risk,
         stop |-> stop, remaining |-> 4, realized |-> 0,
         t1 |-> FALSE, rsi |-> FALSE, from |-> i]

\* _r_multiple: the reward of one quarter closed at price p.
RMultiple(t, p) == (Sign(t.long, p - t.entry) * RScale) \div t.risk
Realize(t, quarters, p) ==
    [t EXCEPT !.realized = @ + quarters * RMultiple(t, p), !.remaining = @ - quarters]

StopReached(t, b) == IF t.long THEN b.low <= t.stop ELSE b.high >= t.stop
TargetReached(t, b) == IF t.long THEN b.high >= t.target ELSE b.low <= t.target

\* 2) the first target in partial mode: half is closed, the stop goes to the entry.
TakeHalf(t, b) ==
    IF request.partial /\ ~t.t1 /\ TargetReached(t, b)
    THEN [Realize(t, t.remaining \div 2, t.target) EXCEPT !.t1 = TRUE, !.stop = t.entry]
    ELSE t

\* 3) RSI back in the extreme zone: half of the rest is closed at the close.
RsiReduce(t, b) ==
    IF request.partial /\ t.t1 /\ ~t.rsi
       /\ (IF t.long THEN b.rsi > OVERBOUGHT ELSE b.rsi < OVERSOLD)
    THEN [Realize(t, t.remaining \div 2, b.close) EXCEPT !.rsi = TRUE]
    ELSE t

\* 3b) the stop trails the close by one ATR, and only forwards.
Trail(t, b) ==
    LET candidate == b.close - Sign(t.long, Atr)
    IN  IF request.trailing /\ t.t1 /\ Sign(t.long, candidate - t.stop) > 0
        THEN [t EXCEPT !.stop = candidate]
        ELSE t

Managed(t, b) == Trail(RsiReduce(TakeHalf(t, b), b), b)

\* 4) the close is on the other side of EMA200.
Flipped(t, b) == IF t.long THEN b.trend = "below" ELSE b.trend = "above"

-----------------------------------------------------------------------------
\* The trade as run_backtest files it, and the equity curve it continues.
Closed(t, quarters, p, i, reason) ==
    LET r == Realize(t, quarters, p)
    IN  [r |-> r.realized, left |-> r.remaining, from |-> t.from, to |-> i,
         reason |-> reason, banked |-> t.t1]

File(c) ==
    LET sum == equity.sum + c.r
        peak == IF sum > equity.peak THEN sum ELSE equity.peak
    IN  /\ trades' = Append(trades, c)
        /\ equity' = [sum |-> sum, peak |-> peak,
                      dd |-> IF peak - sum > equity.dd THEN peak - sum ELSE equity.dd]
        /\ trade' = NoTrade

Read(b) ==
    /\ ~ended /\ bar.index < MaxBars
    /\ bar' = [index |-> bar.index + 1, close |-> b.close, rsi |-> b.rsi]
    /\ UNCHANGED <<request, ended>>

BacktestInit ==
    /\ request \in [rr : RewardRisks, zone : Zones, partial : BOOLEAN, trailing : BOOLEAN]
    /\ bar \in [index : {0}, close : {1}, rsi : Levels]
    /\ trade = NoTrade
    /\ trades = <<>>
    /\ equity = [sum |-> 0, peak |-> 0, dd |-> 0]
    /\ ended = FALSE

\* No trade covers the bar, and no signal fires on it or one of the optional
\* filters (EMA50, candle colour, minimum quality) drops the signal.
Idle(b) ==
    /\ ~HasTrade
    /\ Read(b)
    /\ UNCHANGED <<trade, trades, equity>>

\* A signal on an uncovered bar opens a trade.  Its stop is Atr > 0 beyond the low
\* (the high) of its own bar: the risk is positive and the same-bar stop of the
\* code cannot be hit.
Open(b) ==
    /\ ~HasTrade /\ Fires(b)
    /\ trade' = Enter(b, bar.index + 1)
    /\ Read(b)
    /\ UNCHANGED <<trades, equity>>

\* 1) the stop is looked at before the target of the same bar.
Stop(b) ==
    /\ HasTrade /\ StopReached(trade, b)
    /\ File(Closed(trade, trade.remaining, trade.stop, bar.index + 1, "stop_loss"))
    /\ Read(b)

\* 2) without partial_mode the first target closes the trade.
Target(b) ==
    /\ HasTrade /\ ~StopReached(trade, b)
    /\ ~request.partial /\ TargetReached(trade, b)
    /\ File(Closed(trade, trade.remaining, trade.target, bar.index + 1, "target"))
    /\ Read(b)

\* Mutant: the trend is looked at before the stop.
CarriedPastStop(b) == HasTrade /\ (request.partial \/ ~TargetReached(trade, b))
Carried(b) ==
    HasTrade /\ ~StopReached(trade, b) /\ (request.partial \/ ~TargetReached(trade, b))

TrendFlip(b) ==
    /\ Carried(b) /\ Flipped(trade, b)
    /\ LET t == Managed(trade, b)
       IN  File(Closed(t, t.remaining, b.close, bar.index + 1, "trend_flip"))
    /\ Read(b)

Manage(b) ==
    /\ Carried(b) /\ ~Flipped(trade, b)
    /\ trade' = Managed(trade, b)
    /\ Read(b)
    /\ UNCHANGED <<trades, equity>>

\* The data ends; a trade still open is flattened at the last close.
EndOfData ==
    /\ ~ended
    /\ ended' = TRUE
    /\ IF HasTrade
       THEN File(Closed(trade, trade.remaining, bar.close, bar.index, "end_of_data"))
       ELSE UNCHANGED <<trade, trades, equity>>
    /\ UNCHANGED <<request, bar>>

BacktestNext ==
    \/ \E b \in Market :
          Idle(b) \/ Open(b) \/ Stop(b) \/ Target(b) \/ TrendFlip(b) \/ Manage(b)
    \/ EndOfData

BacktestSpec == BacktestInit /\ [][BacktestNext]_btVars

-----------------------------------------------------------------------------
OneR == 4 * RScale

BacktestTypeOK ==
    /\ bar.index \in 0..MaxBars
    /\ HasTrade => trade.remaining \in {1, 2, 4} /\ trade.risk > 0
    /\ \A k \in DOMAIN trades : trades[k].r \in Int
    /\ equity.peak >= 0 /\ equity.dd >= 0

\* No trade loses more than the risk it was entered with ("-1R per unit"),
\* however its exits are split: the stop is tested before the close is used, so
\* no exit at a close is beyond the stop.
LossBounded == \A k \in DOMAIN trades : trades[k].r >= 0 - OneR

\* A trade that has banked its first target ends as a winner, even when the close
\* of the very bar that reached the target is back below the entry.
BankedWins == \A k \in DOMAIN trades : trades[k].banked => trades[k].r > 0

\* max_drawdown_r is the deepest fall of the equity curve (which starts at 0)
\* from any earlier point of it.
EquityAt(n) == FoldLeft(LAMBDA acc, t : acc + t.r, 0, SubSeq(trades, 1, n))
DrawdownExact ==
    LET falls == {EquityAt(p[1]) - EquityAt(p[2]) :
                     p \in {q \in (0..Len(trades)) \X (0..Len(trades)) : q[1] <= q[2]}}
    IN  equity.dd \in falls /\ \A f \in falls : f <= equity.dd

\* While a trade is open its stop never moves against it.
StopOnlyTightens ==
    [][HasTrade /\ trade'.open => AtOrBeyond(trade.long, trade'.stop, trade.stop)]_btVars
=============================================================================
