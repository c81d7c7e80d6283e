----------------------------- MODULE Robustness -----------------------------
(***************************************************************************)
(* The out-of-sample guards of the tuning loop: one candidate is run on    *)
(* each quarter in turn (app/loop/walk_forward.py), the last quarter is    *)
(* held out, and oos_validate (app/loop/oos_validator.py) compares it with *)
(* the others.  Sharpe ratios are in tenths.                               *)
(***************************************************************************)
EXTENDS Integers, SequencesExt

CONSTANTS
    Sharpes,    \* what a quarter's sharpe may be
    TradeCounts,
    Quarters    \* how many quarters are run

ASSUME RobustnessAssumption ==
    Sharpes \subseteq Int /\ TradeCounts \subseteq Nat /\ Quarters \in Nat \ {0}

VARIABLES
    wfDone,     \* quarters tried
    wfResults,  \* the quarters that gave metrics, with their number
    wfAgg       \* WalkForwardAggregate and the OOSVerdict on the same quarters

robustVars == <<wfDone, wfResults, wfAgg>>

NoSharpe == -1000 \* None
OrZero(s) == IF s = NoSharpe THEN 0 ELSE s
min_oos_trade_count == 15

\* The trade floor of the flag is one higher than the validator's.
CollapseOffByOne(m) == m.sharpe = NoSharpe \/ m.sharpe < 0 \/ m.trades <= 15

\* The collapse flag of aggregate.
oos_collapse(m) == m.sharpe = NoSharpe \/ m.sharpe < 0 \/ m.trades < 15

\* oos_validate: with a mean of sum / n, half the mean is compared without division.
oos_passed(inSample, oos) ==
    LET sum == FoldLeft(+, 0, [k \in DOMAIN inSample |-> OrZero(inSample[k].sharpe)])
        n == Max({Len(inSample), 1})
    IN  /\ oos.trades >= min_oos_trade_count
        /\ oos.sharpe # NoSharpe
        /\ oos.sharpe >= 0
        /\ 2 * n * oos.sharpe >= sum

\* aggregate: the held-out quarter is looked up among those that gave metrics.
aggregate(results) ==
    LET held == {k \in DOMAIN results : results[k].quarter = Quarters}
        oos == results[CHOOSE k \in held : TRUE]
        rest == SelectSeq(results, LAMBDA m : m.quarter # Quarters)
    IN  [quarters |-> Len(results), held |-> held # {},
         collapse |-> held # {} /\ oos_collapse(oos),
         passed |-> held # {} /\ oos_passed(rest, oos)]
----------------------------------------------------------------------------
RobustInit ==
    /\ wfDone = 0 /\ wfResults = <<>>
    /\ wfAgg = [quarters |-> 0, held |-> FALSE, collapse |-> FALSE, passed |-> FALSE]

\* run_candidate on the next quarter: an error is skipped as missing data.
RunQuarter ==
    /\ wfDone < Quarters
    /\ wfDone' = wfDone + 1
    /\ \/ wfResults' = wfResults
       \/ \E s \in Sharpes \cup {NoSharpe}, n \in TradeCounts :
             wfResults' = Append(wfResults, [quarter |-> wfDone + 1, sharpe |-> s, trades |-> n])
    /\ wfAgg' = IF wfDone + 1 = Quarters THEN aggregate(wfResults') ELSE wfAgg

RobustNext == RunQuarter

RobustSpec == RobustInit /\ [][RobustNext]_robustVars
----------------------------------------------------------------------------
\* "Flag collapse if OOS sharpe < 0 or trade count < 15" and the three red flags of
\* oos_validate are two readings of one quarter: a candidate the validator passes is
\* never the one the aggregate calls collapsed, and an overfit one is never passed.
ValidatorsAgree ==
    wfAgg.passed => ~wfAgg.collapse /\ wfAgg.held

\* A held-out quarter whose run failed is no evidence: it must not read as "no
\* collapse" (in the code it does).
MissingIsCollapse == wfDone = Quarters /\ ~wfAgg.held => wfAgg.collapse
=============================================================================
