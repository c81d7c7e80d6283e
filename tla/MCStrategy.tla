----------------------------- MODULE MCStrategy -----------------------------
(***************************************************************************)
(* The three bar-driven machines of the trading strategies side by side.   *)
(* They share no state: a behaviour picks one of them and leaves the other *)
(* two in an initial state, so the state space is their sum.               *)
(***************************************************************************)
EXTENDS OpenPosition, RsiBacktest, TradingPlan, FiniteSets

VARIABLE machine

\* Both sides, a trail tight enough to overtake TP1 before TP2 is reached and one
\* that is not, and a CD leg of no bars and of three.
MCSetups ==
    [bullish : {TRUE}, entry : {3}, initial : {1}, tp1 : {4}, tp2 : {7}, tp3 : {8},
     trail : {1, 2}, cd : {0, 3}]
    \cup
    [bullish : {FALSE}, entry : {7}, initial : {9}, tp1 : {6}, tp2 : {3}, tp3 : {2},
     trail : {1, 2}, cd : {0, 3}]

MCBars == {b \in [high : 1..9, low : 1..9] : b.low <= b.high}

\* The pullback zone, whose thresholds differ from the ones of the RSI exit.
MCZones == {<<40, 60>>}
MCPrices == 1..5

\* The initial state an idle machine stays in.
IdlePosition ==
    /\ setup = CHOOSE s \in Setups : TRUE
    /\ PositionInit
IdleBacktest ==
    /\ request = CHOOSE r \in [rr : RewardRisks, zone : Zones, partial : BOOLEAN, trailing : BOOLEAN] : TRUE
    /\ bar = CHOOSE b \in [index : {0}, close : {1}, rsi : Levels] : TRUE
    /\ trade = NoTrade /\ trades = <<>> /\ ended = FALSE
    /\ equity = [sum |-> 0, peak |-> 0, dd |-> 0]
IdlePlan ==
    /\ planBar = 1
    /\ snapshot = CHOOSE m \in Snapshots : TRUE
    /\ aiCache = [k \in PlanKeys |-> NoInsight]
    /\ reply = NoReply

Init ==
    \/ machine = "position" /\ PositionInit /\ IdleBacktest /\ IdlePlan
    \/ machine = "backtest" /\ IdlePosition /\ BacktestInit /\ IdlePlan
    \/ machine = "plan" /\ IdlePosition /\ IdleBacktest /\ PlanInit

Next ==
    \/ machine = "position" /\ PositionNext /\ UNCHANGED <<machine, btVars, planVars>>
    \/ machine = "backtest" /\ BacktestNext /\ UNCHANGED <<machine, posVars, planVars>>
    \/ machine = "plan" /\ PlanNext /\ UNCHANGED <<machine, posVars, btVars>>

Spec == Init /\ [][Next]_<<machine, posVars, btVars, planVars>>
=============================================================================
