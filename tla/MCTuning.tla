------------------------------ MODULE MCTuning ------------------------------
(***************************************************************************)
(* The tuning loop's own decisions: a batch of the Maker, a case of the    *)
(* Checker, generations of the search, the out-of-sample guards and the    *)
(* scheduler.                                                              *)
(***************************************************************************)
EXTENDS MakerAgent, CheckerAgent, TuningSearch, Scheduler, Robustness

VARIABLE machine

MCClusterFields == <<"atr_prz_sweep", "fee_rate", "atr_stop_buffer">>
MCRawProposals ==
    LET raw(shape, asked, field, magnitude, score) ==
            [shape |-> shape, asked |-> asked, overflow |-> FALSE, field |-> field, magnitude |-> magnitude, score |-> score]
    IN  {raw(TRUE, TRUE, "fee_rate", 10, 5), raw(TRUE, TRUE, "rsi_window", -50, 10),
         raw(FALSE, TRUE, "fee_rate", 10, 5), raw(TRUE, FALSE, "fee_rate", 10, 5),
         raw(TRUE, TRUE, "fee_rate", 51, 5), raw(TRUE, TRUE, "fee_rate", 10, 11),
         raw(TRUE, TRUE, "fee_rate", NotANumber, 5),
         [raw(TRUE, TRUE, "fee_rate", 10, 5) EXCEPT !.overflow = TRUE],
         [raw(TRUE, FALSE, "fee_rate", 10, 5) EXCEPT !.overflow = TRUE]}
MCCandidateMetrics ==
    LET reg(n, s) == [n |-> n, sharpe |-> s]
    IN  {[trades |-> 40, by_regime |-> [g \in {"bull", "bear"} |-> reg(20, 10)]],
         [trades |-> 20, by_regime |-> [g \in {"bull", "bear"} |-> reg(10, 10)]],
         [trades |-> 40, by_regime |-> [g \in {"bull", "range"} |-> IF g = "bull" THEN reg(35, 10) ELSE reg(5, 0)]],
         [trades |-> 40, by_regime |-> [g \in {"bull", "range"} |-> reg(20, NoNumber)]],
         [trades |-> 40, by_regime |-> [g \in {} |-> reg(0, 0)]]}
MCAnswers ==
    [shape : {TRUE}, score : {2, 3, 8, 10}, raw : {NoNumber, 3, 11}, confidence : {2, 5}, accept : BOOLEAN]
    \cup [shape : {FALSE}, score : {8}, raw : {8}, confidence : {5}, accept : {TRUE}]
\* A steep curve and the inverted one that labels of the wrong sign give.
MCCalibrations == {[r \in 0 .. 10 |-> IF r < 5 THEN 1 ELSE 9], [r \in 0 .. 10 |-> 10 - r]}
MCExtraKeys == {{}, MakerKeys} \cup {{k} : k \in MakerKeys}

MCSteps == {-3, 3}
MCWeightSteps == {-15, 0, 15}
MCRequests ==
    LET req(n, t) == [n_mutations |-> n, timeout |-> t, lambda |-> 10, budget |-> 2500]
    IN  {req(1, 900), req(2, 900), req(1, 59)}
MCSharpes == {-5, 0, 10, 20}

\* The five machines share no state: a behaviour of the sum is one of one of them.
IdleMaker == mkRequest = <<>> /\ mkState = "idle" /\ mkAnswer = <<>> /\ mkBatch = <<>>
IdleChecker == ckCase = <<>> /\ ckState = "idle" /\ ckPrompt = <<>> /\ ckAnswer = <<>> /\ ckResult = <<>>
IdleSearch ==
    /\ tsBest = TUNING /\ tsWriting = <<>> /\ tsFile = NoGeneration
    /\ tsRun = {} /\ tsGen = 0 /\ tsDeaths = 0
IdleSched == now = 9 * Hour + 11 /\ bests = <<>> /\ skipWeekend = FALSE /\ idle = 0
IdleRobust == wfDone = 0 /\ wfResults = <<>> /\ wfAgg = [held |-> FALSE, passed |-> FALSE]

Init ==
    \/ machine = "maker" /\ MakerInit /\ IdleChecker /\ IdleSearch /\ IdleSched /\ IdleRobust
    \/ machine = "checker" /\ CheckerInit /\ IdleMaker /\ IdleSearch /\ IdleSched /\ IdleRobust
    \/ machine = "search" /\ SearchInit /\ IdleMaker /\ IdleChecker /\ IdleSched /\ IdleRobust
    \/ machine = "sched" /\ SchedInit /\ IdleMaker /\ IdleChecker /\ IdleSearch /\ IdleRobust
    \/ machine = "robust" /\ RobustInit /\ IdleMaker /\ IdleChecker /\ IdleSearch /\ IdleSched

Next ==
    /\ UNCHANGED machine
    /\ \/ machine = "maker" /\ MakerNext /\ UNCHANGED <<checkerVars, searchVars, schedVars, robustVars>>
       \/ machine = "checker" /\ CheckerNext /\ UNCHANGED <<makerVars, searchVars, schedVars, robustVars>>
       \/ machine = "search" /\ SearchNext /\ UNCHANGED <<makerVars, checkerVars, schedVars, robustVars>>
       \/ machine = "sched" /\ SchedNext /\ UNCHANGED <<makerVars, checkerVars, searchVars, robustVars>>
       \/ machine = "robust" /\ RobustNext /\ UNCHANGED <<makerVars, checkerVars, searchVars, schedVars>>

Spec == Init /\ [][Next]_<<machine, makerVars, checkerVars, searchVars, schedVars, robustVars>>
=============================================================================
