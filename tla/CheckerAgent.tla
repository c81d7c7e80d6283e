---------------------------- MODULE CheckerAgent ----------------------------
(***************************************************************************)
(* The second opinion on one candidate (app/loop/maker_checker): the M4    *)
(* heuristics, the isolation that hides the Maker's fields, the LLM        *)
(* Checker with its calibration, and the Arbiter that fuses them, as       *)
(* evaluate_candidate runs them.  Scores are in tenths.                    *)
(***************************************************************************)
EXTENDS Integers, SequencesExt, VerdictTable

CONSTANTS
    CandidateMetrics, \* metrics blobs: [trades, by_regime]
    CheckerAnswers,   \* what complete_verdict may return
    Calibrations,     \* fitted Platt curves, 0 .. 10 -> 0 .. 10
    LabelCounts,      \* how many good (bad) labels the history may have
    MinConfidences,   \* CheckerConfig.min_confidence
    ExtraKeys         \* sets of Maker fields a payload may carry besides the results

VARIABLES
    ckCase,    \* the candidate, the extra Maker fields and the CheckerConfig
    ckState,   \* "given", "asked", "decided"
    ckPrompt,  \* what the LLM is shown
    ckAnswer,  \* what it said
    ckResult   \* the merged verdict

checkerVars == <<ckCase, ckState, ckPrompt, ckAnswer, ckResult>>

NoCalibration == [r \in 0 .. 10 |-> r]
NoNumber == -1000 \* a sharpe that is None
rejection_threshold == 3
gap_threshold == 4
\* A backend that raised counts as an answer of the wrong shape.
NoAnswer == [shape |-> FALSE, score |-> 0, raw |-> 0, confidence |-> 0, accept |-> FALSE]
NeutralMaker == 5 \* evaluate passes maker=None

\* Every key a payload may have, in the order sorted() gives.
KeyOrder ==
    <<"candidate_id", "cluster", "clusters_touched", "decision", "diff", "elapsed_seconds",
      "expected_impact", "fingerprint", "fitness", "gen", "generation_id", "maker_intent",
      "metrics", "parent_id", "parent_metrics", "prompt_version", "proposal_id", "reasoning",
      "self_score">>
ResultKeys == {"metrics", "fitness", "decision", "elapsed_seconds"}
MakerKeys == Range(KeyOrder) \ (ResultKeys \cup {"candidate_id"})

ASSUME CheckerAssumption ==
    /\ Calibrations \subseteq [0 .. 10 -> 0 .. 10]
    /\ LabelCounts \subseteq Nat
    /\ MinConfidences \subseteq 0 .. 10
    /\ ExtraKeys \subseteq SUBSET MakerKeys

BaseStripped == {"maker_intent", "reasoning", "self_score", "prompt_version"}
StrictExtra ==
    {"clusters_touched", "diff", "expected_impact", "generation_id", "parent_id",
     "parent_metrics", "gen", "cluster", "fingerprint"}

\* STRIPPED_FIELDS_V1 that forgets the lineage fields.
StrippedBaseOnly(level) ==
    CASE level = "strict" -> BaseStripped
      [] level = "moderate" -> BaseStripped
      [] level = "minimal" -> {"maker_intent", "reasoning"}

STRIPPED_FIELDS_V1(level) ==
    CASE level = "strict" -> BaseStripped \cup StrictExtra
      [] level = "moderate" -> BaseStripped
      [] level = "minimal" -> {"maker_intent", "reasoning"}

\* strip_maker_artifacts: the keys that are left.
strip_maker_artifacts(keys, level) == keys \ STRIPPED_FIELDS_V1(level)

\* _build_prompt shows the metrics and the names of the first five keys; in which order
\* follows from which they are.
Rank(k) == CHOOSE i \in DOMAIN KeyOrder : KeyOrder[i] = k
FirstFive(keys) == {k \in keys : Cardinality({j \in keys : Rank(j) <= Rank(k)}) <= 5}
_build_prompt(metrics, keys) == [metrics |-> metrics, top_keys |-> FirstFive(keys)]
----------------------------------------------------------------------------
\* The heuristics of check_candidate; the driver passes no parent metrics.
_flag_low_sample(m) == m.trades < 30

_flag_regime_imbalance(m) ==
    LET total == FoldFunction(+, 0, [g \in DOMAIN m.by_regime |-> m.by_regime[g].n])
    IN  total >= 10 /\ \E g \in DOMAIN m.by_regime : m.by_regime[g].n * 100 > 85 * total

_flag_bear_regime_sharpe(m) ==
    LET worst == {g \in DOMAIN m.by_regime :
                     g = "bear" \/ (g = "range" /\ "bear" \notin DOMAIN m.by_regime)}
    IN  \E g \in worst : /\ m.by_regime[g].n >= 3
                         /\ m.by_regime[g].sharpe = NoNumber \/ m.by_regime[g].sharpe < -10

Flagged(m) == _flag_low_sample(m) \/ _flag_regime_imbalance(m) \/ _flag_bear_regime_sharpe(m)
----------------------------------------------------------------------------
\* raw_score falls back to the score where the answer lacks it.
RawScore(a) == IF a.raw = NoNumber THEN a.score ELSE a.raw

\* _parse_verdict and Verdict.__post_init__: the types are right (shape) and the
\* numbers in [0, 1].  A flag of an unknown severity is dropped and refuses nothing.
_parse_verdict(a) == a.shape /\ {a.score, RawScore(a), a.confidence} \subseteq 0 .. 10

_low_confidence_reject == [score |-> 0, confidence |-> 0, accept |-> FALSE]

\* fit_calibration_from_history and calibrate: too few labels, or labels of one kind
\* only, leave the scores as they are; the curve itself is gradient descent, and it is
\* used whatever its ece: nothing compares that with MAX_ECE.
fit_calibration_from_history(good, bad) ==
    IF good + bad < 10 \/ good = 0 \/ bad = 0 THEN {NoCalibration} ELSE Calibrations

\* CalibrationParams.apply.
Calibrated(params, raw) == params[raw]

\* CheckerAgent.verify, from the backend's answer on.
verify(c, answer) ==
    IF ~_parse_verdict(answer) THEN _low_confidence_reject
    ELSE LET calibrated == Calibrated(c.params, RawScore(answer))
         IN  [score |-> calibrated, confidence |-> answer.confidence,
              accept |-> answer.accept /\ calibrated >= rejection_threshold
                         /\ answer.confidence >= c.minConfidence]

\* Arbiter.resolve with the scores it compares, and the MergeResult it builds.
Merge(m4, v) ==
    LET distance == IF v.score > NeutralMaker THEN v.score - NeutralMaker ELSE NeutralMaker - v.score
        gap == distance > gap_threshold
        final == resolve(m4, v.accept, gap)
    IN  [decision |-> final, final_score |-> 4 * NeutralMaker + 6 * v.score,
         confidence |-> v.confidence,
         agreement |-> CASE final = "accepted" -> TRUE
                         [] final = "suspicious_to_human" -> FALSE
                         [] final = "rejected" -> ~gap]
----------------------------------------------------------------------------
CheckerInit ==
    /\ \E m \in CandidateMetrics, decision \in Decision, extra \in ExtraKeys,
          level \in {"strict", "moderate", "minimal"}, confidence \in MinConfidences,
          good, bad \in LabelCounts, enabled \in BOOLEAN :
          \E params \in fit_calibration_from_history(good, bad) :
             ckCase = [metrics |-> m, decision |-> decision, extra |-> extra, level |-> level,
                       minConfidence |-> confidence, params |-> params, enabled |-> enabled]
    /\ ckState = "given"
    /\ ckPrompt = _build_prompt(ckCase.metrics, {})
    /\ ckAnswer = NoAnswer
    /\ ckResult = Merge("rejected", _low_confidence_reject)

\* evaluate_candidate with no runner, or one that feature_enabled() switched off.
EvaluateAlone ==
    /\ ckState = "given" /\ ~ckCase.enabled
    /\ ckState' = "decided"
    /\ ckResult' = [ckResult EXCEPT !.decision =
                       check_candidate(ckCase.decision, Flagged(ckCase.metrics))]
    /\ UNCHANGED <<ckCase, ckPrompt, ckAnswer>>

\* MakerCheckerRunner.evaluate up to the call of the backend.
AskChecker ==
    /\ ckState = "given" /\ ckCase.enabled
    /\ ckState' = "asked"
    /\ ckPrompt' = _build_prompt(ckCase.metrics,
                       strip_maker_artifacts(ResultKeys \cup ckCase.extra \cup {"candidate_id"},
                                             ckCase.level))
    /\ UNCHANGED <<ckCase, ckAnswer, ckResult>>

\* The backend answers or fails, and the Arbiter fuses the two opinions.
FuseVerdicts ==
    /\ ckState = "asked"
    /\ ckState' = "decided"
    /\ ckAnswer' \in CheckerAnswers \cup {NoAnswer}
    /\ ckResult' = Merge(check_candidate(ckCase.decision, Flagged(ckCase.metrics)),
                         verify(ckCase, ckAnswer'))
    /\ UNCHANGED <<ckCase, ckPrompt>>

CheckerNext == EvaluateAlone \/ AskChecker \/ FuseVerdicts

CheckerSpec == CheckerInit /\ [][CheckerNext]_checkerVars
----------------------------------------------------------------------------
\* "remove all Maker fingerprints": under strict isolation the LLM is shown what it
\* would be shown had the Maker written nothing at all into the payload.
CheckerBlind ==
    ckState = "asked" /\ ckCase.level = "strict" =>
        ckPrompt = _build_prompt(ckCase.metrics, ResultKeys \cup {"candidate_id"})

\* A candidate is accepted only if the worker accepted it, no heuristic doubts it and
\* a well-formed answer accepts it with a calibrated score of at least the threshold;
\* no failure, malformed answer or shape of the calibration curve turns into a yes.
AcceptedMeansClean ==
    ckState = "decided" /\ ckResult.decision = "accepted" =>
        /\ ckCase.decision = "accepted" /\ ~Flagged(ckCase.metrics)
        /\ ckAnswer.shape /\ ckAnswer.accept
        /\ ckAnswer.confidence >= ckCase.minConfidence
        /\ Calibrated(ckCase.params, RawScore(ckAnswer)) >= rejection_threshold

\* "agreement is True when |maker_self_score - checker_score| < gap_threshold" (the
\* code says False whenever a suspicious candidate is sent to a human).
AgreementIsTheGap ==
    ckState = "decided" /\ ckResult.decision = "suspicious_to_human" =>
        (ckResult.agreement <=> ckResult.final_score \in 4 * NeutralMaker + 6 .. 4 * NeutralMaker + 54)
=============================================================================
