----------------------------- MODULE MakerAgent -----------------------------
(***************************************************************************)
(* The Maker (app/loop/maker_checker/maker_agent.py): one batch of         *)
(* mutation proposals for a cluster of tuning fields, blended from an LLM  *)
(* whose answers may be malformed or missing and from the arithmetic       *)
(* mutations of the search.  Scores are in tenths, magnitudes in per cent. *)
(***************************************************************************)
EXTENDS Numbers, SequencesExt

CONSTANTS
    ClusterFields,  \* the asked cluster's fields, in the order of DEFAULT_CLUSTER_MAP
    DictFields,     \* those that hold a dict rather than a number
    ForeignField,   \* a field of no, or of another, cluster
    Magnitudes,     \* the changes a mutation or an LLM may name
    Ratios,         \* llm_ratio, in tenths
    RawProposals,   \* what an element of the LLM's list may be; shape: of the right types,
                    \* overflow: with a number that no float holds
    MaxBatch,       \* bound: the n of a request
    MaxAnswer       \* bound: proposals in one LLM answer

ASSUME MakerAssumption ==
    /\ ClusterFields \in Seq(Range(ClusterFields)) /\ ClusterFields # <<>>
    /\ DictFields \subseteq Range(ClusterFields)
    /\ ForeignField \notin Range(ClusterFields)
    /\ Magnitudes \subseteq Int /\ Ratios \subseteq 0 .. 10
    /\ RawProposals \subseteq
           [shape : BOOLEAN, asked : BOOLEAN, overflow : BOOLEAN, field : Range(ClusterFields) \cup {ForeignField},
            magnitude : Int, score : Int]
    /\ MaxBatch \in Nat /\ MaxAnswer \in Nat

VARIABLES
    mkRequest,  \* MakerConfig and the arguments of propose_batch
    mkState,    \* "asked", then "refused", "answered" or "raised"
    mkAnswer,   \* what complete_proposals returned
    mkBatch     \* the proposals returned to the caller

makerVars == <<mkRequest, mkState, mkAnswer, mkBatch>>

MAX_DIFF_PCT == 50
NotANumber == -2000 \* a NaN among the magnitudes
Dropped == MAX_DIFF_PCT + 1000

\* trad[i] is what mutating the i-th field of the round robin does: it is a function
\* of seed * 1000 + i alone, so one batch meets the same outcome wherever slot i is
\* drawn.  Dropped: the mutation raised or changed nothing.
MakerConfig ==
    [mode : {"mix", "llm_only", "trad_only"}, ratio : Ratios,
     n : 0 .. MaxBatch, known : BOOLEAN,
     trad : [0 .. MaxBatch - 1 -> Magnitudes \cup {Dropped}]]

_split_count(n, ratio) == RoundDiv(n * ratio, 10)

Clamped(m) == Max({Min({m, MAX_DIFF_PCT}), -MAX_DIFF_PCT})

\* Proposal.__post_init__ and MakerSelfScore.__post_init__.  abs(nan) > 50 is false.
ValidProposal(p) ==
    /\ p.magnitude \in (-MAX_DIFF_PCT .. MAX_DIFF_PCT) \cup {NotANumber}
    /\ p.score \in 0 .. 10

\* traditional_proposals: always the slots 0 .. n - 1 of the same seed.
traditional_proposals(r, n) ==
    LET Field(i) == ClusterFields[(i % Len(ClusterFields)) + 1]
        Kept(i) == r.trad[i] # Dropped /\ Field(i) \notin DictFields
        Made(i) == [from |-> "trad", slot |-> i, asked |-> TRUE, field |-> Field(i),
                    magnitude |-> Clamped(r.trad[i]), score |-> 5]
        kept == Ascending({i \in 0 .. n - 1 : Kept(i)})
    IN  [k \in DOMAIN kept |-> Made(kept[k])]

\* The labels are checked against the asked cluster, the fields are not.
_parse_proposal(p) == p.shape /\ p.asked /\ ValidProposal(p)

\* What _parse_proposal lets escape: float() raises OverflowError once the checks before
\* it have passed, and only ValueError and TypeError are caught.
Escapes(p) == p.shape /\ p.asked /\ p.overflow

\* What complete_proposals may return: an object with a list of proposals, or something
\* whose "proposals" cannot be iterated over.  A backend that raises counts as one that
\* sent an empty list.
Answers ==
    [iterable : BOOLEAN, list : UNION {[1 .. k -> RawProposals] : k \in 0 .. MaxAnswer}]

\* The proposals of an answer that raises nothing.
_propose_via_llm(answer) ==
    LET good == EntriesAt(answer.list, {k \in DOMAIN answer.list : _parse_proposal(answer.list[k])})
    IN  [k \in DOMAIN good |->
            [from |-> "llm", slot |-> k, asked |-> good[k].asked, field |-> good[k].field,
             magnitude |-> good[k].magnitude, score |-> good[k].score]]

\* How many proposals the LLM is asked for; with none it is not asked at all.
LlmShare(r) ==
    CASE r.mode = "llm_only" -> r.n
      [] r.mode = "mix" -> _split_count(r.n, r.ratio)
      [] r.mode = "trad_only" -> 0

\* raw.get and the loop over its list are behind the try that guards the backend.
LlmRaises(r, answer) ==
    /\ LlmShare(r) > 0
    /\ ~answer.iterable \/ \E k \in DOMAIN answer.list : Escapes(answer.list[k])

\* The shortfall of the LLM is not made up for.
BatchWithoutTopUp(r, answer) ==
    LET llmN == LlmShare(r)
        tradN == IF r.mode = "mix" THEN r.n - _split_count(r.n, r.ratio) ELSE 0
        llm == IF llmN > 0 THEN _propose_via_llm(answer) ELSE <<>>
        all == llm \o traditional_proposals(r, tradN)
    IN  IF r.mode = "trad_only" THEN traditional_proposals(r, r.n)
        ELSE SubSeq(all, 1, Min({r.n, Len(all)}))

\* propose_batch, past its argument checks.
Batch(r, answer) ==
    LET llmN == LlmShare(r)
        tradN == IF r.mode = "mix" THEN r.n - _split_count(r.n, r.ratio) ELSE 0
        llm == IF llmN > 0 THEN _propose_via_llm(answer) ELSE <<>>
        topUp == traditional_proposals(r, Max({llmN - Len(llm), 0}))
        all == llm \o topUp \o traditional_proposals(r, tradN)
    IN  IF r.mode = "trad_only" THEN traditional_proposals(r, r.n)
        ELSE SubSeq(all, 1, Min({r.n, Len(all)}))
----------------------------------------------------------------------------
MakerInit ==
    /\ mkRequest \in MakerConfig
    /\ mkState = "asked"
    /\ mkAnswer = [iterable |-> TRUE, list |-> <<>>] /\ mkBatch = <<>>

\* propose_batch refuses n <= 0 and a cluster DEFAULT_CLUSTER_MAP does not have.
ProposeRefused ==
    /\ mkState = "asked"
    /\ mkRequest.n <= 0 \/ ~mkRequest.known
    /\ mkState' = "refused"
    /\ UNCHANGED <<mkRequest, mkAnswer, mkBatch>>

\* propose_batch returns.
ProposeBatch ==
    /\ mkState = "asked"
    /\ mkRequest.n > 0 /\ mkRequest.known
    /\ mkState' = "answered"
    /\ mkAnswer' \in Answers
    /\ ~LlmRaises(mkRequest, mkAnswer')
    /\ mkBatch' = Batch(mkRequest, mkAnswer')
    /\ UNCHANGED mkRequest

\* The answer's exception leaves propose_batch, which has no handler: there is no batch.
ProposeRaises ==
    /\ mkState = "asked"
    /\ mkRequest.n > 0 /\ mkRequest.known
    /\ mkState' = "raised"
    /\ mkAnswer' \in Answers
    /\ LlmRaises(mkRequest, mkAnswer')
    /\ UNCHANGED <<mkRequest, mkBatch>>

MakerNext == ProposeRefused \/ ProposeBatch \/ ProposeRaises

MakerSpec == MakerInit /\ [][MakerNext]_makerVars
----------------------------------------------------------------------------
Slots(r) == 0 .. r.n - 1
NothingDropped(r) ==
    \A i \in Slots(r) :
        r.trad[i] # Dropped /\ ClusterFields[(i % Len(ClusterFields)) + 1] \notin DictFields

\* "the shortfall from a flaky LLM is top-up'd with traditional": a batch that is
\* returned holds only proposals that pass their validation under the asked label, never
\* more than n of them, and exactly n where each arithmetic mutation succeeds; and an
\* answer that is an object whose list holds no number beyond a float always ends in a
\* batch, whatever else is wrong with it.
BatchUsable ==
    /\ mkState = "answered" =>
          /\ Len(mkBatch) <= mkRequest.n
          /\ \A k \in DOMAIN mkBatch : mkBatch[k].asked /\ ValidProposal(mkBatch[k])
          /\ NothingDropped(mkRequest) => Len(mkBatch) = mkRequest.n
    /\ mkState = "raised" =>
          \/ ~mkAnswer.iterable
          \/ \E k \in DOMAIN mkAnswer.list : mkAnswer.list[k].overflow

\* "the agent never blocks a generation because of a single malformed LLM output": also
\* where the answer is no object or one of its numbers overflows a float.
NeverBlocked == mkState # "raised"

\* "Magnitudes are clamped to [-50, +50] here so a malformed LLM output fails the
\* contract rather than producing an out-of-range parameter": also a NaN.
MagnitudesBounded ==
    \A k \in DOMAIN mkBatch : mkBatch[k].magnitude \in -MAX_DIFF_PCT .. MAX_DIFF_PCT

\* "Return n Proposals": also where a mutation is dropped (the code does not).
BatchFull == mkState = "answered" => Len(mkBatch) = mkRequest.n

\* "Enforce: the Maker may only touch the cluster it was asked about" (the code
\* compares the labels only).
BatchStaysInCluster ==
    mkState = "answered" =>
        \A k \in DOMAIN mkBatch : mkBatch[k].field \in Range(ClusterFields)

\* A batch does not ask for the same backtest twice (the top-up and the traditional
\* part are drawn from the same seed and slots).
BatchDistinct ==
    mkState = "answered" =>
        \A j, k \in DOMAIN mkBatch : j # k /\ mkBatch[j].from = "trad" => mkBatch[j] # mkBatch[k]
=============================================================================
