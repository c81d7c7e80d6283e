----------------------------- MODULE WalkForward -----------------------------
(***************************************************************************)
(* The walk-forward backtest of scripts/backtest_harmonic_lib.py as        *)
(* grid_search_weights (app/services/signal_engine.py) drives it.  Each    *)
(* candidate of the grid is tried inside a TuningScope; each window relaxes *)
(* the live filters, builds a signal, restores the filters and simulates   *)
(* the signal on the bars that follow.  What build_signal returns for a    *)
(* window is any signal, nothing, or a broken contract.                    *)
(***************************************************************************)
EXTENDS Integers, Sequences, SequencesExt

CONSTANTS
    Grid,           \* sequence of weight combinations to evaluate
    DefaultWeights, \* the weights of TUNING
    WalkSignals,    \* signals build_signal can return, with the last close of the window
    WalkBars,       \* bars of the forward window
    EntryModes,     \* "market" or "prz"
    Windows,        \* bound on the windows of one walk
    Horizon,        \* bars a signal is followed for
    RScale          \* units of one R

VARIABLES
    wphase,     \* where the walk is
    mode,       \* entry_mode
    gridPos,    \* candidates of the grid entered so far
    window,     \* windows passed with this candidate
    scopes,     \* _tuning_context, innermost last
    filters,    \* rejection_reason: "live", or replaced by one that accepts all
    read,       \* the weights confluence_score last read
    found,      \* the signal of this window, NoSignal for None
    follow,     \* [bars, open] of the simulation
    tally,      \* wins, losses and R of this candidate
    results     \* one record per candidate evaluated

walkVars == <<wphase, mode, gridPos, window, scopes, filters, read, found, follow, tally, results>>

NoSignal == [none |-> TRUE]
NoTally == [wins |-> 0, losses |-> 0, r |-> 0]
NotFollowed == [bars |-> 0, open |-> FALSE]

ASSUME WalkAssumption ==
    /\ Len(Grid) > 0 /\ Windows \in Nat /\ Horizon \in Nat \ {0}
    /\ RScale \in Nat \ {0}
    /\ \A s \in WalkSignals : s.direction \in {"long", "short"}
    /\ \A b \in WalkBars : b.low <= b.high

\* get_tuning: the innermost scope wins, TUNING without one.
GetTuning == IF scopes = <<>> THEN DefaultWeights ELSE Last(scopes)

WalkInit ==
    /\ wphase = "idle" /\ mode \in EntryModes
    /\ gridPos = 0 /\ window = 0 /\ scopes = <<>> /\ filters = "live"
    /\ read = DefaultWeights /\ found = NoSignal /\ follow = NotFollowed
    /\ tally = NoTally /\ results = <<>>

\* with TuningScope(tuned): the candidate's weights are pushed.
EnterCandidate ==
    /\ wphase = "idle" /\ gridPos < Len(Grid)
    /\ gridPos' = gridPos + 1
    /\ scopes' = Append(scopes, Grid[gridPos + 1])
    /\ wphase' = "window" /\ window' = 0 /\ tally' = NoTally
    /\ UNCHANGED <<mode, filters, read, found, follow, results>>

\* Nothing was detected in this window.
NothingDetected ==
    /\ wphase = "window" /\ window < Windows
    /\ window' = window + 1
    /\ UNCHANGED <<wphase, mode, gridPos, scopes, filters, read, found, follow, tally, results>>

\* The detection of a window raises, outside every try.
DetectionRaises ==
    /\ wphase = "window" /\ window < Windows
    /\ wphase' = "unwinding"
    /\ UNCHANGED <<mode, gridPos, window, scopes, filters, read, found, follow, tally, results>>

\* _maybe_relax_filters: every pattern is accepted, and a scope made of the
\* defaults with a smaller min_candles is pushed on top.
RelaxFilters ==
    /\ wphase = "window" /\ window < Windows
    /\ filters' = "accept_all"
    /\ scopes' = Append(scopes, DefaultWeights)
    /\ wphase' = "relaxed"
    /\ UNCHANGED <<mode, gridPos, window, read, found, follow, tally, results>>

BuildSignal(s) ==
    /\ wphase = "relaxed"
    /\ read' = GetTuning
    /\ found' = s
    /\ wphase' = "built"
    /\ UNCHANGED <<mode, gridPos, window, scopes, filters, follow, tally, results>>

\* Mutant: the exception leaves extract_signal before the filters are restored.
DropSignalUnrestored ==
    /\ wphase = "relaxed"
    /\ read' = GetTuning
    /\ found' = NoSignal
    /\ wphase' = "window" /\ window' = window + 1
    /\ UNCHANGED <<mode, gridPos, scopes, filters, follow, tally, results>>
\* A broken contract is logged, and the window has no signal.
DropSignal ==
    /\ wphase = "relaxed"
    /\ read' = GetTuning
    /\ found' = NoSignal
    /\ wphase' = "built"
    /\ UNCHANGED <<mode, gridPos, window, scopes, filters, follow, tally, results>>

\* Any other exception of build_signal goes on to the caller.
SignalRaises ==
    /\ wphase = "relaxed"
    /\ read' = GetTuning
    /\ wphase' = "raised"
    /\ UNCHANGED <<mode, gridPos, window, scopes, filters, found, follow, tally, results>>

\* The finally clause: the function is put back and the scope popped.
RestoreFilters ==
    /\ wphase \in {"built", "raised"}
    /\ filters' = "live"
    /\ scopes' = Front(scopes)
    /\ wphase' = IF wphase = "raised" THEN "unwinding"
                 ELSE IF found = NoSignal THEN "window" ELSE "simulate"
    /\ window' = IF wphase' = "window" THEN window + 1 ELSE window
    /\ UNCHANGED <<mode, gridPos, read, found, follow, tally, results>>

EntryPrice(s) == IF mode = "prz" THEN s.entry ELSE s.close
\* simulate_one calls a signal long when its direction is "bullish".
SimulatedSide(s) == IF s.direction = "bullish" THEN "long" ELSE "short"
LevelsOK(side, entry, stop, target) ==
    IF side = "long" THEN stop < entry /\ entry < target ELSE stop > entry /\ entry > target

\* The levels are on the wrong sides: the signal is recorded as skipped.
SkipSignal ==
    /\ wphase = "simulate"
    /\ ~LevelsOK(SimulatedSide(found), EntryPrice(found), found.stop, found.tp1)
    /\ wphase' = "skipped"
    /\ UNCHANGED <<mode, gridPos, window, scopes, filters, read, found, follow, tally, results>>
NextWindow ==
    /\ wphase = "skipped"
    /\ wphase' = "window" /\ window' = window + 1 /\ found' = NoSignal /\ follow' = NotFollowed
    /\ UNCHANGED <<mode, gridPos, scopes, filters, read, tally, results>>

\* _resolve_exit: of two levels in one bar the closer one, the stop when equal.
ResolveExit(side, b, entry, stop, target) ==
    LET stopHit == IF side = "long" THEN b.low <= stop ELSE b.high >= stop
        targetHit == IF side = "long" THEN b.high >= target ELSE b.low <= target
        risk == IF side = "long" THEN entry - stop ELSE stop - entry
        reward == IF side = "long" THEN target - entry ELSE entry - target
    IN  IF stopHit /\ (~targetHit \/ risk <= reward) THEN "loss"
        ELSE IF targetHit THEN "win" ELSE "open"

RMultiple(s, result) ==
    LET risk == IF EntryPrice(s) > s.stop THEN EntryPrice(s) - s.stop ELSE s.stop - EntryPrice(s)
        gain == IF EntryPrice(s) > s.tp1 THEN EntryPrice(s) - s.tp1 ELSE s.tp1 - EntryPrice(s)
    IN  IF result = "loss" THEN -RScale ELSE (RScale * gain) \div risk

\* One bar of the forward window; the entry bar may close the trade as well.
FollowBar(b) ==
    LET s == found
        side == SimulatedSide(s)
        entered == follow.open \/ (b.low <= EntryPrice(s) /\ EntryPrice(s) <= b.high)
        result == IF entered THEN ResolveExit(side, b, EntryPrice(s), s.stop, s.tp1) ELSE "open"
        last == follow.bars + 1 = Horizon
        over == result # "open" \/ last
    IN  /\ wphase = "simulate"
        /\ LevelsOK(side, EntryPrice(s), s.stop, s.tp1)
        /\ tally' = CASE result = "win" -> [tally EXCEPT !.wins = @ + 1, !.r = @ + RMultiple(s, "win")]
                      [] result = "loss" -> [tally EXCEPT !.losses = @ + 1, !.r = @ + RMultiple(s, "loss")]
                      [] OTHER -> tally
        /\ follow' = IF over THEN NotFollowed ELSE [bars |-> follow.bars + 1, open |-> entered]
        /\ found' = IF over THEN NoSignal ELSE s
        /\ wphase' = IF over THEN "window" ELSE "simulate"
        /\ window' = IF over THEN window + 1 ELSE window
        /\ UNCHANGED <<mode, gridPos, scopes, filters, read, results>>

LeaveCandidate ==
    /\ wphase = "window" /\ window = Windows
    /\ scopes' = Front(scopes)
    /\ results' = Append(results, [weights |-> Grid[gridPos], tally |-> tally])
    /\ wphase' = IF gridPos = Len(Grid) THEN "done" ELSE "idle"
    /\ UNCHANGED <<mode, gridPos, window, filters, read, found, follow, tally>>

\* An exception leaves the with statement: the candidate's scope is popped, and the
\* search ends without an outcome.
AbandonSearch ==
    /\ wphase = "unwinding"
    /\ scopes' = Front(scopes)
    /\ wphase' = "done"
    /\ UNCHANGED <<mode, gridPos, window, filters, read, found, follow, tally, results>>

WalkNext ==
    \/ EnterCandidate \/ NothingDetected \/ DetectionRaises \/ RelaxFilters
    \/ \E s \in WalkSignals \cup {NoSignal} : BuildSignal(s)
    \/ DropSignal \/ SignalRaises \/ RestoreFilters \/ SkipSignal \/ NextWindow
    \/ \E b \in WalkBars : FollowBar(b)
    \/ LeaveCandidate \/ AbandonSearch

WalkSpec == WalkInit /\ [][WalkNext]_walkVars
-----------------------------------------------------------------------------
(* Properties. *)

\* Whatever a window does, a broken contract or another exception included, the scope and the filter it
\* installed are gone before anything else reads the tuning: the context holds the
\* candidate's scope inside its walk and nothing outside.
ScopesBalanced ==
    /\ wphase \in {"window", "simulate", "skipped", "unwinding"} => scopes = <<Grid[gridPos]>> /\ filters = "live"
    /\ wphase \in {"idle", "done"} => scopes = <<>> /\ filters = "live"

\* Claim of grid_search_weights: the candidate "is applied through TuningScope so
\* confluence_score reads it live".
CandidateInForce == wphase = "built" => read = Grid[gridPos]

\* Claim of simulate_one: the check before the simulation turns away malformed
\* signals only.
OnlyMalformedSkipped ==
    wphase = "skipped" => ~LevelsOK(found.direction, EntryPrice(found), found.stop, found.tp1)
=============================================================================
