------------------------------- MODULE Pareto -------------------------------
(***************************************************************************)
(* The Pareto front of the tuning loop (app/loop/pareto.py): a set of      *)
(* points, each the hash of its parameters and the metrics its backtest    *)
(* gave.  Every objective is to be maximised; a metric may be missing.     *)
(***************************************************************************)
EXTENDS Integers

CONSTANTS
    Sha,        \* parameter hashes
    Objective,  \* sharpe, calmar, profit_factor, worst_regime_sharpe
    Missing,    \* a metric that is None
    Default     \* Objective -> what a missing metric counts as

ASSUME ParetoAssumption ==
    /\ Missing \notin Int
    /\ Default \in [Objective -> Int]

Metrics == [Objective -> Int \cup {Missing}]
Point == [sha : Sha, metrics : Metrics]

\* objectives(p): a missing metric counts as its worst case.
objectives(p) ==
    [o \in Objective |-> IF p.metrics[o] = Missing THEN Default[o] ELSE p.metrics[o]]

AtLeast(a, b) == \A o \in Objective : objectives(a)[o] >= objectives(b)[o]

\* Better somewhere is enough.
BetterSomewhere(a, b) == \E o \in Objective : objectives(a)[o] > objectives(b)[o]

\* At least as good everywhere, better somewhere.
dominates(a, b) ==
    /\ AtLeast(a, b)
    /\ \E o \in Objective : objectives(a)[o] > objectives(b)[o]

\* The hash is on the front already: the same experiment.
Known(points, p) == \E q \in points : q.sha = p.sha

Survivors(points, p) == {q \in points : ~dominates(p, q)}

Admits(points, p) ==
    ~Known(points, p) /\ \A q \in Survivors(points, p) : ~dominates(q, p)

\* add that forgets to drop what the new point dominates.
AddWithoutPruning(points, p) ==
    IF Admits(points, p) THEN points \cup {p} ELSE points

\* ParetoSet.add
add(points, p) ==
    IF Admits(points, p) THEN Survivors(points, p) \cup {p} ELSE points

Antichain(points) == \A p, q \in points : ~dominates(p, q)

\* Some member is the point, or is at least as good everywhere.
Covers(points, p) == \E q \in points : AtLeast(q, p)
=============================================================================
