---------------------------- MODULE MCLoopDriver ----------------------------
(* LoopDriver for TLC: two candidates, two objectives, metrics missing. *)
EXTENDS LoopDriver

CONSTANTS
    a, b, sharpe, factor, q1, q2, \* candidates, objectives, quarters
    MaxRecords, \* bound: lines of HISTORY
    MaxLost     \* bound: lines that rotations lose

\* As in pareto.py: a missing sharpe counts as -10, a missing profit factor as 0.
MCDefault == (sharpe :> -10) @@ (factor :> 0)

Metric(x, y) == (sharpe :> x) @@ (factor :> y)

\* On the first quarter b beats a; on the second they trade off, and both differ from
\* what they were.
MCScore ==
    [s \in Sha |-> [q \in Quarter |->
        CASE s = a /\ q = q1 -> Metric(Missing, 1)
          [] s = b /\ q = q1 -> Metric(1, 1)
          [] s = a /\ q = q2 -> Metric(3, Missing)
          [] s = b /\ q = q2 -> Metric(2, 1)]]

DriverSymmetry == Permutations(Driver)

\* HISTORY stays short, with the results that all drivers have still to record.
ShortHistory ==
    /\ Cardinality(lost) <= MaxLost
    /\ Len(history) + Cardinality(lost)
           + Cardinality({<<d, s>> \in Driver \X Sha : s \in todo[d]}) <= MaxRecords
=============================================================================
