---------------------------- MODULE TuningSearch ----------------------------
(***************************************************************************)
(* One generation of the tuning search: a parent's fields are mutated      *)
(* inside one cluster (app/loop/mutation.py) under the constraints of      *)
(* TuningConstants (app/config/tuning.py), the children are written to     *)
(* next_generation.json (app/loop/search.py), and a driver runs them       *)
(* (app/loop/worker.py).  The fields that share a constraint stand for all *)
(* of them.  Grades are in fives, multipliers in tenths.                   *)
(***************************************************************************)
EXTENDS Numbers, SequencesExt

CONSTANTS
    Searcher,   \* processes that run app.loop.search
    Steps,      \* what a Gaussian draw may add to a scalar field
    WeightSteps,\* and to one confluence weight
    Requests,   \* [n_mutations, timeout, lambda, budget]: command lines of search
    MaxGen,     \* bound: generations written
    MaxDeaths   \* bound: searchers that die while they write

ASSUME SearchAssumption ==
    /\ Steps \subseteq Int /\ WeightSteps \subseteq Int
    /\ \A r \in Requests : r.n_mutations \in Nat
    /\ MaxGen \in Nat /\ MaxDeaths \in Nat

VARIABLES
    tsBest,     \* the parameters the next generation may start from
    tsWriting,  \* searcher -> the generation it is writing, as a set of at most one
    tsFile,     \* next_generation.json: a generation, or no readable JSON
    tsRun,      \* the generation the driver is running, as a set of at most one
    tsGen, tsDeaths

searchVars == <<tsBest, tsWriting, tsFile, tsRun, tsGen, tsDeaths>>

\* TuningConstants(): the committed defaults.
TUNING ==
    [veto |-> 5, halve |-> 8, aligned |-> 10, trendingInverse |-> 6, rangingInverse |-> 5,
     extreme |-> 12, weights |-> <<50, 40, 10>>]

\* DEFAULT_CLUSTER_MAP, and the bounds each scalar is clipped to.
ClusterMap ==
    [c2 |-> {"veto", "halve"}, c3 |-> {"weights"},
     c4 |-> {"aligned", "trendingInverse", "rangingInverse", "extreme"}]
Bounds ==
    [veto |-> <<2, 8>>, halve |-> <<6, 14>>, aligned |-> <<8, 15>>,
     trendingInverse |-> <<3, 9>>, rangingInverse |-> <<2, 9>>, extreme |-> <<9, 15>>]

_clip(x, lo, hi) == Max({lo, Min({hi, x})})

\* The sum of a tuple of weights.
Total(w) ==
    LET upTo[k \in 0 .. Len(w)] == IF k = 0 THEN 0 ELSE upTo[k - 1] + w[k]
    IN  upTo[Len(w)]

\* TuningConstants.__post_init__.
Legal(t) ==
    /\ t.veto < t.halve
    /\ t.extreme >= Max({t.trendingInverse, t.rangingInverse})
    /\ t.aligned >= Min({t.trendingInverse, t.rangingInverse})
    /\ t.extreme <= 15
    /\ t.veto > 0 /\ t.halve > 0
    /\ Total(t.weights) = 100

\* The weights scaled to 100; the last key takes what the rounding leaves.
Renormalised(w) ==
    LET sum == Total(w)
        scaled == [k \in DOMAIN w |-> RoundDiv(w[k] * 100, sum)]
    IN  IF sum = 0 THEN w
        ELSE [scaled EXCEPT ![Len(w)] = @ + 100 - Total(scaled)]

\* _apply_one_mutation, before the constraints are checked.
_apply_one_mutation(name, t) ==
    IF name = "weights"
    THEN {[t EXCEPT !.weights = Renormalised([k \in DOMAIN @ |-> _clip(@[k] + d[k], -50, 200)])] :
             d \in [DOMAIN t.weights -> WeightSteps]}
    ELSE {[t EXCEPT ![name] = _clip(@ + d, Bounds[name][1], Bounds[name][2])] : d \in Steps}

\* The last try is kept when all the retries broke a constraint.
MutateFieldKeepsLast(name, t) == _apply_one_mutation(name, t) \cup {t}

\* mutate_field: six tries, and the field is left alone if each broke a constraint.
mutate_field(name, t) == {u \in _apply_one_mutation(name, t) : Legal(u)} \cup {t}

\* mutate_cluster: n fields of the cluster, drawn without repetition.
mutate_cluster(t, cluster, n) ==
    LET after[k \in 0 .. n] ==
            IF k = 0 THEN {[tuning |-> t, done |-> {}]}
            ELSE UNION {UNION {{[tuning |-> u, done |-> m.done \cup {f}] : u \in mutate_field(f, m.tuning)} :
                                  f \in ClusterMap[cluster] \ m.done} : m \in after[k - 1]}
    IN  {m.tuning : m \in after[Min({n, Cardinality(ClusterMap[cluster])})]}

\* check_safety; main() leaves weekly_spend_usd at its default of zero.
check_safety(r) ==
    /\ r.n_mutations <= 5
    /\ r.timeout >= 60
    /\ ~(r.budget > 0 /\ 0 + r.lambda > r.budget)
----------------------------------------------------------------------------
NoGeneration == [readable |-> FALSE, gen |-> 0, cluster |-> "c2", n |-> 0, parent |-> TUNING, child |-> TUNING]

SearchInit ==
    /\ tsBest = TUNING
    /\ tsWriting = [s \in Searcher |-> {}]
    /\ tsFile = NoGeneration
    /\ tsRun = {}
    /\ tsGen = 0 /\ tsDeaths = 0

\* run_generation, when a safety rail refuses: the candidates file stays as it is.
SkipGeneration(s) ==
    /\ tsWriting[s] = {}
    /\ \E r \in Requests : ~check_safety(r)
    /\ UNCHANGED searchVars

\* run_generation up to write_text, which truncates the file first.  The lambda
\* children are drawn alike and apart: one of them stands for all.
BeginGeneration(s) ==
    /\ tsWriting[s] = {} /\ tsGen < MaxGen
    /\ \E r \in Requests, cluster \in DOMAIN ClusterMap, parent \in {tsBest, TUNING} :
          /\ check_safety(r)
          /\ \E child \in mutate_cluster(parent, cluster, r.n_mutations) :
                tsWriting' = [tsWriting EXCEPT ![s] =
                    {[readable |-> TRUE, gen |-> tsGen + 1, cluster |-> cluster, n |-> r.n_mutations,
                      parent |-> parent, child |-> child]}]
    /\ tsFile' = NoGeneration
    /\ tsGen' = tsGen + 1
    /\ UNCHANGED <<tsBest, tsRun, tsDeaths>>

\* The rest of write_text.  Two writers share no lock: the file may be a mixture.
EndGeneration(s) ==
    /\ \E g \in tsWriting[s] :
          \/ tsFile' = g
          \/ (\E other \in Searcher \ {s} : tsWriting[other] # {}) /\ tsFile' = NoGeneration
    /\ tsWriting' = [tsWriting EXCEPT ![s] = {}]
    /\ UNCHANGED <<tsBest, tsRun, tsGen, tsDeaths>>

\* A searcher dies between the truncation and the last byte.
SearcherDies(s) ==
    /\ tsWriting[s] # {} /\ tsDeaths < MaxDeaths
    /\ tsDeaths' = tsDeaths + 1
    /\ tsWriting' = [tsWriting EXCEPT ![s] = {}]
    /\ UNCHANGED <<tsBest, tsFile, tsRun, tsGen>>

\* The driver reads the file, if json.load can, and starts its jobs.
StartRun ==
    /\ tsRun = {} /\ tsFile.readable
    /\ tsRun' = {tsFile}
    /\ UNCHANGED <<tsBest, tsWriting, tsFile, tsGen, tsDeaths>>

\* run_candidate: a timeout, an exit code, a missing summary, too few trades ...
RunDecision(timedOut, exit, summary, trades) ==
    IF timedOut \/ exit # 0 \/ ~summary THEN "error"
    ELSE IF trades < 30 THEN "rejected" ELSE "accepted"

\* ... or an accepted candidate, whose snapshot the next search may take as parent.
FinishRun ==
    /\ \E g \in tsRun, timedOut, summary \in BOOLEAN, exit \in {0, 1}, trades \in {29, 30} :
          \/ /\ RunDecision(timedOut, exit, summary, trades) = "accepted"
             /\ tsBest' = g.child
          \/ /\ RunDecision(timedOut, exit, summary, trades) # "accepted"
             /\ tsBest' = tsBest
    /\ tsRun' = {}
    /\ UNCHANGED <<tsWriting, tsFile, tsGen, tsDeaths>>

SearchNext ==
    \/ \E s \in Searcher : SkipGeneration(s) \/ BeginGeneration(s) \/ EndGeneration(s) \/ SearcherDies(s)
    \/ StartRun \/ FinishRun

SearchSpec == SearchInit /\ [][SearchNext]_searchVars
----------------------------------------------------------------------------
Changed(g) == {f \in DOMAIN TUNING : g.child[f] # g.parent[f]}

\* "freezes all clusters except one before each generation": whatever chain of
\* accepted mutations led to the parent, and whoever wrote or died, a candidates file
\* that can be read differs from its parent in at most n fields, all of one cluster,
\* and every constraint of TuningConstants holds of it.
GenerationSound ==
    \A g \in {h \in {tsFile} \cup tsRun : h.readable} :
        /\ Legal(g.child)
        /\ Changed(g) \subseteq ClusterMap[g.cluster]
        /\ Cardinality(Changed(g)) <= g.n

\* "the extreme-inverse band is the only one that can exceed 1.0" (the search may
\* take an aligned multiplier to 1.5).
OnlyExtremeExceedsOne == tsBest.aligned <= 10

\* "aligned bands must be >= inverse bands" (the code compares with the smaller one).
AlignedCoversInverse == tsBest.aligned >= Max({tsBest.trendingInverse, tsBest.rangingInverse})

\* A confluence weight counts for a signal, never against it (a draw may take a small
\* one below zero: only the sum is constrained).
WeightsCountFor == \A k \in DOMAIN tsBest.weights : tsBest.weights[k] >= 0
=============================================================================
