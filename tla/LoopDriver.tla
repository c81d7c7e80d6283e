----------------------------- MODULE LoopDriver -----------------------------
(***************************************************************************)
(* The single-generation driver of the tuning loop (app/loop/driver.py)    *)
(* and the durable state it keeps under one root (app/loop/state.py):      *)
(* PARETO.json, HISTORY.jsonl, the tuning snapshots, pending_issues,       *)
(* REJECTED and STATE.md.  Drivers are processes: they may run at the same *)
(* time on one root, and a driver may die (or raise) anywhere.  A backtest *)
(* is the external function Score: what it returns for given parameters    *)
(* depends on the quarter the generation is run on; the hash does not.     *)
(*                                                                         *)
(* HISTORY is what a reader of the file and its archives finds.  How it is *)
(* rotated is HistoryJournal's; here an append that met the append of      *)
(* another driver may lose records, and one cut off by a crash may leave   *)
(* an archive that cannot be read.                                         *)
(***************************************************************************)
EXTENDS Pareto, VerdictTable, FiniteSets, SequencesExt

CONSTANTS
    Driver,     \* driver processes
    Quarter,    \* the quarters a generation may be run on
    Score,      \* Sha -> Quarter -> metrics of the backtest
    MakerChecker, \* --use-maker-checker, with the runner enabled
    MaxGens,    \* bound: generations started
    MaxCrashes  \* bound: drivers that die

ASSUME DriverAssumption ==
    /\ Score \in [Sha -> [Quarter -> Metrics]]
    /\ MakerChecker \in BOOLEAN
    /\ MaxGens \in Nat /\ MaxCrashes \in Nat

VARIABLES
    front,      \* PARETO.json
    history,    \* HISTORY.jsonl and its archives: the lines that are left
    lost,       \* history: the lines that rotations of several drivers lost
    readable,   \* no archive of HISTORY is cut short
    snapshots,  \* hash -> tuning_snapshots/pareto-<sha>.yaml
    pending,    \* pending_issues/: the hashes escalated
    binned,     \* REJECTED/: the hashes whose run directories were moved there
    stateMd,    \* STATE.md: absent, markdown, or the JSON dump written first
    at,         \* driver -> where main is
    todo,       \* driver -> the hashes whose results wait in its list
    cur,        \* driver -> the result journalled and not yet accounted for
    beside,     \* driver -> its append met the append of another driver
    mine,       \* driver -> the front in its memory
    base,       \* driver -> history: the front it read from PARETO.json
    quarter,    \* driver -> the quarter of its generation
    gens, crashes \* counters for the bounds

journal == <<history, lost, readable>>
disk == <<front, journal, snapshots, pending, binned, stateMd>>
vars == <<disk, at, todo, cur, beside, mine, base, quarter, gens, crashes>>

Record == [point : Point, decision : Decision, verdict : Verdict]

TypeOK ==
    /\ front \subseteq Point
    /\ history \in Seq(Record)
    /\ lost \subseteq Record
    /\ readable \in BOOLEAN
    /\ snapshots \in [Sha -> {"absent", "cut", "whole"}]
    /\ pending \subseteq Sha
    /\ binned \subseteq Sha
    /\ stateMd \in {"absent", "json", "markdown"}
    /\ at \in [Driver -> {"idle", "loop", "append", "snapshot", "saved", "rendering"}]
    /\ todo \in [Driver -> SUBSET Sha]
    /\ cur \in [Driver -> SUBSET Record]
    /\ beside \in [Driver -> BOOLEAN]
    /\ mine \in [Driver -> SUBSET Point]
    /\ base \in [Driver -> SUBSET Point]
    /\ quarter \in [Driver -> Quarter]
    /\ gens \in 0 .. MaxGens
    /\ crashes \in 0 .. MaxCrashes

Init ==
    /\ front = {}
    /\ history = <<>>
    /\ lost = {}
    /\ readable = TRUE
    /\ snapshots = [s \in Sha |-> "absent"]
    /\ pending = {}
    /\ binned = {}
    /\ stateMd = "absent"
    /\ at = [d \in Driver |-> "idle"]
    /\ todo = [d \in Driver |-> {}]
    /\ cur = [d \in Driver |-> {}]
    /\ beside = [d \in Driver |-> FALSE]
    /\ mine = [d \in Driver |-> {}]
    /\ base = [d \in Driver |-> {}]
    /\ quarter \in [Driver -> Quarter]
    /\ gens = 0
    /\ crashes = 0
----------------------------------------------------------------------------
\* evaluate_candidate: M4 alone, or M4, the LLM and the arbiter.
Verdicts(decision) ==
    {IF MakerChecker THEN resolve(check_candidate(decision, flagged), accept, gap)
                     ELSE check_candidate(decision, flagged) :
        flagged, accept, gap \in BOOLEAN}
----------------------------------------------------------------------------
\* PARETO.json is taken to be missing.
LoadBlank(d) ==
    /\ at[d] = "idle"
    /\ gens < MaxGens
    /\ gens' = gens + 1
    /\ at' = [at EXCEPT ![d] = "loop"]
    /\ \E shas \in SUBSET Sha : todo' = [todo EXCEPT ![d] = shas]
    /\ \E q \in Quarter : quarter' = [quarter EXCEPT ![d] = q]
    /\ mine' = [mine EXCEPT ![d] = {}]
    /\ base' = [base EXCEPT ![d] = front]
    /\ UNCHANGED <<disk, cur, beside, crashes>>

\* The candidates file is read and its jobs are run; then PARETO.json is read.
Load(d) ==
    /\ at[d] = "idle"
    /\ gens < MaxGens
    /\ gens' = gens + 1
    /\ at' = [at EXCEPT ![d] = "loop"]
    /\ \E shas \in SUBSET Sha : todo' = [todo EXCEPT ![d] = shas]
    /\ \E q \in Quarter : quarter' = [quarter EXCEPT ![d] = q]
    /\ mine' = [mine EXCEPT ![d] = front]
    /\ base' = [base EXCEPT ![d] = front]
    /\ UNCHANGED <<disk, cur, beside, crashes>>

\* What d's result for s may be: the decision is the worker's.
Results(d, s) ==
    UNION {{[point |-> [sha |-> s, metrics |-> Score[s][quarter[d]]], decision |-> decision, verdict |-> v] :
               v \in Verdicts(decision)} : decision \in Decision}

\* The drivers that are in append_history when d gets there, and d if there are any.
Meet(d) ==
    LET met == {e \in Driver \ {d} : at[e] = "append"}
    IN  [e \in Driver |-> beside[e] \/ e \in met \/ (e = d /\ met # {})]

\* Only what raised no doubt gets a line in HISTORY.
RecordUndoubted(d) ==
    /\ at[d] = "loop" /\ cur[d] = {}
    /\ \E s \in todo[d] : \E r \in Results(d, s) :
          /\ todo' = [todo EXCEPT ![d] = @ \ {s}]
          /\ cur' = [cur EXCEPT ![d] = {r}]
          /\ history' = IF r.verdict \in {"suspicious", "suspicious_to_human"} THEN history
                        ELSE Append(history, r)
    /\ at' = [at EXCEPT ![d] = "append"]
    /\ beside' = Meet(d)
    /\ UNCHANGED <<front, lost, readable, snapshots, pending, binned, stateMd, mine, base,
                   quarter, gens, crashes>>

\* Results come in the order the workers finished, and with the decision the
\* worker made.  Each gets its verdict and its line in HISTORY.
RecordResult(d) ==
    /\ at[d] = "loop" /\ cur[d] = {}
    /\ \E s \in todo[d] : \E r \in Results(d, s) :
          /\ todo' = [todo EXCEPT ![d] = @ \ {s}]
          /\ cur' = [cur EXCEPT ![d] = {r}]
          /\ history' = Append(history, r)
    /\ at' = [at EXCEPT ![d] = "append"]
    /\ beside' = Meet(d)
    /\ UNCHANGED <<front, lost, readable, snapshots, pending, binned, stateMd, mine, base,
                   quarter, gens, crashes>>

\* The append rotates the file while another driver is in its own: lines may be
\* lost, and two that write one archive may spoil it.
LoseLine(d) ==
    /\ at[d] = "append" /\ beside[d]
    /\ \/ \E n \in DOMAIN history :
             /\ history' = RemoveAt(history, n)
             /\ lost' = lost \cup {history[n]}
             /\ UNCHANGED readable
       \/ readable' = FALSE /\ UNCHANGED <<history, lost>>
    /\ UNCHANGED <<front, snapshots, pending, binned, stateMd, at, todo, cur, beside, mine,
                   base, quarter, gens, crashes>>

\* append_history returns, and what only a human can decide becomes an issue.
Escalate(d) ==
    /\ at[d] = "append"
    /\ pending' = pending \cup {r.point.sha : r \in {x \in cur[d] : x.verdict = "suspicious_to_human"}}
    /\ at' = [at EXCEPT ![d] = "loop"]
    /\ beside' = [beside EXCEPT ![d] = FALSE]
    /\ UNCHANGED <<front, journal, snapshots, binned, stateMd, todo, cur, mine, base, quarter,
                   gens, crashes>>

\* Whether the front moved is asked after the point is on it.
AccountAsksLate(d) ==
    /\ at[d] = "loop"
    /\ \E r \in cur[d] :
          /\ r.decision = "accepted"
          /\ mine' = [mine EXCEPT ![d] = add(@, r.point)]
          /\ IF Admits(mine'[d], r.point)
             THEN /\ snapshots' = [snapshots EXCEPT ![r.point.sha] = "cut"]
                  /\ at' = [at EXCEPT ![d] = "snapshot"]
                  /\ UNCHANGED cur
             ELSE cur' = [cur EXCEPT ![d] = {}] /\ UNCHANGED <<snapshots, at>>
    /\ UNCHANGED <<front, journal, pending, binned, stateMd, todo, beside, base, quarter, gens,
                   crashes>>

\* An accepted result is offered to the front in memory, whatever the verdict.  If
\* the front moved, write_text opens the snapshot, which empties it ...
AccountAccepted(d) ==
    /\ at[d] = "loop"
    /\ \E r \in cur[d] :
          /\ r.decision = "accepted"
          /\ mine' = [mine EXCEPT ![d] = add(@, r.point)]
          /\ IF Admits(mine[d], r.point)
             THEN /\ snapshots' = [snapshots EXCEPT ![r.point.sha] = "cut"]
                  /\ at' = [at EXCEPT ![d] = "snapshot"]
                  /\ UNCHANGED cur
             ELSE cur' = [cur EXCEPT ![d] = {}] /\ UNCHANGED <<snapshots, at>>
    /\ UNCHANGED <<front, journal, pending, binned, stateMd, todo, beside, base, quarter, gens,
                   crashes>>

\* ... and writes it.  The hash decides the text, whoever writes it.
WriteSnapshot(d) ==
    /\ at[d] = "snapshot"
    /\ \E r \in cur[d] : snapshots' = [snapshots EXCEPT ![r.point.sha] = "whole"]
    /\ at' = [at EXCEPT ![d] = "loop"]
    /\ cur' = [cur EXCEPT ![d] = {}]
    /\ UNCHANGED <<front, journal, pending, binned, stateMd, todo, beside, mine, base, quarter,
                   gens, crashes>>

\* The run directory of any other result goes to REJECTED, if it can be moved.
AccountOther(d) ==
    /\ at[d] = "loop"
    /\ \E r \in cur[d] :
          /\ r.decision # "accepted"
          /\ binned' \in {binned, binned \cup {r.point.sha}}
    /\ cur' = [cur EXCEPT ![d] = {}]
    /\ UNCHANGED <<front, journal, snapshots, pending, stateMd, at, todo, beside, mine, base,
                   quarter, gens, crashes>>

\* pareto_save: PARETO.json is replaced atomically.
Save(d) ==
    /\ at[d] = "loop" /\ todo[d] = {} /\ cur[d] = {}
    /\ front' = mine[d]
    /\ at' = [at EXCEPT ![d] = "saved"]
    /\ UNCHANGED <<journal, snapshots, pending, binned, stateMd, todo, cur, beside, mine, base,
                   quarter, gens, crashes>>

\* write_state_md: a JSON dump first, then the markdown over it, and main ends.
WriteState(d) ==
    /\ \/ /\ at[d] = "saved"
          /\ stateMd' = "json"
          /\ at' = [at EXCEPT ![d] = "rendering"]
          /\ UNCHANGED <<mine, base>>
       \/ /\ at[d] = "rendering"
          /\ stateMd' = "markdown"
          /\ at' = [at EXCEPT ![d] = "idle"]
          /\ mine' = [mine EXCEPT ![d] = {}]
          /\ base' = [base EXCEPT ![d] = {}]
    /\ UNCHANGED <<front, journal, snapshots, pending, binned, todo, cur, beside, quarter, gens,
                   crashes>>

\* The process dies, or an exception leaves main.  In the middle of a rotation it
\* leaves an archive that ends too early.
Crash(d) ==
    /\ at[d] # "idle"
    /\ crashes < MaxCrashes
    /\ crashes' = crashes + 1
    /\ at' = [at EXCEPT ![d] = "idle"]
    /\ todo' = [todo EXCEPT ![d] = {}]
    /\ cur' = [cur EXCEPT ![d] = {}]
    /\ beside' = [beside EXCEPT ![d] = FALSE]
    /\ mine' = [mine EXCEPT ![d] = {}]
    /\ base' = [base EXCEPT ![d] = {}]
    /\ readable' \in {readable, readable /\ at[d] # "append"}
    /\ UNCHANGED <<front, history, lost, snapshots, pending, binned, stateMd, quarter, gens>>

Next ==
    \E d \in Driver : \/ Load(d) \/ RecordResult(d) \/ LoseLine(d) \/ Escalate(d)
                      \/ AccountAccepted(d) \/ WriteSnapshot(d) \/ AccountOther(d)
                      \/ Save(d) \/ WriteState(d) \/ Crash(d)

Spec == Init /\ [][Next]_vars
----------------------------------------------------------------------------
\* "Removes any existing members that p dominates": no member of PARETO.json, nor
\* of a front in memory, dominates another, whoever saved it last.
FrontIsAntichain ==
    Antichain(front) /\ \A d \in Driver : Antichain(mine[d])

\* Somebody is about to write this snapshot, which is empty until then.
BeingWritten(s) == \E d \in Driver : at[d] = "snapshot" /\ \E r \in cur[d] : r.point.sha = s

\* The snapshots that a driver emptied and nobody writes.
Spoilt == {s \in Sha : snapshots[s] = "cut" /\ ~BeingWritten(s)}

\* "frozen tuning.yaml every time Pareto moves": every member of PARETO.json has its
\* snapshot, whoever raced or died, and one that is cut short is being written or was
\* paid for with the death of a driver.
FrontHasSnapshot ==
    /\ \A p \in front : snapshots[p.sha] # "absent"
    /\ Cardinality(Spoilt) <= crashes

\* "enables one-step rollback": every member of PARETO.json can be rolled back to.
RollbackWorks == \A p \in front : snapshots[p.sha] = "whole"

\* The lines that were written, whether HISTORY still has them or not.
Journalled == Range(history) \cup lost

\* "HISTORY.jsonl is the source of truth": nothing else on disk speaks of a result
\* that was not journalled first.
JournalFirst ==
    /\ \A p \in front : \E r \in Journalled : r.point = p /\ r.decision = "accepted"
    /\ \A s \in Sha : snapshots[s] # "absent" =>
           \E r \in Journalled : r.point.sha = s /\ r.decision = "accepted"
    /\ \A s \in binned : \E r \in Journalled : r.point.sha = s /\ r.decision # "accepted"
    /\ \A s \in pending :
           \E r \in Journalled : r.point.sha = s /\ r.verdict = "suspicious_to_human"

\* The front that HISTORY gives, its accepted records offered one after another.
Rebuilt ==
    LET rebuilt[n \in 0 .. Len(history)] ==
            IF n = 0 THEN {}
            ELSE IF history[n].decision = "accepted" THEN add(rebuilt[n - 1], history[n].point)
            ELSE rebuilt[n - 1]
    IN  rebuilt[Len(history)]

\* "PARETO.json can be rebuilt from it": whatever crashed or raced, if HISTORY can be
\* read and the line of a member of PARETO.json was not lost, then the front HISTORY
\* gives has the equal or better of a result of the same hash - of the member itself,
\* unless the hash was measured on several quarters.
ReplayRebuilds ==
    readable => \A p \in front :
        \/ \E r \in lost : r.point = p /\ r.decision = "accepted"
        \/ \E n \in DOMAIN history :
              /\ history[n].decision = "accepted" /\ history[n].point.sha = p.sha
              /\ Covers(Rebuilt, history[n].point)

\* The same, of whatever is on disk.
ReplayAlwaysRebuilds == readable /\ \A p \in front : Covers(Rebuilt, p)

\* "updates PARETO.json if the candidate is non-dominated": a save never loses a
\* point of the file it replaces unless to one at least as good, provided that the
\* file is still the one its driver read.
FrontOnlyImproves ==
    [][\A d \in Driver : (at[d] = "loop" /\ at'[d] = "saved" /\ base[d] = front)
           => \A p \in front : Covers(front', p)]_vars

\* "so the M4 verdict can be overruled by the LLM check": what the arbiter rejects
\* and no record accepts is not on the front.
OverruledStaysOff ==
    \A p \in front : \E r \in Journalled : r.point = p /\ r.verdict # "rejected"

\* "a partial STATE.md never replaces a good one": whoever reads STATE.md finds the
\* rendered markdown.
StateIsRendered == stateMd # "json"
=============================================================================
