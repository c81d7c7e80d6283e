---------------------------- MODULE TuningProofs ----------------------------
(***************************************************************************)
(* Proofs about the tuning loop: the driver's durable state (app/loop), for*)
(* every set of candidates, objectives and drivers and any number of       *)
(* crashes; the Checker's isolation and verdicts; the out-of-sample guards;*)
(* the sleep of the scheduler; the Maker's batches; the generations that   *)
(* the search writes.                                                      *)
(***************************************************************************)
EXTENDS LoopDriver, CheckerAgent, MakerAgent, TuningSearch, Robustness, Scheduler,
        Induction, SequenceTheorems

\* Every point has all its objectives as integers.
LEMMA ObjectivesAreInts ==
    ASSUME NEW p \in Point
    PROVE  objectives(p) \in [Objective -> Int]
BY ParetoAssumption DEF objectives, Point, Metrics

\* Being at least as good everywhere is reflexive.
LEMMA AtLeastReflexive ==
    ASSUME NEW p \in Point
    PROVE  AtLeast(p, p)
BY ObjectivesAreInts DEF AtLeast

\* Being at least as good everywhere is transitive.
LEMMA AtLeastTransitive ==
    ASSUME NEW p \in Point, NEW q \in Point, NEW r \in Point,
           AtLeast(p, q), AtLeast(q, r)
    PROVE  AtLeast(p, r)
<1>1. /\ objectives(p) \in [Objective -> Int]
      /\ objectives(q) \in [Objective -> Int]
      /\ objectives(r) \in [Objective -> Int]
  BY ObjectivesAreInts
<1> QED
  BY <1>1 DEF AtLeast

\* No point dominates itself.
LEMMA DominatesIrreflexive ==
    ASSUME NEW p \in Point
    PROVE  ~dominates(p, p)
BY ObjectivesAreInts DEF dominates

\* What add returns is a set of points, each old or the one offered.
LEMMA AddType ==
    ASSUME NEW points \in SUBSET Point, NEW p \in Point
    PROVE  /\ add(points, p) \in SUBSET Point
           /\ \A q \in add(points, p) : q \in points \/ (q = p /\ Admits(points, p))
BY DEF add, Survivors

\* ParetoSet.add keeps the front free of dominated members.
LEMMA AddKeepsAntichain ==
    ASSUME NEW points \in SUBSET Point, NEW p \in Point, Antichain(points)
    PROVE  Antichain(add(points, p))
<1>1. CASE ~Admits(points, p)
  BY <1>1 DEF add
<1>2. CASE Admits(points, p)
  <2>1. \A q \in Survivors(points, p) : ~dominates(q, p) /\ ~dominates(p, q) /\ q \in points
    BY <1>2 DEF Admits, Survivors
  <2>2. ~dominates(p, p)
    BY DominatesIrreflexive
  <2>3. add(points, p) = Survivors(points, p) \cup {p}
    BY <1>2 DEF add
  <2> QED
    BY <2>1, <2>2, <2>3 DEF Antichain
<1> QED
  BY <1>1, <1>2

\* ParetoSet.add never loses ground: what the front covered it still covers.
LEMMA AddKeepsCover ==
    ASSUME NEW points \in SUBSET Point, NEW p \in Point, NEW q \in Point, Covers(points, q)
    PROVE  Covers(add(points, p), q)
<1>1. PICK m \in points : AtLeast(m, q)
  BY DEF Covers
<1>2. CASE ~Admits(points, p)
  BY <1>2 DEF add
<1>3. CASE Admits(points, p)
  <2>1. add(points, p) = Survivors(points, p) \cup {p}
    BY <1>3 DEF add
  <2>2. CASE ~dominates(p, m)
    BY <1>1, <2>1, <2>2 DEF Covers, Survivors
  <2>3. CASE dominates(p, m)
    <3>1. AtLeast(p, q)
      BY <1>1, <2>3, AtLeastTransitive DEF dominates
    <3> QED
      BY <2>1, <3>1 DEF Covers
  <2> QED
    BY <2>2, <2>3
<1> QED
  BY <1>2, <1>3
----------------------------------------------------------------------------
\* A verdict is one of the five.
LEMMA VerdictsType ==
    ASSUME NEW decision \in Decision, NEW v \in Verdicts(decision)
    PROVE  v \in Verdict
<1>1. \A flagged \in BOOLEAN : check_candidate(decision, flagged) \in M4
  BY DEF check_candidate, M4
<1>2. \A m \in M4 : \A accept, gap \in BOOLEAN : resolve(m, accept, gap) \in Verdict
  BY DEF resolve, M4, Verdict
<1>3. PICK flagged \in BOOLEAN, accept \in BOOLEAN, gap \in BOOLEAN :
        v = IF MakerChecker THEN resolve(check_candidate(decision, flagged), accept, gap)
                            ELSE check_candidate(decision, flagged)
  BY DEF Verdicts
<1>4. M4 \subseteq Verdict
  BY DEF Verdict
<1> QED
  BY <1>1, <1>2, <1>3, <1>4

\* A result is a line for HISTORY.
LEMMA ResultsType ==
    ASSUME TypeOK, NEW d \in Driver, NEW s \in Sha, NEW r \in Results(d, s)
    PROVE  r \in Record /\ r.point.sha = s
<1>0. PICK decision \in Decision : \E v \in Verdicts(decision) :
        r = [point |-> [sha |-> s, metrics |-> Score[s][quarter[d]]], decision |-> decision, verdict |-> v]
  BY DEF Results
<1>1. PICK v \in Verdicts(decision) :
        r = [point |-> [sha |-> s, metrics |-> Score[s][quarter[d]]], decision |-> decision, verdict |-> v]
  BY <1>0
<1>2. v \in Verdict
  BY <1>1, VerdictsType
<1>3. quarter[d] \in Quarter
  BY DEF TypeOK
<1>4. [sha |-> s, metrics |-> Score[s][quarter[d]]] \in Point
  BY <1>3, DriverAssumption DEF Point
<1> QED
  BY <1>1, <1>2, <1>4 DEF Record

\* What taking one line out of a sequence leaves.
LEMMA RemoveAtLeaves ==
    ASSUME NEW S, NEW seq \in Seq(S), NEW n \in DOMAIN seq
    PROVE  /\ RemoveAt(seq, n) \in Seq(S)
           /\ Range(seq) \subseteq Range(RemoveAt(seq, n)) \cup {seq[n]}
<1> DEFINE left == RemoveAt(seq, n)
           N == Len(seq)
<1>0. N \in Nat /\ n \in 1 .. N /\ DOMAIN seq = 1 .. N
  BY LenProperties
<1>1. /\ SubSeq(seq, 1, n - 1) \in Seq(S)
      /\ Len(SubSeq(seq, 1, n - 1)) = n - 1
      /\ \A i \in 1 .. n - 1 : SubSeq(seq, 1, n - 1)[i] = seq[i]
  BY <1>0
<1>2. /\ SubSeq(seq, n + 1, N) \in Seq(S)
      /\ Len(SubSeq(seq, n + 1, N)) = N - n
      /\ \A i \in 1 .. N - n : SubSeq(seq, n + 1, N)[i] = seq[n + i]
  BY <1>0
<1>3. left \in Seq(S)
  BY <1>1, <1>2, ConcatProperties DEF RemoveAt
<1>4. Len(left) = (n - 1) + (N - n)
  BY <1>1, <1>2, ConcatProperties DEF RemoveAt
<1>5. \A i \in 1 .. n - 1 : left[i] = seq[i]
  BY <1>0, <1>1, <1>2, ConcatProperties DEF RemoveAt
<1>6. \A i \in n .. N - 1 : left[i] = seq[i + 1]
  <2> SUFFICES ASSUME NEW i \in n .. N - 1 PROVE left[i] = seq[i + 1]
    OBVIOUS
  <2> DEFINE u == SubSeq(seq, 1, n - 1)  v == SubSeq(seq, n + 1, N)
  <2>0. left = u \o v /\ u \in Seq(S) /\ v \in Seq(S) /\ Len(u) = n - 1 /\ Len(v) = N - n
    BY <1>1, <1>2 DEF RemoveAt
  <2> HIDE DEF left, u, v
  <2>1. i \in 1 .. Len(u) + Len(v) /\ ~(i <= Len(u))
    BY <1>0, <2>0
  <2>2. (u \o v)[i] = v[i - Len(u)]
    BY <2>0, <2>1, ConcatProperties
  <2>3. i - (n - 1) \in 1 .. N - n /\ n + (i - (n - 1)) = i + 1
    BY <1>0
  <2> QED
    BY <1>2, <2>0, <2>2, <2>3 DEF v
<1>7. DOMAIN left = 1 .. N - 1
  BY <1>0, <1>3, <1>4, LenProperties
<1> HIDE DEF left, N
<1>8. ASSUME NEW k \in 1 .. N, k # n PROVE seq[k] \in Range(left)
  <2>1. CASE k < n
    BY <1>0, <1>5, <1>7, <2>1 DEF Range
  <2>2. CASE k > n
    <3>1. k - 1 \in n .. N - 1 /\ (k - 1) + 1 = k /\ k - 1 \in 1 .. N - 1
      BY <1>0, <2>2
    <3> QED
      BY <1>6, <1>7, <3>1 DEF Range
  <2> QED
    BY <1>0, <1>8, <2>1, <2>2
<1> QED
  BY <1>0, <1>3, <1>8 DEF Range, left

\* The driver's files and its memory keep their types: in particular every verdict
\* of evaluate_candidate is one that the callers know.
THEOREM DriverTypeCorrect == Spec => []TypeOK
<1>1. Init => TypeOK
  BY DriverAssumption DEF Init, TypeOK
<1>2. TypeOK /\ [Next]_vars => TypeOK'
  <2> SUFFICES ASSUME TypeOK, [Next]_vars
               PROVE  TypeOK'
    OBVIOUS
  <2> USE DEF disk, journal
  <2>1. ASSUME NEW d \in Driver, Load(d)
        PROVE  TypeOK'
    BY <2>1, DriverAssumption DEF Load, TypeOK
  <2>2. ASSUME NEW d \in Driver, RecordResult(d)
        PROVE  TypeOK'
    <3>0. PICK s \in todo[d] : \E r \in Results(d, s) :
            /\ todo' = [todo EXCEPT ![d] = @ \ {s}]
            /\ cur' = [cur EXCEPT ![d] = {r}]
            /\ history' = Append(history, r)
      BY <2>2 DEF RecordResult
    <3>1. PICK r \in Results(d, s) :
            /\ todo' = [todo EXCEPT ![d] = @ \ {s}]
            /\ cur' = [cur EXCEPT ![d] = {r}]
            /\ history' = Append(history, r)
      BY <3>0
    <3>2. s \in Sha
      BY DEF TypeOK
    <3>3. r \in Record
      BY <3>2, ResultsType
    <3>4. history' \in Seq(Record)
      BY <3>1, <3>3, AppendProperties DEF TypeOK
    <3>5. todo' \in [Driver -> SUBSET Sha] /\ cur' \in [Driver -> SUBSET Record]
      BY <3>1, <3>3 DEF TypeOK
    <3>6. beside' \in [Driver -> BOOLEAN]
      <4>1. beside' = Meet(d)
        BY <2>2 DEF RecordResult
      <4> QED
        BY <4>1, Zenon DEF Meet, TypeOK
    <3> QED
      BY <2>2, <3>4, <3>5, <3>6 DEF RecordResult, TypeOK
  <2>3. ASSUME NEW d \in Driver, LoseLine(d)
        PROVE  TypeOK'
    <3>1. history' \in Seq(Record) /\ lost' \subseteq Record /\ readable' \in BOOLEAN
      <4>1. CASE readable' = FALSE /\ UNCHANGED <<history, lost>>
        BY <4>1 DEF TypeOK
      <4>2. ASSUME NEW n \in DOMAIN history, history' = RemoveAt(history, n),
                   lost' = lost \cup {history[n]}, UNCHANGED readable
            PROVE  history' \in Seq(Record) /\ lost' \subseteq Record /\ readable' \in BOOLEAN
        <5>1. history \in Seq(Record)
          BY DEF TypeOK
        <5>2. RemoveAt(history, n) \in Seq(Record)
          BY <5>1, RemoveAtLeaves
        <5>3. history[n] \in Record
          BY <5>1, ElementOfSeq, LenProperties
        <5> QED
          BY <4>2, <5>2, <5>3 DEF TypeOK
      <4> QED
        BY <2>3, <4>1, <4>2 DEF LoseLine
    <3> QED
      BY <2>3, <3>1 DEF LoseLine, TypeOK
  <2>4. ASSUME NEW d \in Driver, Escalate(d)
        PROVE  TypeOK'
    <3>1. \A r \in cur[d] : r.point.sha \in Sha
      BY DEF TypeOK, Record, Point
    <3>2. pending' \subseteq Sha
      BY <2>4, <3>1 DEF Escalate, TypeOK
    <3> QED
      BY <2>4, <3>2 DEF Escalate, TypeOK
  <2>5. ASSUME NEW d \in Driver, AccountAccepted(d)
        PROVE  TypeOK'
    <3>1. PICK r \in cur[d] :
            /\ mine' = [mine EXCEPT ![d] = add(@, r.point)]
            /\ IF Admits(mine[d], r.point)
               THEN /\ snapshots' = [snapshots EXCEPT ![r.point.sha] = "cut"]
                    /\ at' = [at EXCEPT ![d] = "snapshot"]
                    /\ UNCHANGED cur
               ELSE cur' = [cur EXCEPT ![d] = {}] /\ UNCHANGED <<snapshots, at>>
      BY <2>5 DEF AccountAccepted
    <3>2. r.point \in Point /\ r.point.sha \in Sha
      BY <3>1 DEF TypeOK, Record, Point
    <3>3. add(mine[d], r.point) \in SUBSET Point
      BY <3>2, AddType DEF TypeOK
    <3>4. mine' \in [Driver -> SUBSET Point]
      BY <3>1, <3>3 DEF TypeOK
    <3>5. /\ snapshots' \in [Sha -> {"absent", "cut", "whole"}]
          /\ cur' \in [Driver -> SUBSET Record]
          /\ at' \in [Driver -> {"idle", "loop", "append", "snapshot", "saved", "rendering"}]
      BY <3>1, <3>2 DEF TypeOK
    <3> QED
      BY <2>5, <3>4, <3>5 DEF AccountAccepted, TypeOK
  <2>6. ASSUME NEW d \in Driver, WriteSnapshot(d)
        PROVE  TypeOK'
    <3>1. PICK r \in cur[d] : snapshots' = [snapshots EXCEPT ![r.point.sha] = "whole"]
      BY <2>6 DEF WriteSnapshot
    <3>2. snapshots' \in [Sha -> {"absent", "cut", "whole"}]
      BY <3>1 DEF TypeOK
    <3> QED
      BY <2>6, <3>2 DEF WriteSnapshot, TypeOK
  <2>7. ASSUME NEW d \in Driver, AccountOther(d)
        PROVE  TypeOK'
    <3>1. PICK r \in cur[d] : binned' \in {binned, binned \cup {r.point.sha}}
      BY <2>7 DEF AccountOther
    <3>2. r.point.sha \in Sha
      BY <3>1 DEF TypeOK, Record, Point
    <3> QED
      BY <2>7, <3>1, <3>2 DEF AccountOther, TypeOK
  <2>8. ASSUME NEW d \in Driver, Save(d)
        PROVE  TypeOK'
    BY <2>8 DEF Save, TypeOK
  <2>9. ASSUME NEW d \in Driver, WriteState(d)
        PROVE  TypeOK'
    BY <2>9 DEF WriteState, TypeOK
  <2>10. ASSUME NEW d \in Driver, Crash(d)
         PROVE  TypeOK'
    <3>1. readable' \in BOOLEAN
      BY <2>10, Zenon DEF Crash, TypeOK
    <3>2. UNCHANGED <<front, history, lost, snapshots, pending, binned, stateMd, quarter, gens>>
      BY <2>10 DEF Crash
    <3>3. crashes' \in 0 .. MaxCrashes
      BY <2>10, DriverAssumption DEF Crash, TypeOK
    <3>4. /\ at' = [at EXCEPT ![d] = "idle"]
          /\ todo' = [todo EXCEPT ![d] = {}]
          /\ cur' = [cur EXCEPT ![d] = {}]
          /\ beside' = [beside EXCEPT ![d] = FALSE]
          /\ mine' = [mine EXCEPT ![d] = {}]
          /\ base' = [base EXCEPT ![d] = {}]
      BY <2>10 DEF Crash
    <3> QED
      BY <3>1, <3>2, <3>3, <3>4 DEF TypeOK
  <2>11. CASE UNCHANGED vars
    BY <2>11 DEF vars, TypeOK
  <2> QED
    BY <2>1, <2>2, <2>3, <2>4, <2>5, <2>6, <2>7, <2>8, <2>9, <2>10, <2>11 DEF Next
<1> QED
  BY <1>1, <1>2, PTL DEF Spec
----------------------------------------------------------------------------
\* The steps that leave PARETO.json and the fronts in memory alone.
LEMMA FrontsRest ==
    ASSUME NEW d \in Driver, RecordResult(d) \/ LoseLine(d) \/ Escalate(d) \/ WriteSnapshot(d) \/ AccountOther(d)
    PROVE  UNCHANGED <<front, mine, base, crashes>>
BY DEF RecordResult, LoseLine, Escalate, WriteSnapshot, AccountOther

\* ParetoSet.add prunes what the new point dominates and refuses a dominated one, so
\* PARETO.json is an antichain whoever saved it and whatever crashed.
THEOREM DriverKeepsAntichain == Spec => []FrontIsAntichain
<1>1. Init => FrontIsAntichain
  BY DEF Init, FrontIsAntichain, Antichain
<1>2. TypeOK /\ FrontIsAntichain /\ [Next]_vars => FrontIsAntichain'
  <2> SUFFICES ASSUME TypeOK, FrontIsAntichain, [Next]_vars
               PROVE  FrontIsAntichain'
    OBVIOUS
  <2> USE DEF FrontIsAntichain, disk
  <2>1. ASSUME NEW d \in Driver, Load(d)
        PROVE  FrontIsAntichain'
    <3>1. front' = front /\ mine' = [mine EXCEPT ![d] = front]
      BY <2>1 DEF Load
    <3>2. mine \in [Driver -> SUBSET Point]
      BY DEF TypeOK
    <3>3. \A e \in Driver : mine'[e] = mine[e] \/ mine'[e] = front
      BY <3>1, <3>2
    <3> QED
      BY <3>1, <3>3 DEF Antichain
  <2>2. ASSUME NEW d \in Driver, AccountAccepted(d)
        PROVE  FrontIsAntichain'
    <3>1. PICK r \in cur[d] : mine' = [mine EXCEPT ![d] = add(@, r.point)]
      BY <2>2 DEF AccountAccepted
    <3>2. r.point \in Point /\ mine \in [Driver -> SUBSET Point]
      BY <3>1 DEF TypeOK, Record
    <3>3. Antichain(add(mine[d], r.point))
      BY <3>2, AddKeepsAntichain
    <3>4. \A e \in Driver : mine'[e] = mine[e] \/ mine'[e] = add(mine[d], r.point)
      BY <3>1, <3>2
    <3>5. front' = front
      BY <2>2 DEF AccountAccepted
    <3> QED
      BY <3>3, <3>4, <3>5 DEF Antichain
  <2>3. ASSUME NEW d \in Driver,
               RecordResult(d) \/ LoseLine(d) \/ Escalate(d) \/ WriteSnapshot(d) \/ AccountOther(d)
        PROVE  FrontIsAntichain'
    BY <2>3, FrontsRest DEF Antichain
  <2>4. ASSUME NEW d \in Driver, Save(d)
        PROVE  FrontIsAntichain'
    BY <2>4 DEF Save, Antichain
  <2>5. ASSUME NEW d \in Driver, WriteState(d) \/ Crash(d)
        PROVE  FrontIsAntichain'
    <3>1. front' = front /\ \A e \in Driver : mine'[e] = mine[e] \/ mine'[e] = {}
      <4>1. mine \in [Driver -> SUBSET Point]
        BY DEF TypeOK
      <4> QED
        BY <2>5, <4>1 DEF WriteState, Crash
    <3> QED
      BY <3>1 DEF Antichain
  <2>6. CASE UNCHANGED vars
    BY <2>6 DEF vars, Antichain
  <2> QED
    BY <2>1, <2>2, <2>3, <2>4, <2>5, <2>6 DEF Next
<1> QED
  BY <1>1, <1>2, DriverTypeCorrect, PTL DEF Spec
----------------------------------------------------------------------------

\* What a driver has in hand when it writes a snapshot is one result, and a front in
\* memory has, like PARETO.json, a snapshot of each member.
SnapshotInv ==
    /\ FrontHasSnapshot
    /\ IsFiniteSet(Spoilt)
    /\ \A d \in Driver : \A p \in mine[d] : snapshots[p.sha] # "absent"
    /\ \A d \in Driver : \A q, r \in cur[d] : q = r

\* A step that leaves no more snapshots spoilt and undoes no death.
LEMMA NoMoreSpoilt ==
    ASSUME TypeOK, IsFiniteSet(Spoilt), Cardinality(Spoilt) <= crashes,
           Spoilt' \subseteq Spoilt, crashes' = crashes
    PROVE  IsFiniteSet(Spoilt') /\ Cardinality(Spoilt') <= crashes'
<1>1. IsFiniteSet(Spoilt') /\ Cardinality(Spoilt') <= Cardinality(Spoilt)
  BY FS_Subset
<1>2. Cardinality(Spoilt) \in Nat /\ Cardinality(Spoilt') \in Nat /\ crashes \in Nat
  BY <1>1, FS_CardinalityType DEF TypeOK
<1> QED
  BY <1>1, <1>2

\* The steps that touch neither a snapshot nor a driver that writes one.
LEMMA SnapshotsRest ==
    ASSUME TypeOK, NEW d \in Driver,
           \/ Load(d) \/ RecordResult(d) \/ LoseLine(d) \/ Escalate(d)
           \/ AccountOther(d) \/ Save(d) \/ WriteState(d)
    PROVE  /\ snapshots' = snapshots /\ crashes' = crashes
           /\ \A s : BeingWritten(s) => BeingWritten(s)'
<1>1. /\ at \in [Driver -> {"idle", "loop", "append", "snapshot", "saved", "rendering"}]
      /\ cur \in [Driver -> SUBSET Record]
  BY DEF TypeOK
<1>2. snapshots' = snapshots /\ crashes' = crashes
  BY DEF Load, RecordResult, LoseLine, Escalate, AccountOther, Save, WriteState, disk
<1>3. at[d] # "snapshot" /\ \A e \in Driver \ {d} : at'[e] = at[e] /\ cur'[e] = cur[e]
  BY <1>1 DEF Load, RecordResult, LoseLine, Escalate, AccountOther, Save, WriteState
<1> QED
  BY <1>2, <1>3 DEF BeingWritten

\* The driver writes the snapshot of a point before the PARETO.json that holds it, and
\* no step removes one.  Opening it to write empties it, whoever wrote it before, so a
\* driver that dies there leaves it spoilt: one for each death, and no more.
THEOREM DriverSnapshotsFront == Spec => []FrontHasSnapshot
<1>1. Init => SnapshotInv
  <2> SUFFICES ASSUME Init PROVE SnapshotInv
    OBVIOUS
  <2>1. Spoilt = {}
    BY DEF Init, Spoilt
  <2>2. IsFiniteSet(Spoilt) /\ Cardinality(Spoilt) <= crashes
    BY <2>1, FS_EmptySet DEF Init
  <2> QED
    BY <2>2 DEF Init, SnapshotInv, FrontHasSnapshot
<1>2. TypeOK /\ SnapshotInv /\ [Next]_vars => SnapshotInv'
  <2> SUFFICES ASSUME TypeOK, SnapshotInv, [Next]_vars
               PROVE  SnapshotInv'
    OBVIOUS
  <2>0. /\ front \subseteq Point /\ mine \in [Driver -> SUBSET Point]
        /\ cur \in [Driver -> SUBSET Record] /\ snapshots \in [Sha -> {"absent", "cut", "whole"}]
        /\ at \in [Driver -> {"idle", "loop", "append", "snapshot", "saved", "rendering"}]
    BY DEF TypeOK
  <2>a. /\ \A p \in front : snapshots[p.sha] # "absent"
        /\ \A d \in Driver : \A p \in mine[d] : snapshots[p.sha] # "absent"
        /\ \A d \in Driver : \A q, r \in cur[d] : q = r
        /\ IsFiniteSet(Spoilt) /\ Cardinality(Spoilt) <= crashes
    BY DEF SnapshotInv, FrontHasSnapshot
  <2>s. ASSUME snapshots' = snapshots, crashes' = crashes, \A s : BeingWritten(s) => BeingWritten(s)'
        PROVE  IsFiniteSet(Spoilt') /\ Cardinality(Spoilt') <= crashes'
    <3>1. Spoilt' \subseteq Spoilt
      BY <2>s DEF Spoilt
    <3> QED
      BY <2>a, <2>s, <3>1, NoMoreSpoilt
  <2>1. ASSUME NEW d \in Driver, Load(d)
        PROVE  SnapshotInv'
    <3>1. \A e \in Driver : mine'[e] = mine[e] \/ mine'[e] = front
      BY <2>0, <2>1 DEF Load
    <3>2. front' = front /\ cur' = cur
      BY <2>1 DEF Load, disk
    <3> QED
      BY <2>a, <2>s, <2>1, <3>1, <3>2, SnapshotsRest DEF SnapshotInv, FrontHasSnapshot
  <2>2. ASSUME NEW d \in Driver, RecordResult(d)
        PROVE  SnapshotInv'
    <3>1. PICK r : cur' = [cur EXCEPT ![d] = {r}]
      BY <2>2 DEF RecordResult
    <3>2. \A e \in Driver : \A p, q \in cur'[e] : p = q
      BY <2>0, <2>a, <3>1
    <3> QED
      BY <2>a, <2>s, <2>2, <3>2, FrontsRest, SnapshotsRest DEF SnapshotInv, FrontHasSnapshot
  <2>3. ASSUME NEW d \in Driver, LoseLine(d) \/ Escalate(d) \/ AccountOther(d)
        PROVE  SnapshotInv'
    <3>1. \A e \in Driver : cur'[e] \subseteq cur[e]
      BY <2>0, <2>3 DEF LoseLine, Escalate, AccountOther
    <3> QED
      BY <2>a, <2>s, <2>3, <3>1, FrontsRest, SnapshotsRest DEF SnapshotInv, FrontHasSnapshot
  <2>4. ASSUME NEW d \in Driver, Save(d) \/ WriteState(d)
        PROVE  SnapshotInv'
    <3>1. /\ front' = front \/ front' = mine[d]
          /\ cur' = cur /\ \A e \in Driver : mine'[e] \subseteq mine[e]
      BY <2>0, <2>4 DEF Save, WriteState
    <3> QED
      BY <2>a, <2>s, <2>4, <3>1, SnapshotsRest DEF SnapshotInv, FrontHasSnapshot
  <2>5. ASSUME NEW d \in Driver, AccountAccepted(d)
        PROVE  SnapshotInv'
    <3>1. PICK r \in cur[d] :
            /\ mine' = [mine EXCEPT ![d] = add(@, r.point)]
            /\ IF Admits(mine[d], r.point)
               THEN /\ snapshots' = [snapshots EXCEPT ![r.point.sha] = "cut"]
                    /\ at' = [at EXCEPT ![d] = "snapshot"]
                    /\ UNCHANGED cur
               ELSE cur' = [cur EXCEPT ![d] = {}] /\ UNCHANGED <<snapshots, at>>
      BY <2>5 DEF AccountAccepted
    <3>2. r.point \in Point /\ r.point.sha \in Sha
      BY <2>0, <3>1 DEF Record, Point
    <3>3. \A q \in add(mine[d], r.point) : q \in mine[d] \/ (q = r.point /\ Admits(mine[d], r.point))
      BY <2>0, <3>2, AddType
    <3>4. UNCHANGED <<front, crashes>> /\ at[d] = "loop"
      BY <2>5 DEF AccountAccepted
    <3>5. \A s \in Sha : snapshots[s] # "absent" => snapshots'[s] # "absent"
      BY <2>0, <3>1, <3>2
    <3>6. Admits(mine[d], r.point) => snapshots'[r.point.sha] # "absent"
      BY <2>0, <3>1, <3>2
    <3>7. \A e \in Driver : \A p \in mine'[e] : snapshots'[p.sha] # "absent"
      <4>1. \A e \in Driver : mine'[e] = mine[e] \/ mine'[e] = add(mine[d], r.point)
        BY <2>0, <3>1
      <4>2. \A e \in Driver : \A p \in mine[e] : p.sha \in Sha
        BY <2>0 DEF Point
      <4> QED
        BY <2>a, <3>3, <3>5, <3>6, <4>1, <4>2
    <3>8. \A e \in Driver : \A p, q \in cur'[e] : p = q
      BY <2>0, <2>a, <3>1
    <3>9. \A p \in front' : snapshots'[p.sha] # "absent"
      <4>1. \A p \in front : p.sha \in Sha
        BY <2>0 DEF Point
      <4> QED
        BY <2>a, <3>4, <3>5, <4>1
    <3>10. Spoilt' \subseteq Spoilt
      <4>1. CASE Admits(mine[d], r.point)
        <5>1. BeingWritten(r.point.sha)'
          BY <2>0, <3>1, <4>1 DEF BeingWritten
        <5>2. \A s : BeingWritten(s) => BeingWritten(s)'
          BY <2>0, <3>1, <4>1 DEF BeingWritten
        <5>3. \A s \in Sha : s # r.point.sha => snapshots'[s] = snapshots[s]
          BY <2>0, <3>1, <4>1
        <5> QED
          BY <5>1, <5>2, <5>3 DEF Spoilt
      <4>2. CASE ~Admits(mine[d], r.point)
        <5>1. \A s : BeingWritten(s) => BeingWritten(s)'
          BY <2>0, <3>1, <3>4, <4>2 DEF BeingWritten
        <5> QED
          BY <3>1, <4>2, <5>1 DEF Spoilt
      <4> QED
        BY <4>1, <4>2
    <3>11. IsFiniteSet(Spoilt') /\ Cardinality(Spoilt') <= crashes'
      BY <2>a, <3>4, <3>10, NoMoreSpoilt
    <3> QED
      BY <3>7, <3>8, <3>9, <3>11 DEF SnapshotInv, FrontHasSnapshot
  <2>6. ASSUME NEW d \in Driver, WriteSnapshot(d)
        PROVE  SnapshotInv'
    <3>1. PICK r \in cur[d] : snapshots' = [snapshots EXCEPT ![r.point.sha] = "whole"]
      BY <2>6 DEF WriteSnapshot
    <3>2. r.point.sha \in Sha
      BY <2>0, <3>1 DEF Record, Point
    <3>3. /\ UNCHANGED <<front, mine, crashes>>
          /\ at' = [at EXCEPT ![d] = "loop"] /\ cur' = [cur EXCEPT ![d] = {}]
      BY <2>6 DEF WriteSnapshot
    <3>4. \A s \in Sha : snapshots[s] # "absent" => snapshots'[s] # "absent"
      BY <2>0, <3>1, <3>2
    <3>5. ASSUME NEW s \in Sha, s # r.point.sha, BeingWritten(s) PROVE BeingWritten(s)'
      <4>1. PICK e \in Driver : at[e] = "snapshot" /\ \E q \in cur[e] : q.point.sha = s
        BY <3>5 DEF BeingWritten
      <4>2. e # d
        BY <2>a, <3>1, <3>5, <4>1
      <4> QED
        BY <2>0, <3>3, <4>1, <4>2 DEF BeingWritten
    <3>6. Spoilt' \subseteq Spoilt
      BY <2>0, <3>1, <3>2, <3>5 DEF Spoilt
    <3>7. IsFiniteSet(Spoilt') /\ Cardinality(Spoilt') <= crashes'
      BY <2>a, <3>3, <3>6, NoMoreSpoilt
    <3>8. \A e \in Driver : cur'[e] \subseteq cur[e]
      BY <2>0, <3>3
    <3>9. (\A p \in front : p.sha \in Sha) /\ \A e \in Driver : \A p \in mine[e] : p.sha \in Sha
      BY <2>0 DEF Point
    <3> QED
      BY <2>a, <3>3, <3>4, <3>7, <3>8, <3>9 DEF SnapshotInv, FrontHasSnapshot
  <2>7. ASSUME NEW d \in Driver, Crash(d)
        PROVE  SnapshotInv'
    <3>1. /\ front' = front /\ snapshots' = snapshots /\ crashes' = crashes + 1
          /\ \A e \in Driver : cur'[e] \subseteq cur[e] /\ mine'[e] \subseteq mine[e]
          /\ \A e \in Driver \ {d} : at'[e] = at[e] /\ cur'[e] = cur[e]
      BY <2>0, <2>7 DEF Crash
    <3>2. PICK s : \A r \in cur[d] : r.point.sha = s
      BY <2>a
    <3>3. \A t : t # s /\ BeingWritten(t) => BeingWritten(t)'
      BY <3>1, <3>2 DEF BeingWritten
    <3>4. Spoilt' \subseteq Spoilt \cup {s}
      BY <3>1, <3>3 DEF Spoilt
    <3>5. /\ IsFiniteSet(Spoilt \cup {s})
          /\ Cardinality(Spoilt \cup {s}) = IF s \in Spoilt THEN Cardinality(Spoilt) ELSE Cardinality(Spoilt) + 1
      BY <2>a, FS_AddElement
    <3>6. IsFiniteSet(Spoilt') /\ Cardinality(Spoilt') <= Cardinality(Spoilt \cup {s})
      BY <3>4, <3>5, FS_Subset
    <3>7. Cardinality(Spoilt) \in Nat /\ Cardinality(Spoilt') \in Nat /\ crashes \in Nat
      BY <2>a, <3>6, FS_CardinalityType DEF TypeOK
    <3>8. Cardinality(Spoilt') <= crashes'
      BY <2>a, <3>1, <3>5, <3>6, <3>7
    <3> QED
      BY <2>a, <3>1, <3>6, <3>8 DEF SnapshotInv, FrontHasSnapshot
  <2>8. CASE UNCHANGED vars
    <3>1. /\ UNCHANGED <<front, snapshots, crashes, mine, cur, at>>
          /\ \A s : BeingWritten(s) => BeingWritten(s)'
      BY <2>8 DEF vars, disk, BeingWritten
    <3> QED
      BY <2>a, <2>s, <3>1 DEF SnapshotInv, FrontHasSnapshot
  <2> QED
    BY <2>1, <2>2, <2>3, <2>4, <2>5, <2>6, <2>7, <2>8 DEF Next
<1>3. SnapshotInv => FrontHasSnapshot
  BY DEF SnapshotInv
<1> QED
  BY <1>1, <1>2, <1>3, DriverTypeCorrect, PTL DEF Spec
----------------------------------------------------------------------------
\* What was journalled also has what is still in memory: the fronts, and the result each
\* driver has recorded and not yet accounted for.
JournalInv ==
    /\ JournalFirst
    /\ \A d \in Driver : \A p \in mine[d] : \E r \in Journalled : r.point = p /\ r.decision = "accepted"
    /\ \A d \in Driver : cur[d] \subseteq Journalled

\* What was journalled stays so, in HISTORY or among the lines it lost.
LEMMA JournalStays ==
    ASSUME TypeOK, [Next]_vars
    PROVE  Journalled \subseteq Journalled'
<1>0. history \in Seq(Record)
  BY DEF TypeOK
<1>1. ASSUME UNCHANGED <<history, lost>> PROVE Journalled \subseteq Journalled'
  BY <1>1 DEF Journalled
<1>2. ASSUME NEW d \in Driver, RecordResult(d) PROVE Journalled \subseteq Journalled'
  <2>1. PICK r : history' = Append(history, r)
    BY <1>2 DEF RecordResult
  <2>2. lost' = lost
    BY <1>2 DEF RecordResult
  <2>3. \A n \in DOMAIN history : n \in DOMAIN history' /\ history'[n] = history[n]
    BY <1>0, <2>1
  <2> QED
    BY <2>2, <2>3 DEF Journalled, Range
<1>3. ASSUME NEW d \in Driver, LoseLine(d) PROVE Journalled \subseteq Journalled'
  <2>1. ASSUME NEW n \in DOMAIN history, history' = RemoveAt(history, n), lost' = lost \cup {history[n]}
        PROVE  Journalled \subseteq Journalled'
    BY <1>0, <2>1, RemoveAtLeaves DEF Journalled
  <2> QED
    BY <1>1, <1>3, <2>1 DEF LoseLine
<1>4. ASSUME NEW d \in Driver,
             \/ Load(d) \/ Escalate(d) \/ AccountAccepted(d) \/ WriteSnapshot(d) \/ AccountOther(d)
             \/ Save(d) \/ WriteState(d) \/ Crash(d)
      PROVE  UNCHANGED <<history, lost>>
  BY <1>4 DEF Load, Escalate, AccountAccepted, WriteSnapshot, AccountOther, Save, WriteState, Crash,
              disk, journal
<1>5. CASE UNCHANGED vars
  BY <1>1, <1>5 DEF vars, disk, journal
<1> QED
  BY <1>1, <1>2, <1>3, <1>4, <1>5 DEF Next

\* A driver has one result in hand, and writes a snapshot of an accepted one.
InHand ==
    \A d \in Driver : /\ \A q, r \in cur[d] : q = r
                      /\ at[d] = "snapshot" => \A r \in cur[d] : r.decision = "accepted"

LEMMA OneInHand == Spec => []InHand
<1>1. Init => InHand
  BY DEF Init, InHand
<1>2. TypeOK /\ InHand /\ [Next]_vars => InHand'
  <2> SUFFICES ASSUME TypeOK, InHand, [Next]_vars
               PROVE  InHand'
    OBVIOUS
  <2>0. /\ cur \in [Driver -> SUBSET Record]
        /\ at \in [Driver -> {"idle", "loop", "append", "snapshot", "saved", "rendering"}]
    BY DEF TypeOK
  <2>1. ASSUME \A e \in Driver : cur'[e] \subseteq cur[e] /\ (at'[e] = "snapshot" => at[e] = "snapshot")
        PROVE  InHand'
    BY <2>1 DEF InHand
  <2>2. ASSUME NEW d \in Driver, RecordResult(d)
        PROVE  InHand'
    <3>1. PICK r : cur' = [cur EXCEPT ![d] = {r}]
      BY <2>2 DEF RecordResult
    <3>2. at' = [at EXCEPT ![d] = "append"]
      BY <2>2 DEF RecordResult
    <3> QED
      BY <2>0, <3>1, <3>2 DEF InHand
  <2>3. ASSUME NEW d \in Driver, AccountAccepted(d)
        PROVE  InHand'
    <3>1. PICK r \in cur[d] :
            /\ r.decision = "accepted"
            /\ \/ at' = [at EXCEPT ![d] = "snapshot"] /\ UNCHANGED cur
               \/ cur' = [cur EXCEPT ![d] = {}] /\ UNCHANGED at
      BY <2>3 DEF AccountAccepted
    <3> QED
      BY <2>0, <3>1 DEF InHand
  <2>4. ASSUME NEW d \in Driver,
               \/ Load(d) \/ LoseLine(d) \/ Escalate(d) \/ WriteSnapshot(d) \/ AccountOther(d)
               \/ Save(d) \/ WriteState(d) \/ Crash(d)
        PROVE  \A e \in Driver : cur'[e] \subseteq cur[e] /\ (at'[e] = "snapshot" => at[e] = "snapshot")
    BY <2>0, <2>4 DEF Load, LoseLine, Escalate, WriteSnapshot, AccountOther, Save, WriteState, Crash
  <2>5. CASE UNCHANGED vars
    BY <2>1, <2>5 DEF vars
  <2> QED
    BY <2>1, <2>2, <2>3, <2>4, <2>5 DEF Next
<1> QED
  BY <1>1, <1>2, DriverTypeCorrect, PTL DEF Spec

\* The driver appends a result to HISTORY before it acts on it: no file, after any
\* crash, speaks of a result that was not journalled, and what HISTORY has no longer is
\* what rotations of several drivers lost.
THEOREM DriverJournalsFirst == Spec => []JournalFirst
<1>1. Init => JournalInv
  BY DEF Init, JournalInv, JournalFirst
<1>2. TypeOK /\ InHand /\ JournalInv /\ [Next]_vars => JournalInv'
  <2> SUFFICES ASSUME TypeOK, InHand, JournalInv, [Next]_vars
               PROVE  JournalInv'
    OBVIOUS
  <2> USE DEF JournalInv, JournalFirst, disk
  <2>0. /\ mine \in [Driver -> SUBSET Point]
        /\ cur \in [Driver -> SUBSET Record]
        /\ todo \in [Driver -> SUBSET Sha]
        /\ snapshots \in [Sha -> {"absent", "cut", "whole"}]
    BY DEF TypeOK
  <2>j. Journalled \subseteq Journalled'
    BY JournalStays
  <2>1. ASSUME NEW d \in Driver, Load(d)
        PROVE  JournalInv'
    <3>1. UNCHANGED <<front, snapshots, pending, binned, cur>>
      BY <2>1 DEF Load
    <3>2. \A e \in Driver : mine'[e] = mine[e] \/ mine'[e] = front
      BY <2>0, <2>1 DEF Load
    <3> QED
      BY <2>j, <3>1, <3>2
  <2>2. ASSUME NEW d \in Driver, RecordResult(d)
        PROVE  JournalInv'
    <3>0. PICK s \in todo[d] : \E r \in Results(d, s) :
            cur' = [cur EXCEPT ![d] = {r}] /\ history' = Append(history, r)
      BY <2>2 DEF RecordResult
    <3>1. PICK r \in Results(d, s) :
            cur' = [cur EXCEPT ![d] = {r}] /\ history' = Append(history, r)
      BY <3>0
    <3>2. r \in Journalled'
      <4>1. history \in Seq(Record) /\ r \in Record
        BY <2>0, ResultsType DEF TypeOK
      <4>2. Len(history) + 1 \in DOMAIN history' /\ history'[Len(history) + 1] = r
        BY <3>1, <4>1
      <4> QED
        BY <4>2 DEF Journalled, Range
    <3>3. \A e \in Driver : \A x \in cur'[e] : x \in cur[e] \/ x = r
      BY <2>0, <3>1
    <3>4. UNCHANGED <<front, snapshots, pending, binned, mine>>
      BY <2>2 DEF RecordResult
    <3> QED
      BY <2>j, <3>2, <3>3, <3>4
  <2>3. ASSUME NEW d \in Driver, LoseLine(d)
        PROVE  JournalInv'
    <3>1. UNCHANGED <<front, snapshots, pending, binned, mine, cur>>
      BY <2>3 DEF LoseLine
    <3> QED
      BY <2>j, <3>1
  <2>4. ASSUME NEW d \in Driver, Escalate(d)
        PROVE  JournalInv'
    <3>1. \A s \in pending' : s \in pending \/ \E r \in cur[d] : r.point.sha = s /\ r.verdict = "suspicious_to_human"
      BY <2>4 DEF Escalate
    <3>2. UNCHANGED <<front, snapshots, binned, mine, cur>>
      BY <2>4 DEF Escalate
    <3> QED
      BY <2>j, <3>1, <3>2
  <2>5. ASSUME NEW d \in Driver, AccountAccepted(d)
        PROVE  JournalInv'
    <3>1. PICK r \in cur[d] :
            /\ r.decision = "accepted"
            /\ mine' = [mine EXCEPT ![d] = add(@, r.point)]
            /\ IF Admits(mine[d], r.point)
               THEN /\ snapshots' = [snapshots EXCEPT ![r.point.sha] = "cut"]
                    /\ at' = [at EXCEPT ![d] = "snapshot"]
                    /\ UNCHANGED cur
               ELSE cur' = [cur EXCEPT ![d] = {}] /\ UNCHANGED <<snapshots, at>>
      BY <2>5 DEF AccountAccepted
    <3>2. r.point \in Point /\ r \in Journalled'
      BY <2>0, <2>j, <3>1 DEF Record
    <3>3. \A q \in add(mine[d], r.point) : q \in mine[d] \/ q = r.point
      BY <2>0, <3>2, AddType
    <3>4. \A e \in Driver : \A q \in mine'[e] : q \in mine[e] \/ q = r.point
      BY <2>0, <3>1, <3>3
    <3>5. UNCHANGED <<front, pending, binned>> /\ \A e \in Driver : cur'[e] \subseteq cur[e]
      BY <2>0, <2>5, <3>1 DEF AccountAccepted
    <3>6. \A s \in Sha : snapshots'[s] # "absent" => snapshots[s] # "absent" \/ s = r.point.sha
      BY <2>0, <3>1
    <3> QED
      BY <2>j, <3>1, <3>2, <3>4, <3>5, <3>6
  <2>6. ASSUME NEW d \in Driver, WriteSnapshot(d)
        PROVE  JournalInv'
    <3>1. PICK r \in cur[d] : snapshots' = [snapshots EXCEPT ![r.point.sha] = "whole"]
      BY <2>6 DEF WriteSnapshot
    <3>2. r \in Journalled'
      BY <2>j, <3>1
    <3>w. r.decision = "accepted"
      BY <2>6, <3>1 DEF WriteSnapshot, InHand
    <3>3. UNCHANGED <<front, pending, binned, mine>> /\ \A e \in Driver : cur'[e] \subseteq cur[e]
      BY <2>0, <2>6 DEF WriteSnapshot
    <3>4. \A s \in Sha : snapshots'[s] # "absent" => snapshots[s] # "absent" \/ s = r.point.sha
      BY <2>0, <3>1
    <3> QED
      BY <2>j, <3>2, <3>w, <3>3, <3>4
  <2>7. ASSUME NEW d \in Driver, AccountOther(d)
        PROVE  JournalInv'
    <3>1. PICK r \in cur[d] : r.decision # "accepted" /\ binned' \in {binned, binned \cup {r.point.sha}}
      BY <2>7 DEF AccountOther
    <3>2. r \in Journalled'
      BY <2>j, <3>1
    <3>3. UNCHANGED <<front, snapshots, pending, mine>> /\ \A e \in Driver : cur'[e] \subseteq cur[e]
      BY <2>0, <2>7 DEF AccountOther
    <3> QED
      BY <2>j, <3>1, <3>2, <3>3
  <2>8. ASSUME NEW d \in Driver, Save(d) \/ WriteState(d)
        PROVE  JournalInv'
    <3>1. /\ UNCHANGED <<snapshots, pending, binned, cur>> /\ front' \in {front, mine[d]}
          /\ \A e \in Driver : mine'[e] \subseteq mine[e]
      BY <2>0, <2>8 DEF Save, WriteState
    <3> QED
      BY <2>j, <3>1
  <2>9. ASSUME NEW d \in Driver, Crash(d)
        PROVE  JournalInv'
    <3>1. /\ UNCHANGED <<front, snapshots, pending, binned>>
          /\ \A e \in Driver : cur'[e] \subseteq cur[e] /\ mine'[e] \subseteq mine[e]
      BY <2>0, <2>9 DEF Crash
    <3> QED
      BY <2>j, <3>1
  <2>10. CASE UNCHANGED vars
    <3>1. UNCHANGED <<front, snapshots, pending, binned, mine, cur>>
      BY <2>10 DEF vars
    <3> QED
      BY <2>j, <3>1
  <2> QED
    BY <2>1, <2>2, <2>3, <2>4, <2>5, <2>6, <2>7, <2>8, <2>9, <2>10 DEF Next
<1>3. JournalInv => JournalFirst
  BY DEF JournalInv
<1> QED
  BY <1>1, <1>2, <1>3, DriverTypeCorrect, OneInHand, PTL DEF Spec
----------------------------------------------------------------------------
\* A driver between load and save covers what it read: needed because the file is
\* replaced by its memory.
CoverInv ==
    \A d \in Driver : at[d] \in {"loop", "append", "snapshot"} => \A p \in base[d] : Covers(mine[d], p)

\* A save of PARETO.json never loses a point of the file it replaces unless to one at
\* least as good, on any quarter and after any crash, as long as nobody else saved
\* since its driver read the file.
THEOREM DriverOnlyImproves == Spec => FrontOnlyImproves
<1>1. Init => CoverInv
  BY DEF Init, CoverInv
<1>2. TypeOK /\ CoverInv /\ [Next]_vars => CoverInv'
  <2> SUFFICES ASSUME TypeOK, CoverInv, [Next]_vars,
                      NEW e \in Driver, at'[e] \in {"loop", "append", "snapshot"}, NEW p \in base'[e]
               PROVE  Covers(mine'[e], p)
    BY DEF CoverInv, Covers
  <2> USE DEF disk
  <2>0. /\ front \subseteq Point /\ mine \in [Driver -> SUBSET Point]
        /\ base \in [Driver -> SUBSET Point]
        /\ at \in [Driver -> {"idle", "loop", "append", "snapshot", "saved", "rendering"}]
    BY DEF TypeOK
  <2>u. ASSUME at[e] \in {"loop", "append", "snapshot"}, base'[e] = base[e], mine'[e] = mine[e]
        PROVE  Covers(mine'[e], p)
    BY <2>u DEF CoverInv
  <2>1. ASSUME NEW d \in Driver, Load(d)
        PROVE  Covers(mine'[e], p)
    <3>1. CASE e = d
      <4>1. mine'[e] = front /\ base'[e] = front
        BY <2>0, <2>1, <3>1 DEF Load
      <4> QED
        BY <2>0, <4>1, AtLeastReflexive DEF Covers
    <3>2. CASE e # d
      BY <2>0, <2>1, <2>u, <3>2 DEF Load
    <3> QED
      BY <3>1, <3>2
  <2>2. ASSUME NEW d \in Driver,
               RecordResult(d) \/ LoseLine(d) \/ Escalate(d) \/ WriteSnapshot(d) \/ AccountOther(d)
        PROVE  Covers(mine'[e], p)
    <3>1. at[e] \in {"loop", "append", "snapshot"}
      BY <2>0, <2>2 DEF RecordResult, LoseLine, Escalate, WriteSnapshot, AccountOther
    <3> QED
      BY <2>2, <2>u, <3>1, FrontsRest
  <2>3. ASSUME NEW d \in Driver, AccountAccepted(d)
        PROVE  Covers(mine'[e], p)
    <3>1. PICK r \in cur[d] : mine' = [mine EXCEPT ![d] = add(@, r.point)]
      BY <2>3 DEF AccountAccepted
    <3>2. r.point \in Point
      BY <3>1 DEF TypeOK, Record
    <3>3. base' = base /\ at[d] = "loop" /\ \A o \in Driver \ {d} : at'[o] = at[o]
      BY <2>0, <2>3 DEF AccountAccepted
    <3>4. CASE e = d
      <4>1. mine'[e] = add(mine[e], r.point)
        BY <2>0, <3>1, <3>4
      <4>2. p \in Point /\ Covers(mine[e], p)
        BY <2>0, <3>3, <3>4 DEF CoverInv
      <4> QED
        BY <2>0, <3>2, <4>1, <4>2, AddKeepsCover
    <3>5. CASE e # d
      BY <2>0, <2>u, <3>1, <3>3, <3>5
    <3> QED
      BY <3>4, <3>5
  <2>4. ASSUME NEW d \in Driver, Save(d) \/ WriteState(d) \/ Crash(d)
        PROVE  Covers(mine'[e], p)
    <3>1. e # d /\ at[e] = at'[e] /\ base'[e] = base[e] /\ mine'[e] = mine[e]
      BY <2>0, <2>4 DEF Save, WriteState, Crash
    <3> QED
      BY <2>u, <3>1
  <2>5. CASE UNCHANGED vars
    BY <2>5, <2>u DEF vars
  <2> QED
    BY <2>1, <2>2, <2>3, <2>4, <2>5 DEF Next
<1>3. TypeOK /\ CoverInv /\ [Next]_vars =>
        [\A d \in Driver : (at[d] = "loop" /\ at'[d] = "saved" /\ base[d] = front)
             => \A p \in front : Covers(front', p)]_vars
  <2> SUFFICES ASSUME TypeOK, CoverInv, Next,
                      NEW d \in Driver, at[d] = "loop", at'[d] = "saved", base[d] = front
               PROVE  \A p \in front : Covers(front', p)
    OBVIOUS
  <2>0. at \in [Driver -> {"idle", "loop", "append", "snapshot", "saved", "rendering"}]
    BY DEF TypeOK
  <2>1. \A e \in Driver : ~(\/ Load(e) \/ RecordResult(e) \/ LoseLine(e) \/ Escalate(e)
                            \/ AccountAccepted(e) \/ WriteSnapshot(e) \/ AccountOther(e)
                            \/ WriteState(e) \/ Crash(e))
    BY <2>0 DEF Load, RecordResult, LoseLine, Escalate, AccountAccepted, WriteSnapshot, AccountOther,
                WriteState, Crash
  <2>2. PICK e \in Driver : Save(e)
    BY <2>1 DEF Next
  <2>3. e = d
    BY <2>0, <2>2 DEF Save
  <2> QED
    BY <2>2, <2>3 DEF Save, CoverInv
<1> QED
  BY <1>1, <1>2, <1>3, DriverTypeCorrect, PTL DEF Spec, FrontOnlyImproves
----------------------------------------------------------------------------
\* Replay offers the accepted records of h in turn; f is the front after each.
Offered(h, f) ==
    /\ f \in [0 .. Len(h) -> SUBSET Point]
    /\ f[0] = {}
    /\ \A n \in 1 .. Len(h) :
          f[n] = IF h[n].decision = "accepted" THEN add(f[n - 1], h[n].point) ELSE f[n - 1]

LEMMA RebuiltIsOffered ==
    ASSUME history \in Seq(Record)
    PROVE  \E f : Offered(history, f) /\ Rebuilt = f[Len(history)]
<1> DEFINE N == Len(history)
           Step(n, points) == IF history[n].decision = "accepted" THEN add(points, history[n].point) ELSE points
           h == [n \in 1 .. N |-> [points \in SUBSET Point |-> Step(n, points)]]
<1>1. N \in Nat /\ \A n \in 1 .. N : history[n] \in Record /\ history[n].point \in Point
  <2>1. \A n \in 1 .. N : history[n] \in Record
    BY ElementOfSeq
  <2> QED BY <2>1, LenProperties DEF Record
<1> HIDE DEF N
<1>2. ASSUME NEW n \in 1 .. N, NEW points \in SUBSET Point
      PROVE  h[n][points] = Step(n, points) /\ Step(n, points) \in SUBSET Point
  BY <1>1, AddType
<1>3. PICK f \in [0 .. N -> SUBSET Point] : Iterates(f, N, {}, h)
  <2> DEFINE P == SUBSET Point
             first == {}
  <2>1. first \in P /\ N \in Nat /\ \A n \in 1 .. N : \A points \in P : h[n][points] \in P
    BY <1>1, <1>2
  <2> HIDE DEF h, Step, P, first
  <2>2. \E g \in [0 .. N -> P] : Iterates(g, N, first, h)
    BY <2>1, Recursion
  <2> QED BY <2>2 DEF P, first
<1>4. f[0] = {} /\ \A n \in 1 .. N : f[n] = Step(n, f[n - 1])
  <2>1. \A n \in 1 .. N : n - 1 \in 0 .. N
    BY <1>1
  <2> HIDE DEF h, Step
  <2> QED BY <1>2, <1>3, <2>1 DEF Iterates
<1>5. f = [n \in 0 .. N |-> IF n = 0 THEN {}
              ELSE IF history[n].decision = "accepted" THEN add(f[n - 1], history[n].point) ELSE f[n - 1]]
  <2> SUFFICES ASSUME NEW n \in 0 .. N, n # 0
               PROVE  f[n] = IF history[n].decision = "accepted" THEN add(f[n - 1], history[n].point) ELSE f[n - 1]
    BY <1>4
  <2>1. n \in 1 .. N
    BY <1>1
  <2> QED BY <1>4, <2>1
<1> DEFINE g == CHOOSE x : x = [n \in 0 .. N |-> IF n = 0 THEN {}
              ELSE IF history[n].decision = "accepted" THEN add(x[n - 1], history[n].point) ELSE x[n - 1]]
<1>6. g = [n \in 0 .. N |-> IF n = 0 THEN {}
              ELSE IF history[n].decision = "accepted" THEN add(g[n - 1], history[n].point) ELSE g[n - 1]]
  BY <1>5
<1>7. Rebuilt = g[N]
  BY DEF Rebuilt, N
<1> HIDE DEF g
<1>8. g[0] = {} /\ \A n \in 1 .. N : g[n] = Step(n, g[n - 1])
  <2>0. g[0] = {}
    BY <1>1, <1>6
  <2> SUFFICES ASSUME NEW n \in 1 .. N PROVE g[n] = Step(n, g[n - 1])
    BY <2>0
  <2>1. n \in 0 .. N /\ n # 0
    BY <1>1
  <2> QED BY <1>6, <2>1
<1>9. g \in [0 .. N -> SUBSET Point]
  <2> DEFINE A == {n \in 0 .. N : g[n] \in SUBSET Point}
  <2>1. 0 \in A
    BY <1>1, <1>8
  <2>2. ASSUME NEW n \in 1 .. N, n - 1 \in A PROVE n \in A
    <3>1. Step(n, g[n - 1]) \in SUBSET Point
      BY <1>2, <2>2
    <3> QED BY <1>1, <1>8, <3>1
  <2>3. 0 .. N \subseteq A
    <3> HIDE DEF A
    <3> QED BY <1>1, <2>1, <2>2, IntervalInduction
  <2> QED BY <1>6, <2>3
<1> QED BY <1>7, <1>8, <1>9 DEF Offered, N

\* Whatever order they come in, the front of the replay has the equal or the better of
\* a result of the same hash as each accepted one: of the one that came first.
LEMMA ReplayCovers ==
    ASSUME NEW h \in Seq(Record), NEW f, Offered(h, f),
           NEW m \in 1 .. Len(h), h[m].decision = "accepted"
    PROVE  \E k \in 1 .. Len(h) :
               /\ h[k].decision = "accepted" /\ h[k].point.sha = h[m].point.sha
               /\ Covers(f[Len(h)], h[k].point)
<1> DEFINE N == Len(h)
           Of(q) == \E k \in 1 .. N : q = h[k].point /\ h[k].decision = "accepted"
           Stands(k, n) == /\ h[k].decision = "accepted" /\ h[k].point.sha = h[m].point.sha
                           /\ Covers(f[n], h[k].point)
           A == {n \in 0 .. N : (\A q \in f[n] : Of(q)) /\ (n >= m => \E k \in 1 .. N : Stands(k, n))}
<1>1. N \in Nat /\ \A n \in 1 .. N : h[n].point \in Point
  <2>1. \A n \in 1 .. N : h[n] \in Record
    BY ElementOfSeq
  <2> QED BY <2>1, LenProperties DEF Record
<1> HIDE DEF N
<1>2. m \in 1 .. N /\ f[0] = {} /\ 0 \in A
  BY <1>1 DEF Offered, N
<1>3. ASSUME NEW n \in 1 .. N, n - 1 \in A PROVE n \in A
  <2> DEFINE old == f[n - 1]  p == h[n].point
  <2>1. n - 1 \in 0 .. N /\ n \in 0 .. N
    BY <1>1
  <2>2. old \in SUBSET Point /\ p \in Point
    BY <1>1, <2>1 DEF Offered, N
  <2>3. f[n] = IF h[n].decision = "accepted" THEN add(old, p) ELSE old
    BY DEF Offered, N
  <2>4. (\A q \in old : Of(q)) /\ (n - 1 >= m => \E k \in 1 .. N : Stands(k, n - 1))
    BY <1>3
  <2>5. \A q \in f[n] : Of(q)
    <3>1. CASE h[n].decision = "accepted"
      <4>1. Of(p)
        BY <3>1
      <4> HIDE DEF Of, p, old
      <4> QED BY <2>2, <2>3, <2>4, <3>1, <4>1, AddType
    <3>2. CASE h[n].decision # "accepted"
      BY <2>3, <2>4, <3>2
    <3> QED BY <3>1, <3>2
  <2>6. ASSUME n >= m PROVE \E k \in 1 .. N : Stands(k, n)
    <3>1. CASE n = m
      <4>1. f[n] = add(old, p) /\ h[m].point = p
        BY <2>3, <3>1
      <4>2. CASE Known(old, p)
        <5>1. PICK q \in old : q.sha = p.sha
          BY <4>2 DEF Known
        <5>2. PICK k \in 1 .. N : q = h[k].point /\ h[k].decision = "accepted"
          BY <2>4, <5>1
        <5>3. f[n] = old
          BY <4>1, <4>2 DEF add, Admits
        <5>4. Covers(f[n], q)
          <6> HIDE DEF old
          <6> QED BY <2>2, <5>1, <5>3, AtLeastReflexive DEF Covers
        <5> QED BY <4>1, <5>1, <5>2, <5>4
      <4>3. CASE ~Known(old, p)
        <5>1. Covers(f[n], p)
          <6> HIDE DEF old, p
          <6>1. CASE Admits(old, p)
            <7>1. p \in f[n]
              BY <4>1, <6>1 DEF add
            <7> QED BY <2>2, <7>1, AtLeastReflexive DEF Covers
          <6>2. CASE ~Admits(old, p)
            <7>1. PICK q \in old : dominates(q, p)
              BY <4>3, <6>2 DEF Admits, Survivors
            <7>2. f[n] = old
              BY <4>1, <6>2 DEF add
            <7> QED BY <7>1, <7>2 DEF Covers, dominates
          <6> QED BY <6>1, <6>2
        <5> QED BY <1>2, <4>1, <5>1
      <4> QED BY <4>2, <4>3
    <3>2. CASE n # m
      <4>1. PICK k \in 1 .. N : Stands(k, n - 1)
        BY <1>1, <1>2, <2>4, <2>6, <3>2
      <4>2. Covers(old, h[k].point) /\ h[k].point \in Point
        BY <1>1, <4>1
      <4>3. Covers(f[n], h[k].point)
        <5> HIDE DEF old, p
        <5> QED BY <2>2, <2>3, <4>2, AddKeepsCover
      <4> QED BY <4>1, <4>3
    <3> QED BY <3>1, <3>2
  <2> QED BY <2>1, <2>5, <2>6
<1>4. N \in A
  <2>1. 0 .. N \subseteq A
    <3> HIDE DEF A
    <3> QED BY <1>1, <1>2, <1>3, IntervalInduction
  <2> HIDE DEF A
  <2> QED BY <1>1, <2>1
<1>5. N >= m
  BY <1>1, <1>2
<1> QED BY <1>4, <1>5 DEF N

\* Whatever crashed or raced and on however many quarters, what HISTORY still has
\* rebuilds PARETO.json as far as a hash is one experiment: each member whose line is
\* left has the equal or better of a result of its hash on the front that HISTORY gives.
THEOREM HistoryRebuildsFront == Spec => []ReplayRebuilds
<1>1. TypeOK /\ JournalFirst => ReplayRebuilds
  <2> SUFFICES ASSUME TypeOK, JournalFirst, NEW p \in front,
                      ~ \E r \in lost : r.point = p /\ r.decision = "accepted"
               PROVE  \E n \in DOMAIN history :
                          /\ history[n].decision = "accepted" /\ history[n].point.sha = p.sha
                          /\ Covers(Rebuilt, history[n].point)
    BY DEF ReplayRebuilds
  <2>1. history \in Seq(Record) /\ DOMAIN history = 1 .. Len(history)
    BY LenProperties DEF TypeOK
  <2>2. PICK m \in 1 .. Len(history) : history[m].point = p /\ history[m].decision = "accepted"
    <3>1. PICK r \in Journalled : r.point = p /\ r.decision = "accepted"
      BY DEF JournalFirst
    <3> QED BY <2>1, <3>1 DEF Journalled, Range
  <2>3. PICK f : Offered(history, f) /\ Rebuilt = f[Len(history)]
    BY <2>1, RebuiltIsOffered
  <2> QED BY <2>1, <2>2, <2>3, ReplayCovers
<1> QED BY <1>1, DriverTypeCorrect, DriverJournalsFirst, PTL DEF Spec
----------------------------------------------------------------------------
\* The Checker.

\* The keys of a payload that are not the Maker's, and where they sort: all of them
\* before proposal_id, the one key of the Maker that is never stripped.
Shown == ResultKeys \cup {"candidate_id"}

LEMMA ShownFirst ==
    /\ Rank("proposal_id") = 17
    /\ \A k \in Shown : Rank(k) \in 1 .. 16
<1>1. DOMAIN KeyOrder = 1 .. 19
  BY DEF KeyOrder
<1>2. ASSUME NEW i \in 1 .. 19, KeyOrder[i] = "proposal_id" PROVE i = 17
  BY <1>2 DEF KeyOrder
<1>3. ASSUME NEW k, NEW i \in 1 .. 16, KeyOrder[i] = k, NEW j \in 1 .. 19, KeyOrder[j] = k
      PROVE  j \in 1 .. 16
  BY <1>3 DEF KeyOrder
<1>4. KeyOrder[17] = "proposal_id" /\ 17 \in 1 .. 19
  BY DEF KeyOrder
<1>5. Rank("proposal_id") = 17
  <2> HIDE DEF KeyOrder
  <2> QED BY <1>1, <1>2, <1>4 DEF Rank
<1>6. ASSUME NEW k \in Shown PROVE Rank(k) \in 1 .. 16
  <2>1. \E i \in 1 .. 16 : KeyOrder[i] = k
    <3>1. /\ KeyOrder[1] = "candidate_id" /\ KeyOrder[4] = "decision"
          /\ KeyOrder[6] = "elapsed_seconds" /\ KeyOrder[9] = "fitness"
          /\ KeyOrder[13] = "metrics"
      BY DEF KeyOrder
    <3>2. {1, 4, 6, 9, 13} \subseteq 1 .. 16
      OBVIOUS
    <3> QED BY <1>6, <3>1, <3>2 DEF Shown, ResultKeys
  <2>2. PICK i \in 1 .. 16 : KeyOrder[i] = k
    BY <2>1
  <2>3. i \in 1 .. 19
    OBVIOUS
  <2>4. Rank(k) \in 1 .. 19 /\ KeyOrder[Rank(k)] = k
    BY <1>1, <2>2, <2>3 DEF Rank
  <2> QED BY <1>3, <2>2, <2>4
<1> QED BY <1>5, <1>6

\* The five of them fill the prompt's list of names, whether proposal_id is there or not.
LEMMA ShownFill == FirstFive(Shown \cup {"proposal_id"}) = FirstFive(Shown)
<1> DEFINE both == Shown \cup {"proposal_id"}
           upTo(keys, k) == {j \in keys : Rank(j) <= Rank(k)}
<1>1. \A k \in Shown : upTo(both, k) = upTo(Shown, k)
  BY ShownFirst
<1>2. "proposal_id" \notin Shown
  BY DEF Shown, ResultKeys
<1>3. upTo(both, "proposal_id") = both
  BY ShownFirst
<1>4. Cardinality(both) = 6
  <2> DEFINE a == {"metrics"}
             b == {"metrics", "fitness"}
             c == {"metrics", "fitness", "decision"}
             d == {"metrics", "fitness", "decision", "elapsed_seconds"}
             e == {"metrics", "fitness", "decision", "elapsed_seconds", "candidate_id"}
  <2>1. IsFiniteSet(a) /\ Cardinality(a) = 1
    BY FS_Singleton
  <2>2. IsFiniteSet(b) /\ Cardinality(b) = 2
    <3>1. b = a \cup {"fitness"} /\ "fitness" \notin a
      OBVIOUS
    <3> QED BY <2>1, <3>1, FS_AddElement
  <2>3. IsFiniteSet(c) /\ Cardinality(c) = 3
    <3>1. c = b \cup {"decision"} /\ "decision" \notin b
      OBVIOUS
    <3> QED BY <2>2, <3>1, FS_AddElement
  <2>4. IsFiniteSet(d) /\ Cardinality(d) = 4
    <3>1. d = c \cup {"elapsed_seconds"} /\ "elapsed_seconds" \notin c
      OBVIOUS
    <3> QED BY <2>3, <3>1, FS_AddElement
  <2>5. IsFiniteSet(e) /\ Cardinality(e) = 5
    <3>1. e = d \cup {"candidate_id"} /\ "candidate_id" \notin d
      OBVIOUS
    <3> QED BY <2>4, <3>1, FS_AddElement
  <2>6. both = e \cup {"proposal_id"} /\ "proposal_id" \notin e
    BY DEF Shown, ResultKeys
  <2> QED BY <2>5, <2>6, FS_AddElement
<1>5. FirstFive(both) = {k \in both : Cardinality(upTo(both, k)) <= 5}
      /\ FirstFive(Shown) = {k \in Shown : Cardinality(upTo(Shown, k)) <= 5}
  BY DEF FirstFive
<1>6. "proposal_id" \notin FirstFive(both)
  BY <1>3, <1>4, <1>5
<1> HIDE DEF upTo
<1> QED BY <1>1, <1>5, <1>6

\* What strict isolation leaves of any payload.
LEMMA StrictLeaves ==
    ASSUME NEW extra \in SUBSET MakerKeys
    PROVE  strip_maker_artifacts(ResultKeys \cup extra \cup {"candidate_id"}, "strict")
               \in {Shown, Shown \cup {"proposal_id"}}
<1> DEFINE keys == ResultKeys \cup extra \cup {"candidate_id"}
           left == strip_maker_artifacts(keys, "strict")
           gone == BaseStripped \cup StrictExtra
<1>1. left = keys \ gone
  BY DEF strip_maker_artifacts, STRIPPED_FIELDS_V1
<1>2. Shown \cap gone = {}
  BY DEF Shown, ResultKeys, BaseStripped, StrictExtra
<1>3. \A k \in MakerKeys : k \in gone \/ k = "proposal_id"
  <2>1. Range(KeyOrder) = {KeyOrder[i] : i \in DOMAIN KeyOrder}
    BY DEF Range
  <2>2. DOMAIN KeyOrder = 1 .. 19
    BY DEF KeyOrder
  <2>3. \A i \in 1 .. 19 : KeyOrder[i] \in gone \cup Shown \cup {"proposal_id"}
    BY DEF KeyOrder, BaseStripped, StrictExtra, Shown, ResultKeys
  <2> QED BY <2>1, <2>2, <2>3 DEF MakerKeys, Shown
<1>4. Shown \subseteq left /\ left \subseteq Shown \cup {"proposal_id"}
  BY <1>1, <1>2, <1>3 DEF Shown
<1> QED BY <1>4

\* evaluate_candidate: whatever the Maker wrote into the payload, under strict isolation
\* the LLM is shown the same prompt; the identifier that is not stripped sorts behind
\* the five names the prompt has room for.
THEOREM CheckerIsBlind == CheckerSpec => []CheckerBlind
<1> DEFINE Inv == ckCase.extra \in ExtraKeys /\ CheckerBlind
<1>1. CheckerInit => Inv
  BY DEF CheckerInit, CheckerBlind
<1>2. Inv /\ [CheckerNext]_checkerVars => Inv'
  <2> SUFFICES ASSUME Inv, [CheckerNext]_checkerVars PROVE Inv'
    OBVIOUS
  <2>1. ckCase' = ckCase
    BY DEF CheckerNext, EvaluateAlone, AskChecker, FuseVerdicts, checkerVars
  <2>2. CASE EvaluateAlone \/ FuseVerdicts
    BY <2>1, <2>2 DEF EvaluateAlone, FuseVerdicts, CheckerBlind
  <2>3. CASE AskChecker
    <3> SUFFICES ASSUME ckCase.level = "strict"
                 PROVE  ckPrompt' = _build_prompt(ckCase.metrics, ResultKeys \cup {"candidate_id"})
      BY <2>1 DEF CheckerBlind
    <3> DEFINE left == strip_maker_artifacts(ResultKeys \cup ckCase.extra \cup {"candidate_id"}, "strict")
    <3>1. ckPrompt' = _build_prompt(ckCase.metrics, left)
      BY <2>3 DEF AskChecker
    <3>2. left \in {Shown, Shown \cup {"proposal_id"}}
      BY CheckerAssumption, StrictLeaves
    <3>3. FirstFive(left) = FirstFive(Shown)
      BY <3>2, ShownFill
    <3> QED BY <3>1, <3>3 DEF _build_prompt, Shown
  <2>4. CASE UNCHANGED checkerVars
    BY <2>4 DEF checkerVars, CheckerBlind
  <2> QED BY <2>2, <2>3, <2>4 DEF CheckerNext
<1> QED BY <1>1, <1>2, PTL DEF CheckerSpec

\* evaluate_candidate: no malformed or failed answer, no calibration curve, whatever its
\* sign, and no doubt of a heuristic turns into an accepted candidate.
THEOREM AcceptedIsClean == CheckerSpec => []AcceptedMeansClean
<1>1. CheckerInit => AcceptedMeansClean
  BY DEF CheckerInit, AcceptedMeansClean
<1>2. AcceptedMeansClean /\ [CheckerNext]_checkerVars => AcceptedMeansClean'
  <2> SUFFICES ASSUME AcceptedMeansClean, [CheckerNext]_checkerVars PROVE AcceptedMeansClean'
    OBVIOUS
  <2>1. CASE EvaluateAlone
    <3> DEFINE d == check_candidate(ckCase.decision, Flagged(ckCase.metrics))
    <3>1. d # "accepted"
      BY DEF check_candidate
    <3>2. ckResult' = [ckResult EXCEPT !.decision = d]
      BY <2>1 DEF EvaluateAlone
    <3> HIDE DEF d
    <3> QED BY <2>1, <3>1, <3>2 DEF AcceptedMeansClean
  <2>2. CASE AskChecker
    BY <2>2 DEF AskChecker, AcceptedMeansClean
  <2>3. CASE FuseVerdicts
    <3> SUFFICES ASSUME ckResult'.decision = "accepted"
                 PROVE  /\ ckCase.decision = "accepted" /\ ~Flagged(ckCase.metrics)
                        /\ ckAnswer'.shape /\ ckAnswer'.accept
                        /\ ckAnswer'.confidence >= ckCase.minConfidence
                        /\ Calibrated(ckCase.params, RawScore(ckAnswer')) >= rejection_threshold
      BY <2>3 DEF FuseVerdicts, AcceptedMeansClean
    <3> DEFINE m4 == check_candidate(ckCase.decision, Flagged(ckCase.metrics))
               v == verify(ckCase, ckAnswer')
    <3>1. PICK gap : ckResult'.decision = resolve(m4, v.accept, gap)
      BY <2>3 DEF FuseVerdicts, Merge
    <3>2. m4 = "promising" /\ v.accept
      BY <3>1 DEF resolve
    <3>3. ckCase.decision = "accepted" /\ ~Flagged(ckCase.metrics)
      BY <3>2 DEF check_candidate
    <3>4. _parse_verdict(ckAnswer')
      BY <3>2 DEF verify, _low_confidence_reject
    <3>5. /\ ckAnswer'.accept /\ ckAnswer'.confidence >= ckCase.minConfidence
          /\ Calibrated(ckCase.params, RawScore(ckAnswer')) >= rejection_threshold
      BY <3>2, <3>4 DEF verify
    <3> QED BY <3>3, <3>4, <3>5 DEF _parse_verdict
  <2>4. CASE UNCHANGED checkerVars
    BY <2>4 DEF checkerVars, AcceptedMeansClean
  <2> QED BY <2>1, <2>2, <2>3, <2>4 DEF CheckerNext
<1> QED BY <1>1, <1>2, PTL DEF CheckerSpec

----------------------------------------------------------------------------
\* The out-of-sample guards.

\* A quarter's metrics are those of a run, or of one without a sharpe.
Measured == [quarter : Nat, sharpe : Int, trades : Nat]

LEMMA GuardsAgree ==
    ASSUME NEW results, \A k \in DOMAIN results : results[k] \in Measured,
           aggregate(results).passed
    PROVE  aggregate(results).held /\ ~aggregate(results).collapse
<1> DEFINE held == {k \in DOMAIN results : results[k].quarter = Quarters}
           oos == results[CHOOSE k \in held : TRUE]
           rest == SelectSeq(results, LAMBDA m : m.quarter # Quarters)
<1>1. held # {} /\ oos_passed(rest, oos)
  BY DEF aggregate
<1>2. oos \in Measured
  BY <1>1
<1>3. oos.sharpe \in Int /\ oos.trades \in Nat
  BY <1>2 DEF Measured
<1>4. /\ oos.trades >= min_oos_trade_count /\ oos.sharpe # NoSharpe /\ oos.sharpe >= 0
  BY <1>1 DEF oos_passed
<1>5. ~oos_collapse(oos)
  BY <1>3, <1>4 DEF oos_collapse, min_oos_trade_count
<1> QED BY <1>1, <1>5 DEF aggregate

\* walk_forward: a candidate whose held-out quarter the validator passes was run on that
\* quarter and is not flagged as collapsed by the aggregate, whichever quarters failed.
THEOREM GuardsNeverDisagree == RobustSpec => []ValidatorsAgree
<1> DEFINE Inv == wfDone \in Nat /\ wfResults \in Seq(Measured) /\ ValidatorsAgree
<1>1. RobustInit => Inv
  BY DEF RobustInit, ValidatorsAgree
<1>2. Inv /\ [RobustNext]_robustVars => Inv'
  <2> SUFFICES ASSUME Inv, RobustNext PROVE Inv'
    BY DEF robustVars, ValidatorsAgree
  <2>1. wfDone' \in Nat
    BY DEF RobustNext, RunQuarter
  <2>2. wfResults' \in Seq(Measured)
    <3>1. CASE wfResults' = wfResults
      BY <3>1
    <3>2. CASE \E s \in Sharpes \cup {NoSharpe}, t \in TradeCounts :
                 wfResults' = Append(wfResults, [quarter |-> wfDone + 1, sharpe |-> s, trades |-> t])
      <4>1. PICK s \in Sharpes \cup {NoSharpe}, t \in TradeCounts :
                 wfResults' = Append(wfResults, [quarter |-> wfDone + 1, sharpe |-> s, trades |-> t])
        BY <3>2
      <4>2. [quarter |-> wfDone + 1, sharpe |-> s, trades |-> t] \in Measured
        BY RobustnessAssumption DEF Measured, NoSharpe
      <4> QED BY <4>1, <4>2, AppendProperties
    <3> QED BY <3>1, <3>2 DEF RobustNext, RunQuarter
  <2>3. \A k \in DOMAIN wfResults' : wfResults'[k] \in Measured
    BY <2>2, ElementOfSeq, LenProperties
  <2>4. CASE wfAgg' = wfAgg
    BY <2>1, <2>2, <2>4 DEF ValidatorsAgree
  <2>5. CASE wfAgg' = aggregate(wfResults')
    BY <2>1, <2>2, <2>3, <2>5, GuardsAgree DEF ValidatorsAgree
  <2> QED BY <2>4, <2>5 DEF RobustNext, RunQuarter
<1> QED BY <1>1, <1>2, PTL DEF RobustSpec
----------------------------------------------------------------------------
\* The ticks of the week.
Ticks == 0 .. 2015

\* A tick by day, hour and position in the hour.
At(t, d, h, m) == d \in Nat /\ h \in 0 .. 23 /\ m \in 0 .. 11 /\ t = 288 * d + 12 * h + m

LEMMA Clock ==
    ASSUME NEW t \in Nat
    PROVE  \E d \in Nat, h \in 0 .. 23, m \in 0 .. 11 : At(t, d, h, m)
<1> DEFINE d == t \div 288
           r == t % 288
           h == r \div 12
           m == r % 12
<1>1. d \in Nat /\ r \in 0 .. 287 /\ t = 288 * d + r
  OBVIOUS
<1> HIDE DEF d, r
<1>2. h \in 0 .. 23 /\ m \in 0 .. 11 /\ r = 12 * h + m
  BY <1>1
<1> HIDE DEF h, m
<1>3. t = 288 * d + 12 * h + m
  BY <1>1, <1>2
<1> QED BY <1>1, <1>2, <1>3 DEF At

LEMMA ActiveAt ==
    ASSUME NEW d, NEW h, NEW m, NEW t, At(t, d, h, m)
    PROVE  /\ Active(t) <=> (h >= 7 /\ h < 23 /\ ~(skipWeekend /\ d % 7 >= 5))
           /\ Hour * (t \div Hour) = t - m
           /\ t % Week = 288 * (d % 7) + 12 * h + m
<1>0. d \in Nat /\ h \in 0 .. 23 /\ m \in 0 .. 11 /\ t = 288 * d + 12 * h + m
  BY DEF At
<1>1. t \div 12 = 24 * d + h
  BY <1>0
<1>2. HourOf(t) = h
  BY <1>0, <1>1 DEF HourOf, Hour
<1>3. t \div (24 * Hour) = d
  BY <1>0 DEF Hour
<1>4. 12 * (t \div 12) = t - m
  BY <1>0, <1>1
<1>5. t % 2016 = 288 * (d % 7) + 12 * h + m
  <2>1. d = 7 * (d \div 7) + (d % 7) /\ d % 7 \in 0 .. 6 /\ d \div 7 \in Nat
    BY <1>0
  <2> DEFINE q == d \div 7  e == d % 7
  <2>2. d = 7 * q + e /\ e \in 0 .. 6 /\ q \in Nat
    BY <2>1
  <2> HIDE DEF q, e
  <2>3. t = 2016 * q + (288 * e + 12 * h + m) /\ 288 * e + 12 * h + m \in 0 .. 2015
    BY <1>0, <2>2
  <2> DEFINE s == 288 * e + 12 * h + m
  <2>4. t = 2016 * q + s /\ s \in 0 .. 2015
    BY <2>3
  <2> HIDE DEF s
  <2>5. t % 2016 = s
    BY <2>2, <2>4
  <2> QED BY <2>5 DEF s, e
<1>6. Active(t) <=> (h >= 7 /\ h < 23 /\ ~(skipWeekend /\ d % 7 >= 5))
  BY <1>0, <1>2, <1>3 DEF Active, _in_quiet_hours, _is_weekend
<1> QED BY <1>4, <1>5, <1>6 DEF Hour, Week

\* How long the loop can have been away at t: it was last awake in active hours at ten in
\* the evening or later, of the day before the night or of the Friday.
Away(t, d, h) ==
    CASE skipWeekend /\ d >= 5 -> t - 1416
      [] ~(skipWeekend /\ d >= 5) /\ h >= 23 -> t - (288 * d + 264)
      [] skipWeekend /\ d = 0 /\ h < 7 -> t + 600
      [] ~(skipWeekend /\ (d >= 5 \/ d = 0)) /\ h < 7 -> t - 288 * d + 24
      [] OTHER -> 684

AwayInv ==
    /\ now \in Ticks /\ idle \in Int /\ skipWeekend \in BOOLEAN
    /\ \A t \in Ticks, d \in 0 .. 6 : \A h, m : now = t /\ At(t, d, h, m) => idle <= Away(t, d, h)

LEMMA AwayBounded ==
    ASSUME NEW d \in 0 .. 6, NEW h, NEW m, NEW t, At(t, d, h, m),
           skipWeekend \in BOOLEAN
    PROVE  Away(t, d, h) <= 684 /\ Away(t, d, h) \in Int /\ (Active(t) => Away(t, d, h) = 684)
<1>1. d % 7 = d /\ d \in 0 .. 6
  OBVIOUS
<1>2. Active(t) <=> (h >= 7 /\ h < 23 /\ ~(skipWeekend /\ d >= 5))
  BY <1>1, ActiveAt
<1>3. h \in 0 .. 23 /\ m \in 0 .. 11 /\ t = 288 * d + 12 * h + m
  BY DEF At
<1> QED BY <1>1, <1>2, <1>3 DEF Away

\* The search for a window: it ends in active hours, within 48 hours, or a day later if all
\* of them are quiet.
LEMMA WindowFound ==
    ASSUME NEW t \in Nat, NEW k \in 1 .. 48, Active(t + k * Hour)
    PROVE  \E c \in 1 .. 48 : /\ c <= k /\ Active(t + c * Hour)
                              /\ _next_active_window(t) = Hour * ((t + c * Hour) \div Hour)
<1> DEFINE found == {h \in 1 .. 48 : Active(t + h * Hour)}
<1>1. found # {} /\ found \in SUBSET Nat
  OBVIOUS
<1>2. PICK c \in found : \A h \in found : c <= h
  <2> HIDE DEF found
  <2> QED BY <1>1, LeastNumber
<1>3. Min(found) = c
  <2>1. \A x \in found : (\A y \in found : x <= y) => x = c
    BY <1>2
  <2> HIDE DEF found
  <2> QED BY <1>2, <2>1 DEF Min
<1>4. _next_active_window(t) = Hour * ((t + Min(found) * Hour) \div Hour)
  BY <1>1 DEF _next_active_window
<1> HIDE DEF found
<1>5. c \in 1 .. 48 /\ c <= k /\ Active(t + c * Hour)
  BY <1>2 DEF found
<1> QED BY <1>3, <1>4, <1>5

LEMMA WindowMissing ==
    ASSUME NEW t \in Nat, \A k \in 1 .. 48 : ~Active(t + k * Hour)
    PROVE  _next_active_window(t) = t + 288
<1>1. {h \in 1 .. 48 : Active(t + h * Hour)} = {}
  OBVIOUS
<1> QED BY <1>1 DEF _next_active_window, Hour

\* A clock reading of this week.
LEMMA Reading ==
    ASSUME NEW t \in Ticks
    PROVE  \E d \in 0 .. 6, h \in 0 .. 23, m \in 0 .. 11 : At(t, d, h, m)
<1>1. PICK d \in Nat, h \in 0 .. 23, m \in 0 .. 11 : At(t, d, h, m)
  <2>1. t \in Nat
    BY DEF Ticks
  <2> QED BY <2>1, Clock
<1>2. d \in 0 .. 6
  BY <1>1 DEF At, Ticks
<1> QED BY <1>1, <1>2

\* From the evening of Friday to the morning of Saturday no active hour is within 48; else
\* one is, by seven o'clock of the next active day at the latest.
Asleep(d, h) == skipWeekend /\ ((d = 4 /\ h >= 22) \/ (d = 5 /\ h < 7))

\* Waking k hours from now, on the hour, is soon enough.
Soon(t, d, h, m, k) == Away(t, d, h) + 12 * k - m <= 684

LEMMA WindowInTime ==
    ASSUME NEW d \in 0 .. 6, NEW h, NEW m, NEW t, At(t, d, h, m),
           skipWeekend \in BOOLEAN, ~Asleep(d, h), ~Active(t)
    PROVE  \E k \in 1 .. 48 : Active(t + k * Hour) /\ Soon(t, d, h, m, k)
<1> DEFINE k == IF skipWeekend /\ d = 5 THEN 55 - h ELSE IF h < 7 /\ ~(skipWeekend /\ d = 6) THEN 7 - h ELSE 31 - h
           e == IF skipWeekend /\ d = 5 THEN 7 ELSE IF h < 7 /\ ~(skipWeekend /\ d = 6) THEN d ELSE d + 1
<1>0. d % 7 = d /\ h \in 0 .. 23 /\ m \in 0 .. 11 /\ t = 288 * d + 12 * h + m
  BY DEF At
<1>1. ~(h >= 7 /\ h < 23 /\ ~(skipWeekend /\ d >= 5))
  BY <1>0, ActiveAt
<1>2. k \in 1 .. 48 /\ t + k * 12 = 288 * e + 12 * 7 + m /\ e \in 0 .. 7
  BY <1>0, <1>1 DEF Asleep
<1>3. ~(skipWeekend /\ e % 7 >= 5)
  <2>1. skipWeekend => e \in 0 .. 4 \/ e = 7
    BY <1>0, <1>1 DEF Asleep
  <2> HIDE DEF e
  <2> QED BY <2>1
<1>4. Soon(t, d, h, m, k)
  BY <1>0, <1>1 DEF Asleep, Away, Soon
<1> HIDE DEF k, e
<1>5. Active(t + k * Hour)
  <2> DEFINE u == t + k * 12
  <2>2. At(u, e, 7, m)
    BY <1>0, <1>2 DEF At
  <2> HIDE DEF u
  <2>3. Active(u)
    BY <1>3, <2>2, ActiveAt
  <2> QED BY <2>3 DEF u, Hour
<1> QED BY <1>2, <1>4, <1>5

\* Waking in active hours within the bound.
LEMMA WakesInside ==
    ASSUME NEW wake \in Nat, Active(wake), now' = wake % Week, idle' \in Int, idle' <= 684,
           skipWeekend \in BOOLEAN, skipWeekend' = skipWeekend
    PROVE  AwayInv'
<1>1. PICK d \in Nat, h \in 0 .. 23, m \in 0 .. 11 : At(wake, d, h, m)
  BY Clock
<1>2. now' = 288 * (d % 7) + 12 * h + m /\ (Active(wake) <=> (h >= 7 /\ h < 23 /\ ~(skipWeekend /\ d % 7 >= 5)))
  BY <1>1, ActiveAt
<1>3. PICK e \in 0 .. 6 : e = d % 7
  OBVIOUS
<1>4. now' = 288 * e + 12 * h + m /\ h >= 7 /\ h < 23 /\ ~(skipWeekend /\ e >= 5)
  BY <1>2, <1>3
<1>5. now' \in Ticks
  BY <1>4 DEF Ticks
<1>6. ASSUME NEW t1 \in Ticks, NEW d1 \in 0 .. 6, NEW h1, NEW m1, now' = t1, At(t1, d1, h1, m1)
      PROVE  idle' <= Away(t1, d1, h1)'
  <2>1. d1 = e /\ h1 = h
    <3>1. h1 \in 0 .. 23 /\ m1 \in 0 .. 11 /\ now' = 288 * d1 + 12 * h1 + m1
      BY <1>6 DEF At
    <3> QED BY <1>4, <3>1
  <2>2. Away(t1, d1, h1)' = 684
    BY <1>4, <2>1 DEF Away
  <2> QED BY <2>2
<1> QED BY <1>5, <1>6 DEF AwayInv

LEMMA WindowAhead ==
    ASSUME NEW d \in 0 .. 6, NEW h, NEW m, NEW t, At(t, d, h, m),
           skipWeekend \in BOOLEAN, ~Asleep(d, h), Active(t)
    PROVE  \E k \in 1 .. 48 : Active(t + k * Hour)
<1> DEFINE k == IF h < 22 THEN 1 ELSE 9
           e == IF h < 22 THEN d ELSE d + 1
           g == IF h < 22 THEN h + 1 ELSE 7
<1>0. d % 7 = d /\ h \in 0 .. 23 /\ m \in 0 .. 11 /\ t = 288 * d + 12 * h + m
  BY DEF At
<1>1. h >= 7 /\ h < 23 /\ ~(skipWeekend /\ d >= 5)
  BY <1>0, ActiveAt
<1>2. k \in 1 .. 48 /\ t + k * 12 = 288 * e + 12 * g + m /\ e \in 0 .. 7 /\ g \in 7 .. 22
  BY <1>0, <1>1
<1>3. ~(skipWeekend /\ e % 7 >= 5)
  <2>1. skipWeekend => e \in 0 .. 4
    BY <1>0, <1>1 DEF Asleep
  <2> HIDE DEF e
  <2> QED BY <2>1
<1> HIDE DEF k, e, g
<1>4. Active(t + k * Hour)
  <2>1. g >= 7 /\ g < 23
    BY <1>2
  <2> DEFINE u == t + k * 12
  <2>2. At(u, e, g, m)
    BY <1>0, <1>2 DEF At
  <2> HIDE DEF u
  <2>3. Active(u)
    BY <1>3, <2>1, <2>2, ActiveAt
  <2> QED BY <2>3 DEF u, Hour
<1> QED BY <1>2, <1>4

\* Waking at the start of the hour that was found.
LEMMA OnTheHour ==
    ASSUME NEW t \in Ticks, NEW m, NEW d, NEW h, At(t, d, h, m), NEW c \in 1 .. 48, Active(t + c * Hour)
    PROVE  /\ Hour * ((t + c * Hour) \div Hour) = t + 12 * c - m
           /\ t + 12 * c - m \in Nat
           /\ Active(t + 12 * c - m)
<1> DEFINE u == t + 12 * c
           v == u - m
<1>0. d \in Nat /\ h \in 0 .. 23 /\ m \in 0 .. 11 /\ t = 288 * d + 12 * h + m
  BY DEF At
<1>1. u \in Nat /\ v \in Nat /\ t + c * Hour = u
  BY <1>0 DEF Hour
<1>2. PICK d1 \in Nat, h1 \in 0 .. 23, m1 \in 0 .. 11 : At(u, d1, h1, m1)
  <2> HIDE DEF u
  <2> QED BY <1>1, Clock
<1>3. m1 = m
  <2>1. 288 * d + 12 * h + m + 12 * c = 288 * d1 + 12 * h1 + m1
    BY <1>0, <1>2 DEF At
  <2> HIDE DEF u
  <2>2. m1 - m = 12 * (24 * (d - d1) + (h - h1) + c)
    BY <1>0, <2>1
  <2> QED BY <1>0, <2>2
<1>4. At(v, d1, h1, 0)
  BY <1>2, <1>3 DEF At
<1>5. Active(u) /\ Hour * (u \div Hour) = u - m
  <2> HIDE DEF u
  <2> QED BY <1>1, <1>2, <1>3, ActiveAt
<1>6. Active(v)
  <2> HIDE DEF u, v
  <2> QED BY <1>2, <1>4, <1>5, ActiveAt
<1>7. Hour * ((t + c * Hour) \div Hour) = v
  <2> DEFINE z == t + c * Hour
  <2>1. z = u
    BY <1>1
  <2>2. v = u - m
    OBVIOUS
  <2> HIDE DEF z, u, v
  <2>3. Hour * (z \div Hour) = v
    BY <1>5, <2>1, <2>2
  <2> QED BY <2>3 DEF z
<1>8. v \in Nat /\ Active(v)
  BY <1>1, <1>6
<1>9. v = t + 12 * c - m
  BY <1>0
<1> HIDE DEF u, v
<1> QED BY <1>7, <1>8, <1>9

\* Waking in quiet hours of the same week, within the bound for them.
LEMMA WakesAway ==
    ASSUME NEW d \in 0 .. 6, NEW h, NEW m, NEW wake, At(wake, d, h, m), now' = wake % Week, idle' \in Int, skipWeekend \in BOOLEAN,
           skipWeekend' = skipWeekend, idle' <= Away(wake, d, h)
    PROVE  AwayInv'
<1>1. wake \in Ticks /\ now' = wake
  BY DEF Week, Hour, At, Ticks
<1>2. ASSUME NEW t1 \in Ticks, NEW d1 \in 0 .. 6, NEW h1, NEW m1, now' = t1, At(t1, d1, h1, m1)
      PROVE  idle' <= Away(t1, d1, h1)'
  <2>1. d1 = d /\ h1 = h
    <3>1. h1 \in 0 .. 23 /\ m1 \in 0 .. 11 /\ wake = 288 * d1 + 12 * h1 + m1
      BY <1>1, <1>2 DEF At
    <3>2. h \in 0 .. 23 /\ m \in 0 .. 11 /\ wake = 288 * d + 12 * h + m
      BY DEF At
    <3> QED BY <3>1, <3>2
  <2>2. Away(t1, d1, h1)' = Away(wake, d, h)
    BY <1>1, <1>2, <2>1 DEF Away
  <2> QED BY <2>2
<1> QED BY <1>1, <1>2 DEF AwayInv

LEMMA SleepsInside ==
    ASSUME AwayInv, SleepAndRun
    PROVE  AwayInv'
<1>t. PICK t \in Ticks : now = t
  BY DEF AwayInv
<1>1. PICK pendingAction \in BOOLEAN, minutes \in {15, 30, 60} :
        LET wake == next_wake_at(pendingAction, minutes)
        IN  now' = wake % Week /\ idle' = (IF Active(t) THEN 0 ELSE idle) + (wake - t)
  BY <1>t DEF SleepAndRun
<1> DEFINE wake == next_wake_at(pendingAction, minutes)
           past == IF Active(t) THEN 0 ELSE idle
<1>2. now' = wake % Week /\ idle' = past + (wake - t) /\ skipWeekend' = skipWeekend
  BY <1>1 DEF SleepAndRun
<1>3. idle \in Int /\ skipWeekend \in BOOLEAN /\ t \in Nat
  <2>1. t \in Nat
    BY DEF Ticks
  <2> QED BY <2>1 DEF AwayInv
<1>p. PICK d \in 0 .. 6, h \in 0 .. 23, m \in 0 .. 11 : At(t, d, h, m)
  BY Reading
<1>q. h \in 0 .. 23 /\ m \in 0 .. 11 /\ t = 288 * d + 12 * h + m
  BY <1>p DEF At
<1>5. past \in Int /\ past <= (IF Active(t) THEN 0 ELSE Away(t, d, h))
  BY <1>t, <1>3, <1>p DEF AwayInv
<1>6. wake = _next_active_window(t) \/ (Active(t) /\ \E s \in 1 .. 12 : wake = t + s)
  <2>1. minutes \div 5 \in 1 .. 12
    OBVIOUS
  <2> QED BY <1>t, <2>1 DEF next_wake_at
<1>7. d % 7 = d
  OBVIOUS
<1>8. Active(t) <=> (h >= 7 /\ h < 23 /\ ~(skipWeekend /\ d >= 5))
  BY <1>p, <1>7, ActiveAt
<1>a. Away(t, d, h) \in Int
  BY <1>3, <1>p, AwayBounded
<1> HIDE DEF wake
<1>9. CASE Active(t) /\ \E s \in 1 .. 12 : wake = t + s
  <2>1. PICK s \in 1 .. 12 : wake = t + s
    BY <1>9
  <2>2. past = 0 /\ idle' = s
    BY <1>2, <1>3, <1>9, <2>1
  <2>3. wake \in Nat
    BY <1>3, <2>1
  <2>4. CASE Active(wake)
    BY <1>2, <1>3, <2>2, <2>3, <2>4, WakesInside
  <2>5. CASE ~Active(wake)
    <3> DEFINE g == IF m + s >= 12 THEN h + 1 ELSE h
               n == IF m + s >= 12 THEN m + s - 12 ELSE m + s
    <3>1. At(wake, d, g, n) /\ g \in 0 .. 23 /\ (g = h \/ g = h + 1)
      BY <1>q, <1>8, <1>9, <2>1 DEF At
    <3> HIDE DEF g, n
    <3>2. ~(g >= 7 /\ g < 23 /\ ~(skipWeekend /\ d >= 5))
      BY <1>7, <2>5, <3>1, ActiveAt
    <3>3. g = 23 /\ h = 22
      BY <1>q, <1>8, <1>9, <3>1, <3>2
    <3>4. Away(wake, d, g) = wake - (288 * d + 264)
      BY <1>3, <1>8, <1>9, <3>3 DEF Away
    <3>5. s <= wake - (288 * d + 264)
      BY <1>q, <2>1, <3>3
    <3> QED BY <1>2, <1>3, <2>2, <3>1, <3>4, <3>5, WakesAway
  <2> QED BY <2>4, <2>5
<1>10. ASSUME wake = _next_active_window(t), NEW k \in 1 .. 48, Active(t + k * Hour),
              Active(t) \/ Asleep(d, h) \/ Soon(t, d, h, m, k)
       PROVE  AwayInv'
  <2>1. PICK c \in 1 .. 48 : /\ c <= k /\ Active(t + c * Hour)
                             /\ wake = Hour * ((t + c * Hour) \div Hour)
    BY <1>3, <1>10, WindowFound
  <2>2. wake = t + 12 * c - m /\ wake \in Nat /\ Active(wake)
    BY <1>3, <1>p, <2>1, OnTheHour
  <2>3. idle' = past + 12 * c - m /\ idle' \in Int
    BY <1>2, <1>3, <1>5, <1>q, <2>2
  <2>4. idle' <= 684
    <3>1. CASE Active(t)
      BY <1>5, <1>q, <2>1, <2>3, <3>1
    <3>2. CASE ~Active(t) /\ Asleep(d, h)
      <4>1. Away(t, d, h) = t - 1416 /\ t <= 1523
        BY <1>3, <1>q, <1>8, <3>2 DEF Away, Asleep
      <4> QED BY <1>3, <1>5, <1>q, <2>1, <2>3, <3>2, <4>1
    <3>3. CASE ~Active(t) /\ ~Asleep(d, h)
      BY <1>a, <1>5, <1>q, <1>10, <2>1, <2>3, <3>3 DEF Soon
    <3> QED BY <3>1, <3>2, <3>3
  <2> QED BY <1>2, <1>3, <2>2, <2>3, <2>4, WakesInside
<1>11. ASSUME wake = _next_active_window(t), \A k \in 1 .. 48 : ~Active(t + k * Hour), Asleep(d, h)
       PROVE  AwayInv'
  <2>1. wake = t + 288
    BY <1>3, <1>11, WindowMissing
  <2>2. At(wake, d + 1, h, m) /\ d + 1 \in {5, 6} /\ skipWeekend
    BY <1>q, <1>11, <2>1 DEF Asleep, At
  <2>3. past <= t - 1416
    <3>1. CASE Active(t)
      BY <1>q, <1>5, <1>8, <1>11, <3>1 DEF Asleep
    <3>2. CASE ~Active(t)
      <4>1. Away(t, d, h) = t - 1416
        BY <1>3, <1>q, <1>8, <1>11, <3>2 DEF Away, Asleep
      <4> QED BY <1>5, <3>2, <4>1
    <3> QED BY <3>1, <3>2
  <2>4. Away(wake, d + 1, h) = wake - 1416
    BY <2>2 DEF Away
  <2>5. idle' \in Int /\ idle' <= Away(wake, d + 1, h)
    BY <1>2, <1>3, <1>5, <2>1, <2>3, <2>4
  <2>6. d + 1 \in 0 .. 6
    BY <2>2
  <2> QED BY <1>2, <1>3, <2>2, <2>5, <2>6, WakesAway
<1>12. CASE wake = _next_active_window(t)
  <2>1. CASE \A k \in 1 .. 48 : ~Active(t + k * Hour)
    <3>1. Asleep(d, h)
      BY <1>3, <1>p, <2>1, WindowInTime, WindowAhead
    <3> QED BY <1>11, <1>12, <2>1, <3>1
  <2>2. CASE \E k \in 1 .. 48 : Active(t + k * Hour)
    <3>1. CASE Active(t) \/ Asleep(d, h)
      <4>1. PICK k \in 1 .. 48 : Active(t + k * Hour)
        BY <2>2
      <4> QED BY <1>10, <1>12, <3>1, <4>1
    <3>2. CASE ~Active(t) /\ ~Asleep(d, h)
      <4>1. PICK k \in 1 .. 48 : Active(t + k * Hour) /\ Soon(t, d, h, m, k)
        <5>1. d \in 0 .. 6 /\ At(t, d, h, m) /\ skipWeekend \in BOOLEAN /\ ~Asleep(d, h) /\ ~Active(t)
          BY <1>3, <1>p, <3>2
        <5> QED BY <5>1, WindowInTime
      <4> QED BY <1>10, <1>12, <4>1
    <3> QED BY <3>1, <3>2
  <2> QED BY <2>1, <2>2
<1> QED BY <1>6, <1>9, <1>12

\* For any history of generations, fitness and plateaus: the loop is never away from active
\* hours for more than 57 hours.
THEOREM SleepIsBounded == SchedSpec => []NeverOversleeps
<1>1. SchedInit => AwayInv
  <2> SUFFICES ASSUME SchedInit PROVE AwayInv
    OBVIOUS
  <2>1. PICK d \in {0, 4}, h \in {9, 22} : now = d * 24 * Hour + h * Hour + 11
    BY DEF SchedInit
  <2>2. now = 288 * d + 12 * h + 11
    BY <2>1 DEF Hour
  <2>3. now \in Ticks /\ idle = 0 /\ skipWeekend \in BOOLEAN
    BY <2>2 DEF SchedInit, Ticks
  <2>4. ASSUME NEW t1 \in Ticks, NEW d1 \in 0 .. 6, NEW h1, NEW m1, now = t1, At(t1, d1, h1, m1)
        PROVE  idle <= Away(t1, d1, h1)
    <3>1. d1 = d /\ h1 = h
      BY <2>2, <2>4 DEF At
    <3> QED BY <2>3, <3>1 DEF Away
  <2> QED BY <2>3, <2>4 DEF AwayInv
<1>2. AwayInv /\ [SchedNext]_schedVars => AwayInv'
  <2>1. ASSUME AwayInv, UNCHANGED schedVars PROVE AwayInv'
    BY <2>1 DEF schedVars, AwayInv, Away
  <2> QED BY <2>1, SleepsInside DEF SchedNext
<1>3. AwayInv => NeverOversleeps
  <2> SUFFICES ASSUME AwayInv PROVE idle <= 684
    BY DEF NeverOversleeps, Hour
  <2>1. PICK t \in Ticks : now = t
    BY DEF AwayInv
  <2>p. PICK d \in 0 .. 6, h \in 0 .. 23, m \in 0 .. 11 : At(t, d, h, m)
    BY Reading
  <2>2. idle <= Away(t, d, h) /\ idle \in Int
    BY <2>1, <2>p DEF AwayInv
  <2>3. Away(t, d, h) <= 684 /\ Away(t, d, h) \in Int
    BY <2>p, AwayBounded DEF AwayInv
  <2> QED BY <2>2, <2>3
<1> QED BY <1>1, <1>2, <1>3, PTL DEF SchedSpec

-----------------------------------------------------------------------------
\* The proposals a batch may hold, and the sequences of them up to a length.
Good ==
    {p \in [from : {"llm", "trad"}, slot : Int, asked : BOOLEAN,
            field : Range(ClusterFields) \cup {ForeignField}, magnitude : Int, score : Int] :
        p.asked /\ ValidProposal(p)}

\* The larger and the smaller of two numbers.
LEMMA MaxOfTwo ==
    ASSUME NEW a \in Int, NEW b \in Int
    PROVE  Max({a, b}) = (IF a >= b THEN a ELSE b) /\ Min({a, b}) = (IF a <= b THEN a ELSE b)
<1> DEFINE S == {a, b}
           m == IF a >= b THEN a ELSE b
           l == IF a <= b THEN a ELSE b
<1>1. m \in S /\ \A x \in S : (\A y \in S : x >= y) <=> x = m
  OBVIOUS
<1>2. l \in S /\ \A x \in S : (\A y \in S : x <= y) <=> x = l
  OBVIOUS
<1> HIDE DEF S, m, l
<1>3. Max(S) = m
  BY <1>1 DEF Max
<1>4. Min(S) = l
  BY <1>2 DEF Min
<1> QED BY <1>3, <1>4 DEF S, m, l

\* A share of n in tenths is between none and all of them.
LEMMA ShareOfBatch ==
    ASSUME NEW n \in Nat, NEW ratio \in 0 .. 10
    PROVE  _split_count(n, ratio) \in 0 .. n
<1> DEFINE a == n * ratio
           q == a \div 10
<1>1. a \in 0 .. 10 * n
  <2>1. \A r \in 0 .. 10 : n * r \in 0 .. 10 * n
    <3>1. n * 0 = 0 /\ n * 1 = n /\ n * 2 = n + n /\ n * 3 = 3 * n /\ n * 4 = 4 * n /\ n * 5 = 5 * n
          /\ n * 6 = 6 * n /\ n * 7 = 7 * n /\ n * 8 = 8 * n /\ n * 9 = 9 * n /\ n * 10 = 10 * n
      OBVIOUS
    <3>2. \A r \in 0 .. 10 : r \in {0, 1, 2, 3, 4, 5, 6, 7, 8, 9, 10}
      OBVIOUS
    <3> QED BY <3>1, <3>2
  <2> QED BY <2>1
<1> HIDE DEF a
<1>2. q \in 0 .. n /\ (q = n => a % 10 = 0)
  BY <1>1
<1>3. RoundDiv(a, 10) = q \/ (RoundDiv(a, 10) = q + 1 /\ 2 * (a % 10) >= 10)
  BY <1>1 DEF RoundDiv
<1>4. RoundDiv(a, 10) \in 0 .. n
  BY <1>2, <1>3
<1> QED BY <1>4 DEF a, _split_count

\* A magnitude that the mutations clip stays within its bounds.
LEMMA ClampedInBounds ==
    ASSUME NEW m \in Int
    PROVE  Clamped(m) \in -50 .. 50
<1>1. \A a, b \in Int : Max({a, b}) = (IF a >= b THEN a ELSE b) /\ Min({a, b}) = (IF a <= b THEN a ELSE b)
  BY MaxOfTwo
<1>2. PICK k \in Int : k = Min({m, 50}) /\ k <= 50
  <2>1. Min({m, 50}) = IF m <= 50 THEN m ELSE 50
    BY <1>1
  <2> QED BY <2>1
<1>3. Max({k, -50}) = IF k >= -50 THEN k ELSE -50
  BY <1>1
<1>4. Clamped(m) = Max({k, -50})
  BY <1>2 DEF Clamped, MAX_DIFF_PCT
<1> QED BY <1>2, <1>3, <1>4

\* What the arithmetic mutations of the first n slots give: no more than n proposals, n of
\* them where no mutation is dropped.
LEMMA MutationsFit ==
    ASSUME NEW r \in MakerConfig, NEW n \in 0 .. r.n
    PROVE  /\ traditional_proposals(r, n) \in Seq(Good)
           /\ Len(traditional_proposals(r, n)) \in 0 .. n
           /\ NothingDropped(r) => Len(traditional_proposals(r, n)) = n
<1> DEFINE Field(i) == ClusterFields[(i % Len(ClusterFields)) + 1]
           Kept(i) == r.trad[i] # Dropped /\ Field(i) \notin DictFields
           Made(i) == [from |-> "trad", slot |-> i, asked |-> TRUE, field |-> Field(i),
                       magnitude |-> Clamped(r.trad[i]), score |-> 5]
           S == {i \in 0 .. n - 1 : Kept(i)}
           kept == Ascending(S)
           T == [k \in DOMAIN kept |-> Made(kept[k])]
<1>1. r.n \in 0 .. MaxBatch /\ r.trad \in [0 .. MaxBatch - 1 -> Magnitudes \cup {Dropped}] /\ MaxBatch \in Nat /\ n \in Nat
  BY MakerAssumption DEF MakerConfig
<1>2. /\ 0 .. n - 1 \in SUBSET (0 .. MaxBatch - 1) /\ 0 .. n - 1 \in SUBSET Slots(r)
      /\ 0 .. n - 1 \in SUBSET Int
  BY <1>1 DEF Slots
<1>3. IsFiniteSet(0 .. n - 1) /\ Cardinality(0 .. n - 1) = n
  <2>1. \A a, b \in Int : IsFiniteSet(a .. b) /\ Cardinality(a .. b) = IF a > b THEN 0 ELSE b - a + 1
    BY FS_Interval
  <2>2. n - 1 \in Int /\ 0 \in Int /\ (IF 0 > n - 1 THEN 0 ELSE n - 1 - 0 + 1) = n
    BY <1>1
  <2> QED BY <2>1, <2>2
<1>4. S \in SUBSET (0 .. n - 1) /\ S \in SUBSET Int
  BY <1>2
<1> HIDE DEF S
<1>5. IsFiniteSet(S) /\ Cardinality(S) \in Nat /\ Cardinality(S) <= n
  <2> DEFINE I == 0 .. n - 1
  <2>1. IsFiniteSet(I) /\ Cardinality(I) = n /\ S \in SUBSET I
    BY <1>3, <1>4
  <2> HIDE DEF I
  <2>2. IsFiniteSet(S) /\ Cardinality(S) <= Cardinality(I)
    BY <2>1, FS_Subset
  <2>3. Cardinality(S) \in Nat
    BY <2>2, FS_CardinalityType
  <2> QED BY <2>1, <2>2, <2>3
<1>6. /\ DOMAIN kept = 1 .. Cardinality(S)
      /\ \A k \in 1 .. Cardinality(S) : kept[k] \in S
  BY <1>4, <1>5, AscendingFacts
<1>7. \A i \in S : Made(i) \in Good
  <2> SUFFICES ASSUME NEW i \in S PROVE Made(i) \in Good
    OBVIOUS
  <2>1. i \in 0 .. MaxBatch - 1 /\ i \in Int /\ r.trad[i] \in Int
    <3>1. i \in 0 .. MaxBatch - 1 /\ i \in Int /\ r.trad[i] # Dropped
      BY <1>2, <1>4 DEF S
    <3> QED BY <1>1, <3>1, MakerAssumption
  <2>2. Clamped(r.trad[i]) \in -50 .. 50
    BY <2>1, ClampedInBounds
  <2>3. Field(i) \in Range(ClusterFields) \cup {ForeignField}
    <3>1. ClusterFields \in Seq(Range(ClusterFields)) /\ Len(ClusterFields) \in Nat \ {0}
      BY MakerAssumption, EmptySeq
    <3> DEFINE z == Len(ClusterFields)
    <3>2. (i % z) + 1 \in 1 .. z
      <4> HIDE DEF z
      <4>1. \A a \in Int, b \in Nat \ {0} : a % b \in 0 .. b - 1
        OBVIOUS
      <4>2. i % z \in 0 .. z - 1 /\ z \in Nat \ {0}
        BY <2>1, <3>1, <4>1 DEF z
      <4> QED BY <4>2
    <3> QED BY <3>1, <3>2, ElementOfSeq
  <2> DEFINE m == Clamped(r.trad[i])
             f == Field(i)
  <2>4. m \in Int /\ m \in -50 .. 50
    BY <2>2
  <2> HIDE DEF m, f
  <2> QED BY <2>1, <2>3, <2>4 DEF Good, ValidProposal, MAX_DIFF_PCT, f, m
<1>8. T \in Seq(Good) /\ Len(T) = Cardinality(S)
  <2> DEFINE N == Cardinality(S)
  <2>1. T = [k \in 1 .. N |-> Made(kept[k])]
    BY <1>6
  <2>2. \A k \in 1 .. N : Made(kept[k]) \in Good
    BY <1>6, <1>7
  <2> HIDE DEF Made, kept, T, N
  <2>3. T \in [1 .. N -> Good] /\ N \in Nat
    BY <1>5, <2>1, <2>2 DEF N
  <2>4. T \in Seq(Good)
    BY <2>3, SeqDef
  <2> QED BY <2>3, <2>4, LenProperties DEF N
<1>9. NothingDropped(r) => S = 0 .. n - 1
  BY <1>2 DEF NothingDropped, S
<1>10. traditional_proposals(r, n) = T
  BY DEF traditional_proposals, S
<1> HIDE DEF T
<1>11. Len(T) \in 0 .. n
  BY <1>1, <1>5, <1>8
<1> QED BY <1>3, <1>8, <1>9, <1>10, <1>11

\* What is kept of an answer.
LEMMA AnswersFit ==
    ASSUME NEW answer, answer.list \in Seq(RawProposals)
    PROVE  _propose_via_llm(answer) \in Seq(Good)
<1> DEFINE list == answer.list
           P == {k \in DOMAIN list : _parse_proposal(list[k])}
           good == EntriesAt(list, P)
           N == Cardinality(P)
           L == [k \in DOMAIN good |->
                   [from |-> "llm", slot |-> k, asked |-> good[k].asked, field |-> good[k].field,
                    magnitude |-> good[k].magnitude, score |-> good[k].score]]
<1>0. list \in Seq(RawProposals)
  OBVIOUS
<1>1. P \in SUBSET (1 .. Len(list)) /\ \A k \in P : list[k] \in RawProposals /\ _parse_proposal(list[k])
  BY ElementOfSeq, LenProperties DEF list
<1> HIDE DEF list, P
<1>2. /\ N \in Nat /\ good \in Seq(RawProposals) /\ Len(good) = N
      /\ \A k \in 1 .. N : Ascending(P)[k] \in P /\ good[k] = list[Ascending(P)[k]]
  <2>1. N \in 0 .. Len(list) /\ Len(list) \in Nat
    BY <1>0, <1>1, EntriesFacts, LenProperties
  <2>2. N \in Nat
    BY <2>1
  <2> QED BY <1>0, <1>1, <2>2, EntriesFacts
<1>3. DOMAIN good = 1 .. N
  <2> HIDE DEF good, N
  <2> QED BY <1>2, LenProperties
<1>4. \A k \in 1 .. N : good[k] \in RawProposals /\ _parse_proposal(good[k])
  BY <1>1, <1>2
<1> HIDE DEF good, N
<1>5. \A k \in 1 .. N :
        [from |-> "llm", slot |-> k, asked |-> good[k].asked, field |-> good[k].field,
         magnitude |-> good[k].magnitude, score |-> good[k].score] \in Good
  <2> SUFFICES ASSUME NEW k \in 1 .. N
               PROVE  [from |-> "llm", slot |-> k, asked |-> good[k].asked, field |-> good[k].field,
                       magnitude |-> good[k].magnitude, score |-> good[k].score] \in Good
    OBVIOUS
  <2>1. PICK p \in RawProposals : p = good[k] /\ _parse_proposal(p)
    BY <1>4
  <2>2. p \in [shape : BOOLEAN, asked : BOOLEAN, overflow : BOOLEAN, field : Range(ClusterFields) \cup {ForeignField},
               magnitude : Int, score : Int]
    BY MakerAssumption
  <2>3. p.asked /\ ValidProposal(p)
    BY <2>1 DEF _parse_proposal
  <2> DEFINE q == [from |-> "llm", slot |-> k, asked |-> p.asked, field |-> p.field,
                   magnitude |-> p.magnitude, score |-> p.score]
  <2>4. q.asked /\ ValidProposal(q)
    BY <2>2, <2>3 DEF ValidProposal
  <2>5. q \in [from : {"llm", "trad"}, slot : Int, asked : BOOLEAN,
               field : Range(ClusterFields) \cup {ForeignField}, magnitude : Int, score : Int]
    BY <2>2, <1>2
  <2> QED BY <2>1, <2>4, <2>5 DEF Good
<1>6. L \in Seq(Good)
  <2>1. L \in [1 .. N -> Good]
    BY <1>3, <1>5
  <2> HIDE DEF L
  <2> QED BY <1>2, <2>1, SeqDef
<1> QED BY <1>6 DEF _propose_via_llm, good, P, list

\* The first n of proposals that are good.
LEMMA CutFits ==
    ASSUME NEW all \in Seq(Good), NEW n \in Nat
    PROVE  LET b == SubSeq(all, 1, Min({n, Len(all)}))
           IN  b \in Seq(Good) /\ Len(b) \in 0 .. n /\ (Len(all) >= n => Len(b) = n)
<1> DEFINE N == Len(all)
           m == IF n <= N THEN n ELSE N
<1>1. N \in Nat /\ \A i \in 1 .. N : all[i] \in Good
  BY ElementOfSeq, LenProperties
<1>2. Min({n, N}) = m
  <2> HIDE DEF N
  <2>1. n \in Int /\ N \in Int
    BY <1>1
  <2> QED BY <2>1, MaxOfTwo
<1>3. m \in Nat /\ m <= n /\ m <= N /\ (N >= n => m = n)
  BY <1>1
<1> HIDE DEF m, N
<1>4. \A i \in 1 .. m : all[i] \in Good
  BY <1>1, <1>3
<1>5. SubSeq(all, 1, m) \in Seq(Good) /\ Len(SubSeq(all, 1, m)) = m
  <2>1. /\ SubSeq(all, 1, m) \in Seq(Good)
        /\ Len(SubSeq(all, 1, m)) = IF 1 <= m THEN m - 1 + 1 ELSE 0
    BY <1>3, <1>4, SubSeqProperties
  <2>2. (IF 1 <= m THEN m - 1 + 1 ELSE 0) = m
    BY <1>3
  <2> QED BY <2>1, <2>2
<1> DEFINE b == SubSeq(all, 1, Min({n, Len(all)}))
<1>6. b = SubSeq(all, 1, m) /\ Len(all) = N
  BY <1>2 DEF N
<1> HIDE DEF b
<1>7. b \in Seq(Good) /\ Len(b) \in 0 .. n /\ (Len(all) >= n => Len(b) = n)
  BY <1>3, <1>5, <1>6
<1> QED BY <1>7 DEF b

\* A batch for any request and any answer.
LEMMA BatchFits ==
    ASSUME NEW r \in MakerConfig, NEW answer, answer.list \in Seq(RawProposals)
    PROVE  /\ Batch(r, answer) \in Seq(Good)
           /\ Len(Batch(r, answer)) \in 0 .. r.n
           /\ NothingDropped(r) => Len(Batch(r, answer)) = r.n
<1> DEFINE share == _split_count(r.n, r.ratio)
           llmN == LlmShare(r)
           tradN == IF r.mode = "mix" THEN r.n - share ELSE 0
           llm == IF llmN > 0 THEN _propose_via_llm(answer) ELSE <<>>
           short == Max({llmN - Len(llm), 0})
           topUp == traditional_proposals(r, short)
           rest == traditional_proposals(r, tradN)
           all == llm \o topUp \o rest
<1>1. r.n \in Nat /\ r.ratio \in 0 .. 10 /\ r.mode \in {"mix", "llm_only", "trad_only"}
  <2>1. r.n \in 0 .. MaxBatch /\ r.ratio \in Ratios
    BY DEF MakerConfig
  <2>2. r.mode \in {"mix", "llm_only", "trad_only"}
    BY DEF MakerConfig
  <2>3. r.n \in Nat
    BY <2>1, MakerAssumption
  <2>4. r.ratio \in 0 .. 10
    BY <2>1, MakerAssumption
  <2> QED BY <2>2, <2>3, <2>4
<1>2. share \in 0 .. r.n
  BY <1>1, ShareOfBatch
<1> HIDE DEF share
<1>3. llmN \in 0 .. r.n /\ tradN \in 0 .. r.n /\ (r.mode # "trad_only" => llmN + tradN = r.n)
  BY <1>1, <1>2 DEF LlmShare, share
<1>4. llm \in Seq(Good) /\ Len(llm) \in Nat
  <2>1. llm \in Seq(Good)
    BY AnswersFit, EmptySeq
  <2> HIDE DEF llm
  <2> QED BY <2>1, LenProperties
<1> HIDE DEF llmN, tradN, llm
<1>5. short \in 0 .. r.n /\ Len(llm) + short >= llmN
  <2> DEFINE d == llmN - Len(llm)
  <2>1. d \in Int /\ 0 \in Int /\ d <= r.n
    BY <1>1, <1>3, <1>4
  <2>2. d + Len(llm) = llmN
    BY <1>3, <1>4
  <2>3. Max({d, 0}) = IF d >= 0 THEN d ELSE 0
    <3> HIDE DEF d
    <3> QED BY <2>1, MaxOfTwo
  <2> HIDE DEF d
  <2> QED BY <1>1, <1>3, <1>4, <2>1, <2>2, <2>3 DEF d
<1> HIDE DEF short
<1>6. topUp \in Seq(Good) /\ Len(topUp) \in Nat /\ (NothingDropped(r) => Len(topUp) = short)
  BY <1>1, <1>5, MutationsFit
<1>7. rest \in Seq(Good) /\ Len(rest) \in Nat /\ (NothingDropped(r) => Len(rest) = tradN)
  BY <1>1, <1>3, MutationsFit
<1>8. CASE r.mode = "trad_only"
  <2>1. Batch(r, answer) = traditional_proposals(r, r.n) /\ r.n \in 0 .. r.n
    BY <1>1, <1>8 DEF Batch
  <2> QED BY <2>1, MutationsFit
<1>9. CASE r.mode # "trad_only"
  <2>1. Batch(r, answer) = SubSeq(all, 1, Min({r.n, Len(all)}))
    BY <1>9 DEF Batch, share, llmN, tradN, llm, short
  <2> HIDE DEF topUp, rest
  <2>2. all \in Seq(Good) /\ Len(all) = Len(llm) + Len(topUp) + Len(rest)
    <3>1. llm \o topUp \in Seq(Good) /\ Len(llm \o topUp) = Len(llm) + Len(topUp)
      BY <1>4, <1>6, ConcatProperties
    <3> DEFINE u == llm \o topUp
    <3> HIDE DEF u
    <3>2. u \o rest \in Seq(Good) /\ Len(u \o rest) = Len(u) + Len(rest)
      BY <1>7, <3>1, ConcatProperties DEF u
    <3> QED BY <3>1, <3>2 DEF u
  <2> HIDE DEF all
  <2>3. NothingDropped(r) => Len(all) >= r.n
    BY <1>1, <1>3, <1>4, <1>5, <1>6, <1>7, <1>9, <2>2
  <2> QED BY <1>1, <2>1, <2>2, <2>3, CutFits
<1> QED BY <1>8, <1>9

\* BatchUsable for whatever the LLM sent and whatever the mutations did: propose_batch
\* counts its share, tops it up and cuts it to n, and only an answer that is no object
\* with a list, or a number no float holds, keeps it from doing so.
THEOREM BatchesAreUsable == MakerSpec => []BatchUsable
<1> DEFINE Inv == mkRequest \in MakerConfig /\ BatchUsable
<1>1. MakerInit => Inv
  BY DEF MakerInit, BatchUsable
<1>2. Inv /\ [MakerNext]_makerVars => Inv'
  <2> SUFFICES ASSUME Inv, [MakerNext]_makerVars PROVE Inv'
    OBVIOUS
  <2>1. CASE ProposeBatch
    <3>1. mkAnswer'.list \in Seq(RawProposals)
      <4>1. mkAnswer'.list \in UNION {[1 .. k -> RawProposals] : k \in 0 .. MaxAnswer}
        BY <2>1 DEF ProposeBatch, Answers
      <4>2. PICK k \in 0 .. MaxAnswer : mkAnswer'.list \in [1 .. k -> RawProposals]
        BY <4>1
      <4>3. k \in Nat
        BY MakerAssumption
      <4> QED BY <4>2, <4>3, SeqDef
    <3>2. PICK b : b = Batch(mkRequest, mkAnswer')
      OBVIOUS
    <3>3. b \in Seq(Good) /\ Len(b) \in 0 .. mkRequest.n /\ (NothingDropped(mkRequest) => Len(b) = mkRequest.n)
      BY <3>1, <3>2, BatchFits
    <3>4. mkBatch' = b /\ mkRequest' = mkRequest /\ mkState' = "answered"
      BY <2>1, <3>2 DEF ProposeBatch
    <3>5. mkRequest.n \in Nat
      BY MakerAssumption DEF MakerConfig
    <3>6. \A k \in DOMAIN b : b[k].asked /\ ValidProposal(b[k])
      BY <3>3, ElementOfSeq, LenProperties DEF Good
    <3>7. Len(b) <= mkRequest.n
      BY <3>3, <3>5
    <3>8. NothingDropped(mkRequest)' <=> NothingDropped(mkRequest)
      BY <3>4 DEF NothingDropped, Slots
    <3> QED BY <3>3, <3>4, <3>6, <3>7, <3>8 DEF BatchUsable
  <2>2. CASE ProposeRaises
    <3>1. mkState' = "raised" /\ mkRequest' = mkRequest /\ LlmRaises(mkRequest, mkAnswer')
      BY <2>2 DEF ProposeRaises
    <3>2. ~mkAnswer'.iterable \/ \E k \in DOMAIN mkAnswer'.list : mkAnswer'.list[k].overflow
      BY <3>1 DEF LlmRaises, Escapes
    <3> QED BY <3>1, <3>2 DEF BatchUsable
  <2>3. CASE ProposeRefused
    BY <2>3 DEF ProposeRefused, BatchUsable
  <2>4. CASE UNCHANGED makerVars
    BY <2>4 DEF makerVars, BatchUsable, NothingDropped, Slots
  <2> QED BY <2>1, <2>2, <2>3, <2>4 DEF MakerNext
<1> QED BY <1>1, <1>2, PTL DEF MakerSpec

-----------------------------------------------------------------------------
\* The fields a generation may touch.
Fields == DOMAIN TUNING

\* The committed weights add up.
LEMMA DefaultsAddUp == Total(TUNING.weights) = 100
<1> DEFINE w == <<50, 40, 10>>
           g == CHOOSE f : f = [k \in 0 .. 3 |-> IF k = 0 THEN 0 ELSE f[k - 1] + w[k]]
           sum == [k \in 0 .. 3 |-> IF k = 0 THEN 0 ELSE IF k = 1 THEN 50 ELSE IF k = 2 THEN 90 ELSE 100]
<1>1. Len(w) = 3 /\ w[1] = 50 /\ w[2] = 40 /\ w[3] = 10
  OBVIOUS
<1>2. Total(w) = g[3]
  BY <1>1 DEF Total
<1> HIDE DEF w
<1>3. sum = [k \in 0 .. 3 |-> IF k = 0 THEN 0 ELSE sum[k - 1] + w[k]]
  <2>1. \A k \in 0 .. 3 : sum[k] = IF k = 0 THEN 0 ELSE sum[k - 1] + w[k]
    BY <1>1
  <2> QED BY <2>1
<1> HIDE DEF sum
<1>4. g = [k \in 0 .. 3 |-> IF k = 0 THEN 0 ELSE g[k - 1] + w[k]]
  BY <1>3
<1> HIDE DEF g
<1>5. \A k \in 0 .. 3 : g[k] = IF k = 0 THEN 0 ELSE g[k - 1] + w[k]
  BY <1>4
<1>6. g[0] = 0 /\ g[1] = 50 /\ g[2] = 90 /\ g[3] = 100
  BY <1>1, <1>5
<1> QED BY <1>2, <1>6 DEF TUNING, w

\* The defaults are legal.
LEMMA DefaultsLegal == Legal(TUNING) /\ Fields = {"veto", "halve", "aligned", "trendingInverse", "rangingInverse", "extreme", "weights"}
<1>1. \A a, b \in Int : Max({a, b}) = (IF a >= b THEN a ELSE b) /\ Min({a, b}) = (IF a <= b THEN a ELSE b)
  BY MaxOfTwo
<1>2. Max({6, 5}) = 6 /\ Min({6, 5}) = 5
  BY <1>1
<1>3. /\ TUNING.veto = 5 /\ TUNING.halve = 8 /\ TUNING.aligned = 10 /\ TUNING.trendingInverse = 6
      /\ TUNING.rangingInverse = 5 /\ TUNING.extreme = 12
  BY DEF TUNING
<1>4. Legal(TUNING)
  BY <1>2, <1>3, DefaultsAddUp DEF Legal
<1>5. Fields = {"veto", "halve", "aligned", "trendingInverse", "rangingInverse", "extreme", "weights"}
  BY DEF TUNING, Fields
<1> QED BY <1>4, <1>5

\* A mutation of one field changes that field only, and is legal or changes nothing.
LEMMA FieldStep ==
    ASSUME NEW t, DOMAIN t = Fields, NEW name \in Fields, NEW u \in mutate_field(name, t)
    PROVE  /\ DOMAIN u = Fields /\ \A f \in Fields : f # name => u[f] = t[f]
           /\ Legal(u) \/ u = t
<1>1. CASE u = t
  BY <1>1
<1>2. CASE u \in _apply_one_mutation(name, t) /\ Legal(u)
  <2>1. PICK x : u = [t EXCEPT ![name] = x]
    <3>1. CASE name = "weights"
      <4>1. PICK d \in [DOMAIN t.weights -> WeightSteps] :
               u = [t EXCEPT !.weights = Renormalised([k \in DOMAIN @ |-> _clip(@[k] + d[k], -50, 200)])]
        BY <1>2, <3>1 DEF _apply_one_mutation
      <4> DEFINE x == Renormalised([k \in DOMAIN t.weights |-> _clip(t.weights[k] + d[k], -50, 200)])
      <4>2. u = [t EXCEPT !.weights = x]
        BY <4>1
      <4> HIDE DEF x
      <4> QED BY <3>1, <4>2
    <3>2. CASE name # "weights"
      <4>1. PICK d \in Steps : u = [t EXCEPT ![name] = _clip(@ + d, Bounds[name][1], Bounds[name][2])]
        BY <1>2, <3>2 DEF _apply_one_mutation
      <4> DEFINE x == _clip(t[name] + d, Bounds[name][1], Bounds[name][2])
      <4>2. u = [t EXCEPT ![name] = x]
        BY <4>1
      <4> HIDE DEF x
      <4> QED BY <4>2
    <3> QED BY <3>1, <3>2
  <2> QED BY <1>2, <2>1
<1> QED BY <1>1, <1>2 DEF mutate_field

\* The fields of a cluster.
LEMMA ClusterFacts ==
    ASSUME NEW c \in DOMAIN ClusterMap
    PROVE  ClusterMap[c] \subseteq Fields /\ IsFiniteSet(ClusterMap[c]) /\ Cardinality(ClusterMap[c]) \in Nat
<1>1. /\ c \in {"c2", "c3", "c4"}
      /\ ClusterMap["c2"] = {"veto", "halve"} /\ ClusterMap["c3"] = {"weights"}
      /\ ClusterMap["c4"] = {"aligned", "trendingInverse", "rangingInverse", "extreme"}
  BY DEF ClusterMap
<1>2. ClusterMap[c] \subseteq Fields
  BY <1>1, DefaultsLegal
<1>3. IsFiniteSet(ClusterMap[c])
  <2>1. \A a : IsFiniteSet({a})
    BY FS_Singleton
  <2>2. \A a, b : IsFiniteSet({a, b})
    <3> SUFFICES ASSUME NEW a, NEW b PROVE IsFiniteSet({a, b})
      OBVIOUS
    <3> DEFINE A == {a}
    <3>1. IsFiniteSet(A)
      BY <2>1
    <3> HIDE DEF A
    <3>2. IsFiniteSet(A \cup {b})
      BY <3>1, FS_AddElement
    <3>3. A \cup {b} = {a, b}
      BY DEF A
    <3> QED BY <3>2, <3>3
  <2>3. \A a, b, x, y : IsFiniteSet({a, b, x, y})
    <3> SUFFICES ASSUME NEW a, NEW b, NEW x, NEW y PROVE IsFiniteSet({a, b, x, y})
      OBVIOUS
    <3>1. {a, b, x, y} = {a, b} \cup {x, y}
      OBVIOUS
    <3> DEFINE P == {a, b}
               Q == {x, y}
    <3>2. IsFiniteSet(P) /\ IsFiniteSet(Q)
      BY <2>2
    <3> HIDE DEF P, Q
    <3>3. IsFiniteSet(P \cup Q)
      BY <3>2, FS_Union
    <3> QED BY <3>1, <3>3 DEF P, Q
  <2>4. CASE c = "c2"
    <3>1. ClusterMap[c] = {"veto", "halve"}
      BY <1>1, <2>4
    <3> QED BY <2>2, <3>1
  <2>5. CASE c = "c3"
    <3>1. ClusterMap[c] = {"weights"}
      BY <1>1, <2>5
    <3> QED BY <2>1, <3>1
  <2>6. CASE c = "c4"
    <3>1. ClusterMap[c] = {"aligned", "trendingInverse", "rangingInverse", "extreme"}
      BY <1>1, <2>6
    <3>2. IsFiniteSet({"aligned", "trendingInverse", "rangingInverse", "extreme"})
      BY <2>3, Zenon
    <3> QED BY <3>1, <3>2
  <2> QED BY <1>1, <2>4, <2>5, <2>6
<1> QED BY <1>2, <1>3, FS_CardinalityType

\* After some draws: done are the fields drawn, and nothing else has changed.
Drawn(m, t, C, k) ==
    /\ m.done \subseteq C /\ IsFiniteSet(m.done) /\ Cardinality(m.done) <= k
    /\ DOMAIN m.tuning = Fields /\ Legal(m.tuning)
    /\ \A f \in Fields \ m.done : m.tuning[f] = t[f]

\* One more draw.
Draw(C, M) ==
    UNION {UNION {{[tuning |-> u, done |-> m.done \cup {f}] : u \in mutate_field(f, m.tuning)} :
                     f \in C \ m.done} : m \in M}

\* One more draw from candidates that have drawn at most k fields.
LEMMA DrawKeeps ==
    ASSUME NEW t, NEW C, C \subseteq Fields, NEW k \in Nat, NEW M, \A m \in M : Drawn(m, t, C, k)
    PROVE  \A m \in Draw(C, M) : Drawn(m, t, C, k + 1)
<1> SUFFICES ASSUME NEW m \in M, NEW f \in C \ m.done, NEW u \in mutate_field(f, m.tuning)
             PROVE  Drawn([tuning |-> u, done |-> m.done \cup {f}], t, C, k + 1)
  BY DEF Draw
<1>1. /\ m.done \subseteq C /\ IsFiniteSet(m.done) /\ Cardinality(m.done) <= k
      /\ DOMAIN m.tuning = Fields /\ Legal(m.tuning)
      /\ \A x \in Fields \ m.done : m.tuning[x] = t[x]
  BY DEF Drawn
<1> DEFINE D == m.done \cup {f}
<1>2. D \subseteq C /\ IsFiniteSet(D) /\ Cardinality(D) <= k + 1
  <2>1. Cardinality(m.done) \in Nat /\ IsFiniteSet(D) /\ Cardinality(D) = Cardinality(m.done) + 1
    BY <1>1, FS_AddElement, FS_CardinalityType
  <2> HIDE DEF D
  <2>2. Cardinality(D) <= k + 1
    BY <1>1, <2>1
  <2> QED BY <1>1, <2>1, <2>2 DEF D
<1>3. DOMAIN u = Fields /\ (\A x \in Fields : x # f => u[x] = m.tuning[x]) /\ (Legal(u) \/ u = m.tuning)
  BY <1>1, FieldStep
<1>4. \A x \in Fields \ D : u[x] = t[x]
  BY <1>1, <1>3
<1> HIDE DEF D
<1>5. Drawn([tuning |-> u, done |-> D], t, C, k + 1)
  BY <1>1, <1>2, <1>3, <1>4 DEF Drawn
<1> QED BY <1>5 DEF D

\* The draws follow one another.
Draws(g, n, X, C) == g = [k \in 0 .. n |-> IF k = 0 THEN X ELSE Draw(C, g[k - 1])]

\* There is a function that satisfies the recursion of mutate_cluster.
LEMMA DrawsExist ==
    ASSUME NEW n \in Nat, NEW X, NEW C
    PROVE  \E g : Draws(g, n, X, C)
<1> DEFINE A == {i \in Nat : \E g : Draws(g, i, X, C)}
<1>1. 0 \in A
  <2> DEFINE g == [k \in 0 .. 0 |-> X]
  <2>1. Draws(g, 0, X, C)
    BY DEF Draws
  <2> HIDE DEF g
  <2> QED BY <2>1
<1>2. ASSUME NEW i \in Nat, i \in A PROVE i + 1 \in A
  <2>1. PICK g : Draws(g, i, X, C)
    BY <1>2
  <2> DEFINE h == [k \in 0 .. i + 1 |-> IF k = i + 1 THEN Draw(C, g[i]) ELSE g[k]]
  <2>2. \A k \in 0 .. i : g[k] = IF k = 0 THEN X ELSE Draw(C, g[k - 1])
    BY <2>1 DEF Draws
  <2>3. \A k \in 0 .. i + 1 : h[k] = IF k = 0 THEN X ELSE Draw(C, h[k - 1])
    <3> SUFFICES ASSUME NEW k \in 0 .. i + 1 PROVE h[k] = IF k = 0 THEN X ELSE Draw(C, h[k - 1])
      OBVIOUS
    <3>1. CASE k = i + 1
      <4>1. k # 0 /\ k - 1 = i /\ i \in 0 .. i + 1 /\ i # i + 1
        BY <3>1
      <4>2. h[k] = Draw(C, g[i]) /\ h[i] = g[i]
        BY <3>1, <4>1
      <4> HIDE DEF h
      <4> QED BY <4>1, <4>2
    <3>2. CASE k # i + 1
      <4>1. k \in 0 .. i /\ h[k] = g[k]
        BY <3>2
      <4>2. k # 0 => k - 1 \in 0 .. i + 1 /\ k - 1 # i + 1
        BY <3>2
      <4>3. k # 0 => h[k - 1] = g[k - 1]
        BY <4>2
      <4> HIDE DEF h
      <4> QED BY <2>2, <4>1, <4>3
    <3> QED BY <3>1, <3>2
  <2>4. Draws(h, i + 1, X, C)
    <3>1. h = [k \in 0 .. i + 1 |-> h[k]]
      OBVIOUS
    <3> HIDE DEF h
    <3> QED BY <2>3, <3>1 DEF Draws
  <2> HIDE DEF h
  <2> QED BY <2>4
<1> HIDE DEF A
<1>3. Nat \subseteq A
  BY <1>1, <1>2, SetInduction
<1> QED BY <1>3 DEF A

\* A child differs from its parent in at most n fields of the cluster, and is legal.
LEMMA ChildrenAreSound ==
    ASSUME NEW t, DOMAIN t = Fields, Legal(t), NEW c \in DOMAIN ClusterMap, NEW n \in Nat,
           NEW child \in mutate_cluster(t, c, n)
    PROVE  /\ DOMAIN child = Fields /\ Legal(child)
           /\ LET changed == {f \in Fields : child[f] # t[f]}
              IN  changed \subseteq ClusterMap[c] /\ Cardinality(changed) <= n
<1> DEFINE C == ClusterMap[c]
           first == [tuning |-> t, done |-> {}]
           X == {first}
           g == CHOOSE g : Draws(g, n, X, C)
           last == Min({n, Cardinality(C)})
<1>1. C \subseteq Fields /\ Cardinality(C) \in Nat
  BY ClusterFacts
<1>2. Draws(g, n, X, C)
  <2> HIDE DEF X, C
  <2> QED BY DrawsExist
<1>3. mutate_cluster(t, c, n) = {m.tuning : m \in g[last]}
  BY DEF mutate_cluster, Draws, Draw
<1> HIDE DEF g, last, X
<1>4. last \in 0 .. n
  <2>1. Min({n, Cardinality(C)}) = IF n <= Cardinality(C) THEN n ELSE Cardinality(C)
    <3> HIDE DEF C
    <3>1. n \in Int /\ Cardinality(C) \in Int
      BY <1>1
    <3> QED BY <3>1, MaxOfTwo
  <2> HIDE DEF C
  <2> QED BY <1>1, <2>1 DEF last
<1> DEFINE A == {k \in Nat : k <= n => \A m \in g[k] : Drawn(m, t, C, k)}
<1>5. \A k \in 0 .. n : g[k] = IF k = 0 THEN X ELSE Draw(C, g[k - 1])
  BY <1>2 DEF Draws
<1>6. 0 \in A
  <2>1. Drawn(first, t, C, 0)
    BY FS_EmptySet DEF Drawn
  <2>2. g[0] = X
    BY <1>5
  <2> HIDE DEF first, C
  <2> QED BY <2>1, <2>2 DEF X
<1>7. ASSUME NEW k \in Nat, k \in A PROVE k + 1 \in A
  <2> SUFFICES ASSUME k + 1 <= n PROVE \A m \in g[k + 1] : Drawn(m, t, C, k + 1)
    OBVIOUS
  <2>1. \A m \in g[k] : Drawn(m, t, C, k)
    BY <1>7
  <2>2. k + 1 \in 0 .. n /\ k + 1 # 0 /\ (k + 1) - 1 = k
    OBVIOUS
  <2>3. g[k + 1] = Draw(C, g[k])
    BY <1>5, <2>2
  <2> HIDE DEF C
  <2> QED BY <1>1, <2>1, <2>3, DrawKeeps
<1> HIDE DEF A
<1>8. Nat \subseteq A
  BY <1>6, <1>7, SetInduction
<1>9. PICK m \in g[last] : child = m.tuning
  BY <1>3
<1>10. Drawn(m, t, C, last) /\ last <= n /\ last \in Nat
  BY <1>4, <1>8, <1>9 DEF A
<1> DEFINE changed == {f \in Fields : child[f] # t[f]}
<1>11. DOMAIN child = Fields /\ Legal(child) /\ changed \subseteq m.done /\ m.done \subseteq C
       /\ IsFiniteSet(m.done) /\ Cardinality(m.done) <= last
  BY <1>9, <1>10 DEF Drawn
<1> HIDE DEF changed
<1>12. IsFiniteSet(changed) /\ Cardinality(changed) <= Cardinality(m.done)
  BY <1>11, FS_Subset
<1>13. Cardinality(changed) <= n
  BY <1>10, <1>11, <1>12, FS_CardinalityType
<1> QED BY <1>11, <1>13 DEF changed

\* A generation that keeps what a search promises.
Sound(g) ==
    /\ DOMAIN g.child = Fields /\ Legal(g.child)
    /\ Changed(g) \subseteq ClusterMap[g.cluster] /\ Cardinality(Changed(g)) <= g.n

\* What is being written, what is on disk and what runs is sound, and so a parent is legal.
SearchInv ==
    /\ DOMAIN tsBest = Fields /\ Legal(tsBest)
    /\ DOMAIN tsWriting = Searcher /\ \A s \in Searcher : \A g \in tsWriting[s] : Sound(g)
    /\ tsFile.readable => Sound(tsFile)
    /\ \A g \in tsRun : Sound(g)

\* One step per action; only BeginGeneration makes a child.
LEMMA SearchKeeps == SearchInv /\ [SearchNext]_searchVars => SearchInv'
<1> SUFFICES ASSUME SearchInv, [SearchNext]_searchVars PROVE SearchInv'
  OBVIOUS
<1> USE DEF SearchInv
<1>1. CASE UNCHANGED searchVars
  BY <1>1 DEF searchVars
<1>2. ASSUME NEW s \in Searcher, SkipGeneration(s) PROVE SearchInv'
  BY <1>2 DEF SkipGeneration, searchVars
<1>3. ASSUME NEW s \in Searcher, BeginGeneration(s) PROVE SearchInv'
  <2>1. PICK r \in Requests, cluster \in DOMAIN ClusterMap, parent \in {tsBest, TUNING} :
           \E child \in mutate_cluster(parent, cluster, r.n_mutations) :
               tsWriting' = [tsWriting EXCEPT ![s] =
                   {[readable |-> TRUE, gen |-> tsGen + 1, cluster |-> cluster, n |-> r.n_mutations,
                     parent |-> parent, child |-> child]}]
    BY <1>3 DEF BeginGeneration
  <2> PICK child \in mutate_cluster(parent, cluster, r.n_mutations) :
           tsWriting' = [tsWriting EXCEPT ![s] =
               {[readable |-> TRUE, gen |-> tsGen + 1, cluster |-> cluster, n |-> r.n_mutations,
                 parent |-> parent, child |-> child]}]
    BY <2>1
  <2>2. tsFile' = NoGeneration /\ tsBest' = tsBest /\ tsRun' = tsRun
    BY <1>3 DEF BeginGeneration
  <2>3. DOMAIN parent = Fields /\ Legal(parent) /\ r.n_mutations \in Nat
    BY DefaultsLegal, SearchAssumption DEF Fields
  <2>4. /\ DOMAIN child = Fields /\ Legal(child)
        /\ {f \in Fields : child[f] # parent[f]} \subseteq ClusterMap[cluster]
        /\ Cardinality({f \in Fields : child[f] # parent[f]}) <= r.n_mutations
    BY <2>3, ChildrenAreSound
  <2> DEFINE g == [readable |-> TRUE, gen |-> tsGen + 1, cluster |-> cluster, n |-> r.n_mutations,
                   parent |-> parent, child |-> child]
  <2>5. Sound(g)
    <3>1. g.child = child /\ g.parent = parent /\ g.cluster = cluster /\ g.n = r.n_mutations
      OBVIOUS
    <3> HIDE DEF g
    <3>2. Changed(g) = {f \in Fields : child[f] # parent[f]}
      BY <3>1 DEF Changed, Fields
    <3> QED BY <2>4, <3>1, <3>2 DEF Sound
  <2>6. ~NoGeneration.readable
    BY DEF NoGeneration
  <2> HIDE DEF g
  <2>7. tsWriting' = [tsWriting EXCEPT ![s] = {g}]
    BY DEF g
  <2> QED BY <2>2, <2>5, <2>6, <2>7
<1>4. ASSUME NEW s \in Searcher, EndGeneration(s) PROVE SearchInv'
  <2>1. PICK g \in tsWriting[s] : tsFile' = g \/ tsFile' = NoGeneration
    BY <1>4 DEF EndGeneration
  <2>2. tsWriting' = [tsWriting EXCEPT ![s] = {}] /\ tsBest' = tsBest /\ tsRun' = tsRun
    BY <1>4 DEF EndGeneration
  <2>3. ~NoGeneration.readable
    BY DEF NoGeneration
  <2> QED BY <2>1, <2>2, <2>3
<1>5. ASSUME NEW s \in Searcher, SearcherDies(s) PROVE SearchInv'
  BY <1>5 DEF SearcherDies
<1>6. CASE StartRun
  BY <1>6 DEF StartRun
<1>7. CASE FinishRun
  <2>1. tsBest' = tsBest \/ \E g \in tsRun : tsBest' = g.child
    BY <1>7 DEF FinishRun
  <2>2. tsRun' = {} /\ tsWriting' = tsWriting /\ tsFile' = tsFile
    BY <1>7 DEF FinishRun
  <2> QED BY <2>1, <2>2 DEF Sound
<1> QED BY <1>1, <1>2, <1>3, <1>4, <1>5, <1>6, <1>7 DEF SearchNext

\* GenerationSound for any draws, requests, searchers, deaths and chains of accepted
\* candidates: mutate_cluster touches only the fields it drew, and mutate_field keeps
\* what breaks a constraint out.
THEOREM GenerationsAreSound == SearchSpec => []GenerationSound
<1>1. SearchInit => SearchInv
  <2>1. ~NoGeneration.readable
    BY DEF NoGeneration
  <2> QED BY <2>1, DefaultsLegal DEF SearchInit, SearchInv, Fields
<1>2. SearchInv => GenerationSound
  BY DEF SearchInv, GenerationSound, Sound
<1> QED BY <1>1, <1>2, SearchKeeps, PTL DEF SearchSpec
=============================================================================
