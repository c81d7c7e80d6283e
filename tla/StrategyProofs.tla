--------------------------- MODULE StrategyProofs ---------------------------
(***************************************************************************)
(* Proofs about the two managers of an open trade.                         *)
(*                                                                         *)
(* app/services/position_manager.py (OpenPosition): for every setup and    *)
(* every sequence of bars, the state stays well formed, profit once locked *)
(* stays locked, no bar moves the stop backwards, and an account that only *)
(* applies the actions holds what process_bar believes it holds.           *)
(*                                                                         *)
(* app/domain/rsi_trend_backtest.py (RsiBacktest): whatever the market     *)
(* does, no trade loses more than its risk, and its stop only tightens.    *)
(***************************************************************************)
EXTENDS OpenPosition, RsiBacktest, TradingPlan, Induction, SequenceTheorems

-----------------------------------------------------------------------------
(* The harmonic position. *)

PosType ==
    /\ setup \in Setups
    /\ pos \in [stop : Int, bars : Nat, size : Int, hits : 0..3, ext : Int,
                reason : {"open", "stop", "time_stop", "tp3"}]

\* The size left goes with the targets behind the position.
SizeInv ==
    /\ pos.reason # "open" => pos.size = 0
    /\ pos.reason = "open" =>
          /\ pos.hits <= 2
          /\ pos.hits = 0 => pos.size = 10
          /\ pos.hits = 1 => pos.size = 5
          /\ pos.hits = 2 => pos.size = 2

\* Where the stop of a position with n targets behind it comes from: with one,
\* it is the entry or the Chandelier trail of the best price so far.  This is
\* what makes TP2's reset harmless: it replaces the first by TP1 and the ratchet
\* restores the second.
StopInv ==
    /\ pos.hits = 0 => pos.stop = setup.initial
    /\ pos.hits = 1 /\ pos.reason = "open" =>
          pos.stop = setup.entry \/ pos.stop = ChandelierStop(pos.ext)

PosInv == PosType /\ SizeInv /\ StopInv /\ ProfitLocked

\* What is known of the setup and the bar in every step.
LEMMA SetupFacts ==
    ASSUME PosType
    PROVE  /\ setup.bullish \in BOOLEAN
           /\ setup.entry \in Int /\ setup.initial \in Int
           /\ setup.tp1 \in Int /\ setup.tp2 \in Int /\ setup.tp3 \in Int
           /\ setup.trail \in Int
           /\ setup.bullish => setup.initial < setup.entry /\ setup.entry < setup.tp1
           /\ ~setup.bullish => setup.initial > setup.entry /\ setup.entry > setup.tp1
BY PositionAssumption DEF PosType, SetupOK

\* The ratchet is never behind the stop it is given nor behind the trail.
LEMMA RatchetIsAhead ==
    ASSUME PosType, NEW s \in Int, NEW e \in Int
    PROVE  /\ Ratchet(s, e) \in Int
           /\ AtLeast(Ratchet(s, e), s)
           /\ AtLeast(Ratchet(s, e), ChandelierStop(e))
           /\ Ratchet(s, e) = s \/ Ratchet(s, e) = ChandelierStop(e)
BY SetupFacts DEF Ratchet, AtLeast, Better, ChandelierStop

\* The running extreme of a position past TP1 never gets worse.
LEMMA ExtremeIsAhead ==
    ASSUME PosType, NEW b \in Bars
    PROVE  /\ RunningExtreme(b) \in Int
           /\ pos.hits # 0 => AtLeast(ChandelierStop(RunningExtreme(b)), ChandelierStop(pos.ext))
BY SetupFacts, PositionAssumption
   DEF RunningExtreme, AtLeast, Extreme, ChandelierStop, PosType

\* A bar that is ridden: what Ride does to pos, case by case.
LEMMA RideCases ==
    ASSUME PosType, NEW b \in Bars, Ride(b)
    PROVE  \E k \in 0..2 :
              /\ pos.hits <= k
              /\ \/ k = 0 /\ pos' = [pos EXCEPT !.bars = @ + 1]
                 \/ /\ k > 0
                    /\ pos' = [pos EXCEPT !.bars = @ + 1, !.hits = k,
                                  !.size = @ - TargetsSize(k),
                                  !.ext = RunningExtreme(b),
                                  !.stop = Ratchet(TargetStop(k), RunningExtreme(b))]
<1>1. PICK k \in 0..2 :
          /\ TargetsReached(b, k)
          /\ \/ k = 0 /\ pos' = [pos EXCEPT !.bars = @ + 1]
             \/ /\ k > 0
                /\ pos' = [pos EXCEPT !.bars = @ + 1, !.hits = k,
                              !.size = @ - TargetsSize(k),
                              !.ext = RunningExtreme(b),
                              !.stop = Ratchet(TargetStop(k), RunningExtreme(b))]
  BY DEF Ride
<1>2. pos.hits <= k
  BY <1>1 DEF TargetsReached, PosType
<1> QED BY <1>1, <1>2

\* The stop after a ridden bar that has k > 0 targets behind it.
LEMMA RideStop ==
    ASSUME PosInv, pos.reason = "open", NEW b \in Bars, NEW k \in 1..2, pos.hits <= k,
           NEW e, e = RunningExtreme(b), NEW s, s = Ratchet(TargetStop(k), e)
    PROVE  /\ s \in Int /\ e \in Int
           /\ AtLeast(s, pos.stop)
           /\ AtLeast(s, setup.entry)
           /\ k = 2 => AtLeast(s, setup.tp1)
           /\ k = 1 => s = setup.entry \/ s = ChandelierStop(e)
<1>1. PosType /\ SizeInv /\ StopInv /\ ProfitLocked
  BY DEF PosInv
<1>2. pos.hits \in 0..3 /\ pos.stop \in Int /\ pos.ext \in Int
  BY <1>1 DEF PosType
<1>3. e \in Int /\ (pos.hits # 0 => AtLeast(ChandelierStop(e), ChandelierStop(pos.ext)))
  BY <1>1, ExtremeIsAhead
<1>4. TargetStop(k) \in Int
  BY <1>1, <1>2, SetupFacts DEF TargetStop, StopAfter
<1>5. /\ s \in Int
      /\ AtLeast(s, TargetStop(k))
      /\ AtLeast(s, ChandelierStop(e))
      /\ s = TargetStop(k) \/ s = ChandelierStop(e)
  BY <1>1, <1>3, <1>4, RatchetIsAhead
<1>6. AtLeast(s, pos.stop)
  <2>1. CASE pos.hits = 0
    BY <2>1, <1>1, <1>2, <1>5, SetupFacts DEF StopInv, TargetStop, StopAfter, AtLeast
  <2>2. CASE pos.hits = 1 /\ k = 2
    BY <2>2, <1>1, <1>2, <1>3, <1>5, SetupFacts
       DEF StopInv, TargetStop, StopAfter, AtLeast, ChandelierStop
  <2>3. CASE pos.hits = k
    BY <2>3, <1>2, <1>5 DEF TargetStop
  <2> QED BY <2>1, <2>2, <2>3, <1>2
<1>7. AtLeast(s, setup.entry) /\ (k = 2 => AtLeast(s, setup.tp1))
  BY <1>1, <1>2, <1>5, SetupFacts DEF ProfitLocked, TargetStop, StopAfter, AtLeast
<1>8. k = 1 => s = setup.entry \/ s = ChandelierStop(e)
  <2>1. CASE pos.hits = 0
    BY <2>1, <1>5 DEF TargetStop, StopAfter
  <2>2. CASE pos.hits = 1 /\ k = 1
    <3>1. TargetStop(k) = pos.stop
      BY <2>2 DEF TargetStop
    <3>2. pos.stop = setup.entry \/ pos.stop = ChandelierStop(pos.ext)
      BY <2>2, <1>1 DEF StopInv
    <3> QED
      BY <3>1, <3>2, <1>1, <1>2, <1>3, <1>5, <2>2, SetupFacts DEF AtLeast, ChandelierStop
  <2> QED BY <2>1, <2>2, <1>2
<1> QED BY <1>3, <1>5, <1>6, <1>7, <1>8

\* A ridden bar keeps the invariant and does not move the stop backwards.
LEMMA RideKeeps ==
    ASSUME PosInv, NEW b \in Bars, Ride(b)
    PROVE  PosInv' /\ AtLeast(pos'.stop, pos.stop)
<1>1. PosType /\ SizeInv /\ StopInv /\ ProfitLocked
  BY DEF PosInv
<1>2. pos.reason = "open" /\ UNCHANGED setup
  BY DEF Ride
<1>3. PICK k \in 0..2 :
          /\ pos.hits <= k
          /\ \/ k = 0 /\ pos' = [pos EXCEPT !.bars = @ + 1]
             \/ /\ k > 0
                /\ pos' = [pos EXCEPT !.bars = @ + 1, !.hits = k,
                              !.size = @ - TargetsSize(k),
                              !.ext = RunningExtreme(b),
                              !.stop = Ratchet(TargetStop(k), RunningExtreme(b))]
  BY <1>1, RideCases
<1>4. CASE k = 0
  <2>1. pos' = [pos EXCEPT !.bars = @ + 1]
    BY <1>3, <1>4
  <2> QED
    BY <2>1, <1>1, <1>2, SetupFacts
       DEF PosInv, PosType, SizeInv, StopInv, ProfitLocked, AtLeast, ChandelierStop
<1>5. CASE k > 0
  <2>1. PICK e, s, z : /\ e = RunningExtreme(b)
                       /\ s = Ratchet(TargetStop(k), e)
                       /\ z = pos.size - TargetsSize(k)
    OBVIOUS
  <2>2. pos' = [pos EXCEPT !.bars = @ + 1, !.hits = k, !.size = z, !.ext = e, !.stop = s]
    BY <1>3, <1>5, <2>1
  <2>3. /\ s \in Int /\ e \in Int
        /\ AtLeast(s, pos.stop)
        /\ AtLeast(s, setup.entry)
        /\ k = 2 => AtLeast(s, setup.tp1)
        /\ k = 1 => s = setup.entry \/ s = ChandelierStop(e)
    BY <2>1, <1>2, <1>3, <1>5, RideStop
  <2>4. z \in Int /\ (k = 1 => z = 5) /\ (k = 2 => z = 2)
    BY <2>1, <1>1, <1>2, <1>3, <1>5 DEF SizeInv, PosType, TargetsSize, TpSize
  <2>5. /\ pos'.stop = s /\ pos'.hits = k /\ pos'.size = z /\ pos'.ext = e
        /\ pos'.reason = "open" /\ pos'.bars = pos.bars + 1
    BY <2>2, <1>1, <1>2 DEF PosType
  <2>6. PosType'
    <3>1. setup' \in Setups
      BY <1>1, <1>2 DEF PosType
    <3>2. k \in 0..3
      BY <1>3
    <3>3. pos.bars + 1 \in Nat
      BY <1>1 DEF PosType
    <3>4. pos' = [stop |-> s, bars |-> pos.bars + 1, size |-> z, hits |-> k, ext |-> e,
                  reason |-> "open"]
      BY <2>2, <1>1, <1>2 DEF PosType
    <3> QED BY <2>3, <2>4, <3>1, <3>2, <3>3, <3>4 DEF PosType
  <2>7. SizeInv'
    BY <2>4, <2>5, <1>5 DEF SizeInv
  <2>8. StopInv' /\ ProfitLocked'
    BY <2>3, <2>5, <1>2, <1>5 DEF StopInv, ProfitLocked, AtLeast, ChandelierStop
  <2>9. AtLeast(pos'.stop, pos.stop)
    BY <2>3, <2>5
  <2> QED BY <2>6, <2>7, <2>8, <2>9 DEF PosInv
<1> QED BY <1>3, <1>4, <1>5

\* The invariant holds at first and is kept by every bar.
LEMMA PosInvInit == PositionInit => PosInv
<1> SUFFICES ASSUME PositionInit PROVE PosInv
  OBVIOUS
<1>1. PosType
  BY PositionAssumption DEF PositionInit, PosType, SetupOK, None
<1> QED
  BY <1>1, SetupFacts DEF PosInv, PositionInit, SizeInv, StopInv, ProfitLocked

LEMMA PosInvNext == PosInv /\ [PositionNext]_posVars => PosInv'
<1> SUFFICES ASSUME PosInv, [PositionNext]_posVars PROVE PosInv'
  OBVIOUS
<1> USE DEF PosInv
<1>1. ASSUME NEW b \in Bars, StopOut(b) \/ TimeStop(b)
      PROVE  PosInv'
  <2>1. pos.reason = "open" /\ UNCHANGED setup
    BY <1>1 DEF StopOut, TimeStop
  <2>2. PICK r \in {"stop", "time_stop"} :
           pos' = [pos EXCEPT !.bars = @ + 1, !.size = 0, !.reason = r]
    BY <1>1 DEF StopOut, TimeStop, Close
  <2>3. PosType'
    <3>1. /\ pos.stop \in Int /\ pos.bars + 1 \in Nat /\ pos.hits \in 0..3 /\ pos.ext \in Int
          /\ setup' \in Setups
      BY <2>1 DEF PosType
    <3>2. pos' = [stop |-> pos.stop, bars |-> pos.bars + 1, size |-> 0, hits |-> pos.hits,
                  ext |-> pos.ext, reason |-> r]
      BY <2>2 DEF PosType
    <3> QED BY <3>1, <3>2 DEF PosType
  <2>4. pos'.stop = pos.stop /\ pos'.hits = pos.hits /\ pos'.size = 0 /\ pos'.reason = r
    BY <2>2 DEF PosType
  <2> QED
    BY <2>1, <2>2, <2>3, <2>4 DEF SizeInv, StopInv, ProfitLocked, AtLeast
<1>2. ASSUME NEW b \in Bars, FullTarget(b)
      PROVE  PosInv'
  <2>1. pos.reason = "open" /\ UNCHANGED setup
    BY <1>2 DEF FullTarget
  <2>2. PICK e, s : /\ s = IF pos.hits < 2 THEN StopAfter(2) ELSE pos.stop
                    /\ e = IF pos.hits = 0 THEN Extreme(b) ELSE pos.ext
    OBVIOUS
  <2>3. pos' = [pos EXCEPT !.bars = @ + 1, !.size = 0, !.reason = "tp3", !.hits = 3,
                           !.stop = s, !.ext = e]
    BY <1>2, <2>2 DEF FullTarget, PosType
  <2>4. s \in Int /\ e \in Int /\ AtLeast(s, setup.tp1) /\ AtLeast(s, setup.entry)
    BY <2>1, <2>2, SetupFacts, PositionAssumption
       DEF PosType, SizeInv, ProfitLocked, StopAfter, AtLeast, Extreme
  <2>5. pos'.hits = 3 /\ pos'.stop = s /\ pos'.size = 0 /\ pos'.reason = "tp3"
    BY <2>3 DEF PosType
  <2>6. PosType'
    <3>1. pos.bars + 1 \in Nat /\ setup' \in Setups
      BY <2>1 DEF PosType
    <3>2. pos' = [stop |-> s, bars |-> pos.bars + 1, size |-> 0, hits |-> 3, ext |-> e,
                  reason |-> "tp3"]
      BY <2>3 DEF PosType
    <3> QED BY <2>4, <3>1, <3>2 DEF PosType
  <2> QED
    BY <2>1, <2>4, <2>5, <2>6 DEF SizeInv, StopInv, ProfitLocked, AtLeast
<1>3. ASSUME NEW b \in Bars, Ride(b)
      PROVE  PosInv'
  BY <1>3, RideKeeps
<1>4. ASSUME NEW b \in Bars, StayClosed(b)
      PROVE  PosInv'
  BY <1>4 DEF StayClosed, PosType, SizeInv, StopInv, ProfitLocked, AtLeast, ChandelierStop
<1>5. CASE UNCHANGED posVars
  BY <1>5 DEF posVars, PosType, SizeInv, StopInv, ProfitLocked, AtLeast, ChandelierStop
<1> QED
  BY <1>1, <1>2, <1>3, <1>4, <1>5 DEF PositionNext

\* process_bar always returns a well-formed state: sizes between none and all, a
\* close_reason exactly when nothing is left.
THEOREM PositionTypeCorrect == PositionSpec => []PositionTypeOK
<1>1. PosInv => PositionTypeOK
  BY DEF PosInv, PosType, SizeInv, PositionTypeOK
<1> QED
  BY <1>1, PosInvInit, PosInvNext, PTL DEF PositionSpec

\* After TP1 the stop stays at or beyond the entry, after TP2 at or beyond TP1,
\* for every setup and every sequence of bars.
THEOREM PositionLocksProfit == PositionSpec => []ProfitLocked
<1>1. PosInv => ProfitLocked
  BY DEF PosInv
<1> QED
  BY <1>1, PosInvInit, PosInvNext, PTL DEF PositionSpec

\* No bar that leaves the position open moves its stop backwards.
THEOREM PositionStopAdvances == PositionSpec => StopNeverRetreats
<1>1. PosInv /\ [PositionNext]_posVars =>
          [pos'.reason = "open" => AtLeast(pos'.stop, pos.stop)]_posVars
  <2> SUFFICES ASSUME PosInv, PositionNext, pos'.reason = "open"
               PROVE  AtLeast(pos'.stop, pos.stop)
    OBVIOUS
  <2>1. PICK b \in Bars :
           StopOut(b) \/ TimeStop(b) \/ FullTarget(b) \/ Ride(b) \/ StayClosed(b)
    BY DEF PositionNext
  <2>2. CASE Ride(b)
    BY <2>2, RideKeeps
  <2>3. CASE StopOut(b) \/ TimeStop(b) \/ FullTarget(b)
    BY <2>3 DEF StopOut, TimeStop, FullTarget, Close, PosInv, PosType
  <2>4. CASE StayClosed(b)
    BY <2>4 DEF StayClosed
  <2> QED BY <2>1, <2>2, <2>3, <2>4
<1> QED
  BY <1>1, PosInvInit, PosInvNext, PTL DEF PositionSpec, StopNeverRetreats

-----------------------------------------------------------------------------
(* The account that carries out the actions of the harmonic position. *)

\* What an account holds, and the shape of an action.
Account == [stop : Int, size : Int]
Action == [type : {"hold", "close_all", "close_partial", "move_stop"}, size : Int, stop : Int]

LEMMA AppliedOnce ==
    ASSUME NEW acc \in Account, NEW a \in Action
    PROVE  /\ ApplyAct(acc, a) \in Account
           /\ a.type = "hold" => ApplyAct(acc, a) = acc
           /\ a.type = "close_all" => ApplyAct(acc, a) = [stop |-> acc.stop, size |-> 0]
           /\ a.type = "close_partial" => ApplyAct(acc, a) = [stop |-> acc.stop, size |-> acc.size - a.size]
           /\ a.type = "move_stop" => ApplyAct(acc, a) = [stop |-> a.stop, size |-> acc.size]
BY DEF ApplyAct, Account, Action

\* held is what the account holds after each of the actions s.
Holds(acc, s, held) ==
    /\ held \in [0 .. Len(s) -> Account]
    /\ held[0] = acc
    /\ \A n \in 1 .. Len(s) : held[n] = ApplyAct(held[n - 1], s[n])

LEMMA AppliedIsHeld ==
    ASSUME NEW acc \in Account, NEW s \in Seq(Action)
    PROVE  \E held : Holds(acc, s, held) /\ Applied(acc, s) = held[Len(s)]
<1> DEFINE N == Len(s)
           h == [n \in 1 .. N |-> [x \in Account |-> ApplyAct(x, s[n])]]
<1>1. N \in Nat /\ \A n \in 1 .. N : s[n] \in Action
  BY ElementOfSeq, LenProperties
<1> HIDE DEF N
<1>2. ASSUME NEW n \in 1 .. N, NEW x \in Account
      PROVE  h[n][x] = ApplyAct(x, s[n]) /\ ApplyAct(x, s[n]) \in Account
  BY <1>1, AppliedOnce
<1>3. PICK f \in [0 .. N -> Account] : Iterates(f, N, acc, h)
  <2>1. \A n \in 1 .. N : \A x \in Account : h[n][x] \in Account
    BY <1>2
  <2> HIDE DEF h
  <2> QED BY <1>1, <2>1, Recursion
<1>4. f[0] = acc /\ \A n \in 1 .. N : f[n] = ApplyAct(f[n - 1], s[n])
  <2>1. \A n \in 1 .. N : n - 1 \in 0 .. N
    BY <1>1
  <2> HIDE DEF h
  <2> QED BY <1>2, <1>3, <2>1 DEF Iterates
<1>5. f = [n \in 0 .. N |-> IF n = 0 THEN acc ELSE ApplyAct(f[n - 1], s[n])]
  BY <1>1, <1>4
<1> DEFINE g == CHOOSE g : g = [n \in 0 .. N |-> IF n = 0 THEN acc ELSE ApplyAct(g[n - 1], s[n])]
<1>6. g = [n \in 0 .. N |-> IF n = 0 THEN acc ELSE ApplyAct(g[n - 1], s[n])]
  BY <1>5
<1>7. Applied(acc, s) = g[N]
  BY DEF Applied, N
<1> HIDE DEF g
<1>8. g[0] = acc /\ \A n \in 1 .. N : g[n] = ApplyAct(g[n - 1], s[n])
  BY <1>1, <1>6
<1>9. g \in [0 .. N -> Account]
  <2> DEFINE A == {n \in 0 .. N : g[n] \in Account}
  <2>1. 0 \in A
    BY <1>1, <1>8
  <2>2. ASSUME NEW n \in 1 .. N, n - 1 \in A PROVE n \in A
    BY <1>1, <1>2, <1>8, <2>2
  <2>3. 0 .. N \subseteq A
    <3> HIDE DEF A
    <3> QED BY <1>1, <2>1, <2>2, IntervalInduction
  <2> QED BY <1>6, <2>3
<1> QED BY <1>7, <1>8, <1>9 DEF Holds, N

LEMMA AppliedNone ==
    ASSUME NEW acc \in Account
    PROVE  Applied(acc, <<>>) = acc
<1>1. <<>> \in Seq(Action) /\ Len(<<>>) = 0
  OBVIOUS
<1>2. PICK held : Holds(acc, <<>>, held) /\ Applied(acc, <<>>) = held[Len(<<>>)]
  BY <1>1, AppliedIsHeld
<1> QED BY <1>1, <1>2 DEF Holds

\* Actions after actions.
LEMMA AppliedConcat ==
    ASSUME NEW acc \in Account, NEW s \in Seq(Action), NEW t \in Seq(Action)
    PROVE  /\ Applied(acc, s) \in Account
           /\ Applied(acc, s \o t) = Applied(Applied(acc, s), t)
<1> DEFINE N == Len(s)  M == Len(t)  u == s \o t
<1>1. N \in Nat /\ M \in Nat /\ u \in Seq(Action) /\ Len(u) = N + M
  BY ConcatProperties, LenProperties
<1>2. \A n \in 1 .. N : u[n] = s[n]
  BY ConcatProperties, LenProperties
<1>3. \A m \in 1 .. M : u[N + m] = t[m]
  <2> SUFFICES ASSUME NEW m \in 1 .. M PROVE u[N + m] = t[m]
    OBVIOUS
  <2>1. N + m \in 1 .. N + M /\ ~(N + m <= N) /\ (N + m) - N = m
    BY <1>1
  <2> QED BY <2>1, ConcatProperties
<1>4. PICK f : Holds(acc, s, f) /\ Applied(acc, s) = f[N]
  BY AppliedIsHeld
<1>5. PICK g : Holds(acc, u, g) /\ Applied(acc, u) = g[N + M]
  <2> HIDE DEF u
  <2> QED BY <1>1, AppliedIsHeld
<1>6. f \in [0 .. N -> Account] /\ f[0] = acc /\ \A n \in 1 .. N : f[n] = ApplyAct(f[n - 1], s[n])
  BY <1>4 DEF Holds
<1>7. Applied(acc, s) \in Account
  BY <1>1, <1>4, <1>6
<1>8. PICK k : Holds(f[N], t, k) /\ Applied(f[N], t) = k[M]
  BY <1>4, <1>7, AppliedIsHeld
<1>9. k[0] = f[N] /\ \A m \in 1 .. M : k[m] = ApplyAct(k[m - 1], t[m])
  BY <1>8 DEF Holds
<1>10. g[0] = acc /\ \A n \in 1 .. N + M : g[n] = ApplyAct(g[n - 1], u[n])
  BY <1>1, <1>5 DEF Holds
<1> HIDE DEF N, M, u
<1> DEFINE A == {n \in 0 .. N : f[n] = g[n]}
           B == {m \in 0 .. M : k[m] = g[N + m]}
<1>11. 0 .. N \subseteq A
  <2>1. 0 \in A
    BY <1>1, <1>6, <1>10
  <2>2. ASSUME NEW n \in 1 .. N, n - 1 \in A PROVE n \in A
    <3>1. n \in 1 .. N + M /\ n \in 0 .. N
      BY <1>1
    <3> QED BY <1>2, <1>6, <1>10, <2>2, <3>1
  <2> HIDE DEF A
  <2> QED BY <1>1, <2>1, <2>2, IntervalInduction
<1>12. 0 .. M \subseteq B
  <2>1. 0 \in B
    BY <1>1, <1>9, <1>11
  <2>2. ASSUME NEW m \in 1 .. M, m - 1 \in B PROVE m \in B
    <3>1. N + m \in 1 .. N + M /\ (N + m) - 1 = N + (m - 1) /\ m \in 0 .. M
      BY <1>1
    <3> QED BY <1>3, <1>9, <1>10, <2>2, <3>1
  <2> HIDE DEF B
  <2> QED BY <1>1, <2>1, <2>2, IntervalInduction
<1>13. k[M] = g[N + M]
  BY <1>1, <1>12
<1> QED BY <1>4, <1>5, <1>7, <1>8, <1>13 DEF u

LEMMA AppliedOne ==
    ASSUME NEW acc \in Account, NEW a \in Action
    PROVE  Applied(acc, <<a>>) = ApplyAct(acc, a)
<1>1. <<a>> \in Seq(Action) /\ Len(<<a>>) = 1 /\ <<a>>[1] = a
  OBVIOUS
<1>2. PICK held : Holds(acc, <<a>>, held) /\ Applied(acc, <<a>>) = held[Len(<<a>>)]
  BY <1>1, AppliedIsHeld
<1>3. held[0] = acc /\ held[1] = ApplyAct(held[1 - 1], <<a>>[1])
  BY <1>1, <1>2 DEF Holds
<1> QED BY <1>1, <1>2, <1>3

\* A stop that is moved, if it is a new one, is where the account holds it.
LEMMA AppliedMove ==
    ASSUME NEW old \in Int, NEW new \in Int, NEW z \in Int
    PROVE  /\ MoveIfNew(old, new) \in Seq(Action)
           /\ Applied([stop |-> old, size |-> z], MoveIfNew(old, new)) = [stop |-> new, size |-> z]
<1> DEFINE acc == [stop |-> old, size |-> z]
<1>1. MoveStop(new) \in Action /\ MoveStop(new).type = "move_stop" /\ MoveStop(new).stop = new
  BY DEF MoveStop, Action
<1>2. acc \in Account /\ acc.stop = old /\ acc.size = z
  BY DEF Account
<1> HIDE DEF acc
<1>3. CASE new = old
  <2>1. MoveIfNew(old, new) = <<>>
    BY <1>3 DEF MoveIfNew
  <2> QED BY <1>2, <1>3, <2>1, AppliedNone DEF acc
<1>4. CASE new # old
  <2>1. MoveIfNew(old, new) = <<MoveStop(new)>>
    BY <1>4 DEF MoveIfNew
  <2>2. Applied(acc, <<MoveStop(new)>>) = [stop |-> new, size |-> z]
    BY <1>1, <1>2, AppliedOne, AppliedOnce
  <2> QED BY <1>1, <2>1, <2>2 DEF acc
<1> QED BY <1>3, <1>4

\* The actions of one target, on an account that holds the stop and size before it.
LEMMA TargetTaken ==
    ASSUME PosInv, NEW j \in 1 .. 3, NEW z \in Int, NEW old \in Int,
           old = IF j = pos.hits + 1 THEN pos.stop ELSE StopAfter(j - 1)
    PROVE  /\ TargetActs(j) \in Seq(Action)
           /\ Applied([stop |-> old, size |-> z], TargetActs(j)) =
                  IF j = 3 THEN [stop |-> old, size |-> 0]
                           ELSE [stop |-> StopAfter(j), size |-> z - TpSize(j)]
<1> DEFINE acc == [stop |-> old, size |-> z]
           y == z - TpSize(j)
           mid == [stop |-> old, size |-> y]
           rest == IF j = 3 THEN <<CloseAll>> ELSE MoveIfNew(old, StopAfter(j))
<1>1. TpSize(j) \in Int /\ y \in Int
  BY DEF TpSize
<1>2. /\ ClosePartial(j) \in Action /\ ClosePartial(j).type = "close_partial"
      /\ ClosePartial(j).size = TpSize(j)
  BY <1>1 DEF ClosePartial, Action
<1>3. acc \in Account /\ acc.stop = old /\ acc.size = z /\ mid \in Account /\ mid.stop = old
  BY <1>1 DEF Account
<1>4. CloseAll \in Action /\ CloseAll.type = "close_all"
  BY DEF CloseAll, Action
<1>5. TargetActs(j) = <<ClosePartial(j)>> \o rest
  BY DEF TargetActs
<1> HIDE DEF acc, y, mid
<1>6. Applied(acc, <<ClosePartial(j)>>) = mid
  <2>1. ApplyAct(acc, ClosePartial(j)) = mid
    BY <1>2, <1>3, AppliedOnce DEF mid, y
  <2> QED BY <1>2, <1>3, <2>1, AppliedOne
<1>7. rest \in Seq(Action) /\ Applied(mid, rest) = IF j = 3 THEN [stop |-> old, size |-> 0] ELSE [stop |-> StopAfter(j), size |-> y]
  <2>1. CASE j = 3
    <3>1. rest = <<CloseAll>> /\ <<CloseAll>> \in Seq(Action)
      BY <1>4, <2>1
    <3>2. Applied(mid, <<CloseAll>>) = [stop |-> old, size |-> 0]
      BY <1>3, <1>4, AppliedOne, AppliedOnce
    <3> QED BY <2>1, <3>1, <3>2
  <2>2. CASE j # 3
    <3>1. rest = MoveIfNew(old, StopAfter(j))
      BY <2>2
    <3>2. StopAfter(j) \in Int
      BY SetupFacts DEF StopAfter, PosInv
    <3>3. MoveIfNew(old, StopAfter(j)) \in Seq(Action) /\ Applied(mid, MoveIfNew(old, StopAfter(j))) = [stop |-> StopAfter(j), size |-> y]
      BY <1>1, <3>2, AppliedMove DEF mid
    <3> QED BY <2>2, <3>1, <3>3
  <2> QED BY <2>1, <2>2
<1>8. <<ClosePartial(j)>> \in Seq(Action)
  BY <1>2
<1> HIDE DEF rest
<1>9. TargetActs(j) \in Seq(Action)
  BY <1>5, <1>7, <1>8, ConcatProperties
<1>10. Applied(acc, <<ClosePartial(j)>> \o rest) = Applied(Applied(acc, <<ClosePartial(j)>>), rest)
  BY <1>3, <1>7, <1>8, AppliedConcat
<1> QED BY <1>5, <1>6, <1>7, <1>9, <1>10 DEF acc, y

\* The actions of all targets of a bar.
StopNow(k) == IF k = 3 THEN IF pos.hits < 2 THEN StopAfter(2) ELSE pos.stop ELSE TargetStop(k)
SizeNow(k) == IF k = 3 THEN 0 ELSE pos.size - TargetsSize(k)

LEMMA TargetsTaken ==
    ASSUME PosInv, pos.reason = "open", NEW k \in pos.hits .. 3
    PROVE  /\ TargetsActs(k) \in Seq(Action)
           /\ Applied([stop |-> pos.stop, size |-> pos.size], TargetsActs(k)) = [stop |-> StopNow(k), size |-> SizeNow(k)]
           /\ StopNow(k) \in Int /\ SizeNow(k) \in Int
<1> DEFINE s1 == IF pos.hits < 1 /\ k >= 1 THEN TargetActs(1) ELSE <<>>
           s2 == IF pos.hits < 2 /\ k >= 2 THEN TargetActs(2) ELSE <<>>
           s3 == IF pos.hits < 3 /\ k >= 3 THEN TargetActs(3) ELSE <<>>
           p1 == IF pos.hits < 1 /\ k >= 1 THEN StopAfter(1) ELSE pos.stop
           z1 == IF pos.hits < 1 /\ k >= 1 THEN pos.size - 5 ELSE pos.size
           p2 == IF pos.hits < 2 /\ k >= 2 THEN StopAfter(2) ELSE p1
           z2 == IF pos.hits < 2 /\ k >= 2 THEN z1 - 3 ELSE z1
           acc0 == [stop |-> pos.stop, size |-> pos.size]
           acc1 == [stop |-> p1, size |-> z1]
           acc2 == [stop |-> p2, size |-> z2]
           acc3 == [stop |-> StopNow(k), size |-> SizeNow(k)]
<1>1. pos.hits \in 0 .. 2 /\ pos.stop \in Int /\ pos.size \in Int /\ k \in 0 .. 3 /\ k >= pos.hits
  BY DEF PosInv, PosType, SizeInv
<1>2. StopAfter(1) \in Int /\ StopAfter(2) \in Int
  BY SetupFacts DEF StopAfter, PosInv
<1>3. p1 \in Int /\ z1 \in Int /\ p2 \in Int /\ z2 \in Int
  BY <1>1, <1>2
<1>4. StopNow(k) = p2 /\ SizeNow(k) = IF k = 3 THEN 0 ELSE z2
  BY <1>1 DEF StopNow, SizeNow, TargetStop, TargetsSize, TpSize
<1>5. acc0 \in Account /\ acc1 \in Account /\ acc2 \in Account /\ <<>> \in Seq(Action)
  BY <1>1, <1>3 DEF Account
<1>6. s1 \in Seq(Action) /\ Applied(acc0, s1) = acc1
  <2>1. CASE pos.hits < 1 /\ k >= 1
    <3>1. s1 = TargetActs(1) /\ p1 = StopAfter(1) /\ z1 = pos.size - 5 /\ pos.hits = 0
      BY <1>1, <2>1
    <3>2. TargetActs(1) \in Seq(Action) /\ Applied(acc0, TargetActs(1)) = [stop |-> StopAfter(1), size |-> pos.size - TpSize(1)]
      BY <1>1, <3>1, TargetTaken
    <3> QED BY <3>1, <3>2 DEF TpSize
  <2>2. CASE ~(pos.hits < 1 /\ k >= 1)
    <3>1. s1 = <<>> /\ acc1 = acc0
      BY <2>2
    <3> QED BY <1>5, <3>1, AppliedNone
  <2> QED BY <2>1, <2>2
<1>7. s2 \in Seq(Action) /\ Applied(acc1, s2) = acc2
  <2>1. CASE pos.hits < 2 /\ k >= 2
    <3>1. s2 = TargetActs(2) /\ p2 = StopAfter(2) /\ z2 = z1 - 3 /\ p1 = IF 2 = pos.hits + 1 THEN pos.stop ELSE StopAfter(2 - 1)
      BY <1>1, <2>1
    <3> HIDE DEF p1, z1
    <3>2. TargetActs(2) \in Seq(Action) /\ Applied(acc1, TargetActs(2)) = [stop |-> StopAfter(2), size |-> z1 - TpSize(2)]
      BY <1>3, <3>1, TargetTaken
    <3> QED BY <3>1, <3>2 DEF TpSize
  <2>2. CASE ~(pos.hits < 2 /\ k >= 2)
    <3>1. s2 = <<>> /\ acc2 = acc1
      BY <2>2
    <3> QED BY <1>5, <3>1, AppliedNone
  <2> QED BY <2>1, <2>2
<1>8. s3 \in Seq(Action) /\ Applied(acc2, s3) = acc3
  <2>1. CASE k = 3
    <3>1. s3 = TargetActs(3) /\ StopNow(k) = p2 /\ SizeNow(k) = 0 /\ p2 = IF 3 = pos.hits + 1 THEN pos.stop ELSE StopAfter(3 - 1)
      BY <1>1, <1>4, <2>1
    <3> HIDE DEF p2, z2
    <3>2. TargetActs(3) \in Seq(Action) /\ Applied(acc2, TargetActs(3)) = [stop |-> p2, size |-> 0]
      BY <1>3, <3>1, TargetTaken
    <3> QED BY <3>1, <3>2
  <2>2. CASE k # 3
    <3>1. s3 = <<>> /\ acc3 = acc2
      BY <1>1, <1>4, <2>2
    <3> QED BY <1>5, <3>1, AppliedNone
  <2> QED BY <2>1, <2>2
<1>9. TargetsActs(k) = s1 \o s2 \o s3
  BY DEF TargetsActs
<1> HIDE DEF s1, s2, s3, acc0, acc1, acc2, acc3
<1>10. s1 \o s2 \in Seq(Action) /\ Applied(acc0, s1 \o s2) = acc2
  BY <1>5, <1>6, <1>7, AppliedConcat, ConcatProperties
<1>11. s1 \o s2 \o s3 \in Seq(Action) /\ Applied(acc0, s1 \o s2 \o s3) = acc3
  BY <1>5, <1>8, <1>10, AppliedConcat, ConcatProperties
<1>12. StopNow(k) \in Int /\ SizeNow(k) \in Int
  BY <1>3, <1>4
<1> QED BY <1>9, <1>11, <1>12 DEF acc0, acc3

LEMMA AccountKeeps ==
    ASSUME PosInv, BrokerAgrees, NEW b \in Bars, StopOut(b) \/ TimeStop(b) \/ FullTarget(b) \/ Ride(b) \/ StayClosed(b)
    PROVE  BrokerAgrees'
<1> DEFINE acc == [stop |-> pos.stop, size |-> pos.size]
<1>1. broker = acc /\ pos \in [stop : Int, bars : Nat, size : Int, hits : 0..3, ext : Int, reason : {"open", "stop", "time_stop", "tp3"}]
  BY DEF BrokerAgrees, PosInv, PosType
<1>2. acc \in Account /\ acc.stop = pos.stop /\ acc.size = pos.size
  BY <1>1 DEF Account
<1>3. /\ Hold \in Action /\ Hold.type = "hold" /\ CloseAll \in Action /\ CloseAll.type = "close_all"
      /\ <<Hold>> \in Seq(Action)
  BY DEF Hold, CloseAll, Action
<1>4. Applied(acc, <<CloseAll>>) = [stop |-> pos.stop, size |-> 0] /\ Applied(acc, <<Hold>>) = acc
  <2> HIDE DEF acc
  <2> QED BY <1>2, <1>3, AppliedOne, AppliedOnce
<1>5. CASE StopOut(b) \/ TimeStop(b)
  <2>1. pos'.stop = pos.stop /\ pos'.size = 0 /\ broker' = Applied(acc, <<CloseAll>>)
    BY <1>1, <1>5 DEF StopOut, TimeStop, Close, Emit
  <2> QED BY <1>4, <2>1 DEF BrokerAgrees
<1>6. CASE FullTarget(b)
  <2>1. pos'.stop = StopNow(3) /\ pos'.size = SizeNow(3) /\ broker' = Applied(acc, TargetsActs(3)) /\ pos.reason = "open"
    BY <1>1, <1>6 DEF FullTarget, Emit, StopNow, SizeNow
  <2>2. 3 \in pos.hits .. 3
    BY <1>1
  <2>3. Applied(acc, TargetsActs(3)) = [stop |-> StopNow(3), size |-> SizeNow(3)]
    BY <2>1, <2>2, TargetsTaken
  <2> QED BY <2>1, <2>3 DEF BrokerAgrees
<1>7. CASE Ride(b)
  <2>1. PICK k \in 0 .. 2 :
            /\ TargetsReached(b, k)
            /\ \/ k = 0 /\ pos' = [pos EXCEPT !.bars = @ + 1] /\ Emit(<<Hold>>)
               \/ LET ext == RunningExtreme(b)
                      stop == Ratchet(TargetStop(k), ext)
                  IN  /\ pos' = [pos EXCEPT !.bars = @ + 1, !.hits = k, !.size = @ - TargetsSize(k), !.ext = ext, !.stop = stop]
                      /\ Emit(OrHold(TargetsActs(k) \o MoveIfNew(TargetStop(k), stop)))
    BY <1>7 DEF Ride
  <2>2. CASE pos' = [pos EXCEPT !.bars = @ + 1] /\ Emit(<<Hold>>)
    <3>1. pos'.stop = pos.stop /\ pos'.size = pos.size /\ broker' = Applied(acc, <<Hold>>)
      BY <1>1, <2>2 DEF Emit
    <3> QED BY <1>4, <3>1 DEF BrokerAgrees
  <2> DEFINE ext == RunningExtreme(b)
             stop == Ratchet(TargetStop(k), ext)
             old == TargetStop(k)
             z == pos.size - TargetsSize(k)
             s == TargetsActs(k)
             m == MoveIfNew(old, stop)
  <2>3. CASE pos' = [pos EXCEPT !.bars = @ + 1, !.hits = k, !.size = @ - TargetsSize(k), !.ext = ext, !.stop = stop] /\ Emit(OrHold(s \o m))
    <3>1. pos'.stop = stop /\ pos'.size = z /\ broker' = Applied(acc, OrHold(s \o m))
      BY <1>1, <2>3 DEF Emit
    <3>2. k \in pos.hits .. 3 /\ pos.reason = "open"
      BY <1>1, <1>7, <2>1 DEF TargetsReached, Ride
    <3>3. StopNow(k) = old /\ SizeNow(k) = z
      BY DEF StopNow, SizeNow
    <3>4. s \in Seq(Action) /\ Applied(acc, s) = [stop |-> old, size |-> z] /\ old \in Int /\ z \in Int
      BY <3>2, <3>3, TargetsTaken
    <3>5. stop \in Int
      <4>1. PosType
        BY DEF PosInv
      <4>2. ext \in Int
        BY <4>1, ExtremeIsAhead
      <4> QED BY <3>4, <4>1, <4>2, RatchetIsAhead
    <3> HIDE DEF s, old, stop, z, acc
    <3>6. m \in Seq(Action) /\ Applied([stop |-> old, size |-> z], m) = [stop |-> stop, size |-> z]
      BY <3>4, <3>5, AppliedMove
    <3> HIDE DEF m
    <3>7. s \o m \in Seq(Action) /\ Applied(acc, s \o m) = [stop |-> stop, size |-> z]
      BY <1>2, <3>4, <3>6, AppliedConcat, ConcatProperties
    <3>8. Applied(acc, OrHold(s \o m)) = Applied(acc, s \o m)
      <4>1. CASE s \o m = <<>>
        BY <1>2, <1>4, <4>1, AppliedNone DEF OrHold
      <4>2. CASE s \o m # <<>>
        BY <4>2 DEF OrHold
      <4> QED BY <4>1, <4>2
    <3> QED BY <3>1, <3>7, <3>8 DEF BrokerAgrees
  <2> QED BY <2>1, <2>2, <2>3
<1>8. CASE StayClosed(b)
  <2>1. pos' = pos /\ broker' = Applied(acc, <<Hold>>)
    BY <1>1, <1>8 DEF StayClosed, Emit
  <2> QED BY <1>1, <1>4, <2>1 DEF BrokerAgrees
<1> QED BY <1>5, <1>6, <1>7, <1>8

\* For every setup and every sequence of bars, an account that applies the actions that
\* process_bar returns (several targets and moves of the stop in one bar, the close after
\* them) holds the stop and the size of the PositionState.
THEOREM AccountFollows == PositionSpec => []BrokerAgrees
<1>1. PositionInit => BrokerAgrees
  BY DEF PositionInit, BrokerAgrees
<1>2. PosInv /\ BrokerAgrees /\ [PositionNext]_posVars => BrokerAgrees'
  <2>1. ASSUME BrokerAgrees, UNCHANGED posVars PROVE BrokerAgrees'
    BY <2>1 DEF posVars, BrokerAgrees
  <2> QED BY <2>1, AccountKeeps DEF PositionNext
<1>3. PosInv /\ [PositionNext]_posVars => PosInv'
  BY PosInvNext
<1> QED BY <1>1, <1>2, <1>3, PosInvInit, PTL DEF PositionSpec

-----------------------------------------------------------------------------
(* The trend-RSI backtest. *)

\* What one unit of the position gained at p.
Gain(t, p) == Sign(t.long, p - t.entry)

\* The locals of _simulate_one while a trade is open.
TradeType ==
    [open : {TRUE}, long : BOOLEAN, entry : Int, initial : Int, target : Int, risk : Int, stop : Int,
     remaining : {1, 2, 4}, realized : Int, t1 : BOOLEAN, rsi : BOOLEAN, from : Int]

\* The stop and the target are no further than the risk against the trade, and what the
\* exits so far cost is no more than their share of it.  Until the first target the stop
\* is not past the entry and nothing has been closed.
Bounded(t) ==
    /\ t \in TradeType /\ t.risk > 0
    /\ Gain(t, t.stop) >= 0 - t.risk
    /\ Gain(t, t.target) >= 0 - t.risk
    /\ t.realized >= 0 - (4 - t.remaining) * RScale
    /\ ~t.t1 => Gain(t, t.stop) <= 0
    /\ t.t1 => t.remaining # 4
    /\ ~t.t1 => t.remaining = 4
    /\ ~t.rsi => t.remaining # 1

\* A trade that run_backtest has filed: never below -1 R.
Filed == [r : {x \in Int : x >= 0 - OneR}, left : Int, from : Int, to : Int,
          reason : {"stop_loss", "target", "trend_flip", "end_of_data"}, banked : BOOLEAN]

\* Between two bars an open trade is within its risk at the last close, too: that is what
\* makes an exit at a close (end of data) as bounded as one at the stop.
BacktestInv ==
    /\ request \in [rr : RewardRisks, zone : Zones, partial : BOOLEAN, trailing : BOOLEAN]
    /\ bar \in [index : Int, close : Int, rsi : Levels]
    /\ trade = NoTrade \/ (Bounded(trade) /\ Gain(trade, bar.close) >= 0 - trade.risk)
    /\ trades \in Seq(Filed)

\* Two facts of arithmetic: rounding down, and multiplying an inequality.
LEMMA Quotients ==
    ASSUME NEW a \in Int, NEW b \in Int, b > 0
    PROVE  a \div b \in Int /\ a < b * ((a \div b) + 1)
OBVIOUS

LEMMA Monotone ==
    ASSUME NEW x \in Int, NEW y \in Int, NEW z \in Int, z > 0, x <= y
    PROVE  z * x <= z * y
OBVIOUS

\* Rounding the R multiple down does not take it below -1 R.
LEMMA AtLeastMinusOne ==
    ASSUME NEW x \in Int, NEW risk \in Int, risk > 0, x >= 0 - risk
    PROVE  (x * RScale) \div risk \in Int /\ (x * RScale) \div risk >= 0 - RScale
<1> DEFINE a == x * RScale
           q == a \div risk
<1>1. RScale \in Int /\ RScale > 0
  BY BacktestAssumption
<1>2. a \in Int /\ a >= 0 - risk * RScale
  BY <1>1
<1> HIDE DEF a
<1>3. q \in Int /\ a < risk * (q + 1)
  BY <1>2, Quotients
<1> HIDE DEF q
<1>4. ~(q + 1 <= 0 - RScale)
  <2> SUFFICES ASSUME q + 1 <= 0 - RScale PROVE FALSE
    OBVIOUS
  <2>1. risk * (q + 1) <= risk * (0 - RScale)
    BY <1>1, <1>3, Monotone
  <2>2. risk * (0 - RScale) = 0 - risk * RScale /\ risk * (q + 1) \in Int /\ risk * RScale \in Int
    BY <1>1, <1>3
  <2> QED BY <1>2, <1>3, <2>1, <2>2
<1> QED BY <1>1, <1>3, <1>4 DEF a, q

\* An exit within the risk keeps the sum within the risk of the part closed.
LEMMA Realized ==
    ASSUME NEW t, Bounded(t), NEW q \in 1 .. 4, NEW p \in Int, Gain(t, p) >= 0 - t.risk
    PROVE  LET u == Realize(t, q, p)
           IN  /\ u = [t EXCEPT !.realized = u.realized, !.remaining = u.remaining]
               /\ u.realized \in Int /\ u.remaining = t.remaining - q
               /\ u.realized >= 0 - (4 - u.remaining) * RScale
<1> DEFINE m == RMultiple(t, p)
           u == Realize(t, q, p)
<1>1. /\ t \in TradeType /\ t.risk \in Int /\ t.risk > 0 /\ t.entry \in Int /\ t.realized \in Int
      /\ t.remaining \in {1, 2, 4} /\ t.realized >= 0 - (4 - t.remaining) * RScale
      /\ RScale \in Int /\ RScale > 0
  <2>1. t \in TradeType /\ t.risk > 0 /\ t.realized >= 0 - (4 - t.remaining) * RScale
    BY DEF Bounded
  <2>2. RScale \in Int /\ RScale > 0
    BY BacktestAssumption
  <2>3. t.risk \in Int /\ t.entry \in Int /\ t.realized \in Int /\ t.remaining \in {1, 2, 4}
    BY <2>1 DEF TradeType
  <2> QED BY <2>1, <2>2, <2>3
<1>2. Gain(t, p) \in Int
  BY <1>1 DEF Gain, Sign
<1>3. m \in Int /\ m >= 0 - RScale
  BY <1>1, <1>2, AtLeastMinusOne DEF RMultiple, Gain
<1>4. u = [t EXCEPT !.realized = t.realized + q * m, !.remaining = t.remaining - q]
  BY DEF Realize
<1> HIDE DEF m, u
<1>5. u.realized = t.realized + q * m /\ u.remaining = t.remaining - q
  BY <1>1, <1>4 DEF TradeType
<1>6. q * m >= 0 - q * RScale /\ q * m \in Int /\ q * RScale \in Int
  <2>1. q * (0 - RScale) <= q * m
    BY <1>1, <1>3, Monotone
  <2>2. q * (0 - RScale) = 0 - q * RScale
    BY <1>1
  <2> QED BY <1>1, <1>3, <2>1, <2>2
<1>7. (4 - (t.remaining - q)) * RScale = (4 - t.remaining) * RScale + q * RScale
  BY <1>1
<1>8. (4 - t.remaining) * RScale \in Int
  BY <1>1
<1>9. t.realized + q * m >= 0 - (4 - (t.remaining - q)) * RScale
  BY <1>1, <1>6, <1>7, <1>8
<1> QED BY <1>1, <1>4, <1>5, <1>6, <1>9 DEF u

\* The prices of a bar are integers, the close between low and high.
LEMMA BarFacts ==
    ASSUME NEW b \in Market
    PROVE  /\ b.low \in Int /\ b.high \in Int /\ b.close \in Int /\ b.rsi \in Levels
           /\ b.low <= b.close /\ b.close <= b.high
<1>1. b \in [high : Prices, low : Prices, close : Prices,
            trend : {"above", "at", "below"}, rsi : Levels] /\ b.low <= b.close /\ b.close <= b.high
  BY DEF Market
<1>2. b.low \in Prices /\ b.high \in Prices /\ b.close \in Prices /\ b.rsi \in Levels
  BY <1>1
<1>3. \A p \in Prices : p \in Int
  BY BacktestAssumption
<1> QED BY <1>1, <1>2, <1>3

\* A close that has not reached the stop is on the right side of it.
LEMMA CloseAboveStop ==
    ASSUME NEW t, Bounded(t), NEW b \in Market, ~StopReached(t, b)
    PROVE  Gain(t, b.close) >= 0 - t.risk /\ b.close \in Int
<1>1. /\ t.long \in BOOLEAN /\ t.risk \in Int /\ t.entry \in Int /\ t.stop \in Int
      /\ Gain(t, t.stop) >= 0 - t.risk
  BY DEF Bounded, TradeType
<1>2. b.low \in Int /\ b.high \in Int /\ b.close \in Int /\ b.low <= b.close /\ b.close <= b.high
  BY BarFacts
<1> QED BY <1>1, <1>2 DEF StopReached, Gain, Sign

\* What the first target leaves: half the position, the stop at the entry.
LEMMA HalfTaken ==
    ASSUME NEW t, Bounded(t), NEW b
    PROVE  LET u == TakeHalf(t, b)
           IN  /\ Bounded(u) /\ u.long = t.long /\ u.entry = t.entry /\ u.risk = t.risk
               /\ AtOrBeyond(t.long, u.stop, t.stop)
<1>1. CASE request.partial /\ ~t.t1 /\ TargetReached(t, b)
  <2> DEFINE v == Realize(t, 2, t.target)
             u == [v EXCEPT !.t1 = TRUE, !.stop = t.entry]
  <2>1. /\ t \in TradeType /\ t.risk > 0 /\ t.remaining = 4 /\ t.remaining \div 2 = 2
        /\ Gain(t, t.target) >= 0 - t.risk /\ Gain(t, t.stop) <= 0
    BY <1>1 DEF Bounded
  <2>2. TakeHalf(t, b) = u
    BY <1>1, <2>1 DEF TakeHalf
  <2>3. t.target \in Int /\ t.entry \in Int /\ t.risk \in Int /\ t.stop \in Int
    BY <2>1 DEF TradeType
  <2>4. /\ v = [t EXCEPT !.realized = v.realized, !.remaining = v.remaining]
        /\ v.realized \in Int /\ v.remaining = 2
        /\ v.realized >= 0 - (4 - v.remaining) * RScale
    <3>1. 2 \in 1 .. 4 /\ t.remaining - 2 = 2
      BY <2>1
    <3>2. /\ v = [t EXCEPT !.realized = v.realized, !.remaining = v.remaining]
          /\ v.realized \in Int /\ v.remaining = t.remaining - 2
          /\ v.realized >= 0 - (4 - v.remaining) * RScale
      BY <2>1, <2>3, <3>1, Realized
    <3> HIDE DEF v
    <3> QED BY <3>1, <3>2
  <2> HIDE DEF v
  <2>5. /\ u \in TradeType /\ u.long = t.long /\ u.entry = t.entry /\ u.risk = t.risk /\ u.target = t.target
        /\ u.stop = t.entry /\ u.t1 /\ u.remaining = 2 /\ u.realized = v.realized
    BY <2>1, <2>3, <2>4 DEF TradeType
  <2> HIDE DEF u
  <2>6. Gain(u, u.target) = Gain(t, t.target) /\ Gain(u, u.stop) = 0
    BY <2>3, <2>5 DEF Gain, Sign
  <2>7. Bounded(u)
    BY <2>1, <2>3, <2>4, <2>5, <2>6 DEF Bounded
  <2>8. AtOrBeyond(t.long, u.stop, t.stop)
    BY <2>1, <2>3, <2>5 DEF AtOrBeyond, Gain, Sign
  <2> QED BY <2>2, <2>5, <2>7, <2>8
<1>2. CASE ~(request.partial /\ ~t.t1 /\ TargetReached(t, b))
  <2>1. t.stop \in Int
    BY DEF Bounded, TradeType
  <2> QED BY <1>2, <2>1 DEF TakeHalf, AtOrBeyond
<1> QED BY <1>1, <1>2

\* What the RSI exit leaves: a quarter of the position, the stop where it was.
LEMMA RsiReduced ==
    ASSUME NEW t, Bounded(t), NEW b, b.close \in Int, Gain(t, b.close) >= 0 - t.risk
    PROVE  LET u == RsiReduce(t, b)
           IN  /\ Bounded(u) /\ u.long = t.long /\ u.entry = t.entry /\ u.risk = t.risk
               /\ u.stop = t.stop
<1> DEFINE C == request.partial /\ t.t1 /\ ~t.rsi /\ (IF t.long THEN b.rsi > OVERBOUGHT ELSE b.rsi < OVERSOLD)
<1>1. CASE C
  <2> DEFINE v == Realize(t, 1, b.close)
             u == [v EXCEPT !.rsi = TRUE]
  <2>1. /\ t \in TradeType /\ t.risk > 0 /\ t.remaining = 2 /\ t.remaining \div 2 = 1 /\ t.t1
        /\ Gain(t, t.target) >= 0 - t.risk /\ Gain(t, t.stop) >= 0 - t.risk
    <3>1. /\ t \in TradeType /\ t.risk > 0 /\ t.t1 /\ ~t.rsi
          /\ t.remaining # 4 /\ t.remaining # 1
          /\ Gain(t, t.target) >= 0 - t.risk /\ Gain(t, t.stop) >= 0 - t.risk
      BY <1>1 DEF Bounded
    <3>2. t.remaining \in {1, 2, 4}
      BY <3>1 DEF TradeType
    <3>3. t.remaining = 2
      BY <3>1, <3>2
    <3> QED BY <3>1, <3>3
  <2>2. RsiReduce(t, b) = u
    BY <1>1, <2>1 DEF RsiReduce
  <2>3. /\ v = [t EXCEPT !.realized = v.realized, !.remaining = v.remaining]
        /\ v.realized \in Int /\ v.remaining = 1
        /\ v.realized >= 0 - (4 - v.remaining) * RScale
    <3>1. 1 \in 1 .. 4 /\ t.remaining - 1 = 1
      BY <2>1
    <3>2. /\ v = [t EXCEPT !.realized = v.realized, !.remaining = v.remaining]
          /\ v.realized \in Int /\ v.remaining = t.remaining - 1
          /\ v.realized >= 0 - (4 - v.remaining) * RScale
      BY <3>1, Realized
    <3> HIDE DEF v
    <3> QED BY <3>1, <3>2
  <2> HIDE DEF v
  <2>4. /\ u \in TradeType /\ u.long = t.long /\ u.entry = t.entry /\ u.risk = t.risk /\ u.target = t.target
        /\ u.stop = t.stop /\ u.t1 /\ u.rsi /\ u.remaining = 1 /\ u.realized = v.realized
    BY <2>1, <2>3 DEF TradeType
  <2> HIDE DEF u
  <2>5. Gain(u, u.target) = Gain(t, t.target) /\ Gain(u, u.stop) = Gain(t, t.stop)
    BY <2>4 DEF Gain
  <2>6. Bounded(u)
    BY <2>1, <2>3, <2>4, <2>5 DEF Bounded
  <2> QED BY <2>2, <2>4, <2>6
<1>2. CASE ~C
  BY <1>2 DEF RsiReduce
<1> QED BY <1>1, <1>2

\* A trail moves nothing but the stop, and moves it forwards.
LEMMA Trailed ==
    ASSUME NEW t, Bounded(t), NEW b, b.close \in Int
    PROVE  LET u == Trail(t, b)
           IN  /\ Bounded(u) /\ u.long = t.long /\ u.entry = t.entry /\ u.risk = t.risk
               /\ AtOrBeyond(t.long, u.stop, t.stop)
<1> DEFINE c == b.close - Sign(t.long, Atr)
           u == [t EXCEPT !.stop = c]
<1>1. /\ t \in TradeType /\ t.risk \in Int /\ t.long \in BOOLEAN /\ t.entry \in Int /\ t.stop \in Int
      /\ Gain(t, t.stop) >= 0 - t.risk
  BY DEF Bounded, TradeType
<1>2. c \in Int
  BY <1>1, BacktestAssumption DEF Sign
<1>3. Trail(t, b) = t \/ (t.t1 /\ Sign(t.long, c - t.stop) > 0 /\ Trail(t, b) = u)
  BY DEF Trail
<1> HIDE DEF c
<1>4. CASE t.t1 /\ Sign(t.long, c - t.stop) > 0 /\ Trail(t, b) = u
  <2>1. /\ u \in TradeType /\ u.long = t.long /\ u.entry = t.entry /\ u.risk = t.risk /\ u.target = t.target
        /\ u.stop = c /\ u.t1 /\ u.rsi = t.rsi /\ u.remaining = t.remaining /\ u.realized = t.realized
    BY <1>1, <1>2, <1>4 DEF TradeType
  <2> HIDE DEF u
  <2>2. Gain(u, u.stop) >= 0 - u.risk
    BY <1>1, <1>2, <1>4, <2>1 DEF Gain, Sign
  <2>3. Gain(u, u.target) = Gain(t, t.target)
    BY <2>1 DEF Gain
  <2>4. Bounded(u)
    BY <1>4, <2>1, <2>2, <2>3 DEF Bounded
  <2>5. AtOrBeyond(t.long, u.stop, t.stop)
    BY <1>1, <1>2, <1>4, <2>1 DEF AtOrBeyond, Sign
  <2> QED BY <1>4, <2>1, <2>4, <2>5
<1> QED BY <1>1, <1>3, <1>4 DEF AtOrBeyond

\* The three in the order of the code.
LEMMA ManagedFacts ==
    ASSUME NEW t, Bounded(t), NEW b, b.close \in Int, Gain(t, b.close) >= 0 - t.risk
    PROVE  LET u == Managed(t, b)
           IN  /\ Bounded(u) /\ Gain(u, b.close) >= 0 - u.risk
               /\ AtOrBeyond(t.long, u.stop, t.stop)
<1> DEFINE half == TakeHalf(t, b)
           less == RsiReduce(half, b)
           u == Trail(less, b)
<1>1. Managed(t, b) = u
  BY DEF Managed
<1>2. /\ Bounded(half) /\ half.long = t.long /\ half.entry = t.entry /\ half.risk = t.risk
      /\ AtOrBeyond(t.long, half.stop, t.stop)
  BY HalfTaken
<1> HIDE DEF half
<1>3. Gain(half, b.close) >= 0 - half.risk
  BY <1>2 DEF Gain
<1>4. /\ Bounded(less) /\ less.long = half.long /\ less.entry = half.entry /\ less.risk = half.risk
      /\ less.stop = half.stop
  BY <1>2, <1>3, RsiReduced
<1> HIDE DEF less
<1>5. /\ Bounded(u) /\ u.long = less.long /\ u.entry = less.entry /\ u.risk = less.risk
      /\ AtOrBeyond(less.long, u.stop, less.stop)
  BY <1>4, Trailed
<1> HIDE DEF u
<1>6. Gain(u, b.close) = Gain(t, b.close) /\ u.risk = t.risk
  BY <1>2, <1>4, <1>5 DEF Gain
<1>7. t.stop \in Int /\ half.stop \in Int /\ u.stop \in Int
  BY <1>2, <1>5 DEF Bounded, TradeType
<1>8. AtOrBeyond(t.long, u.stop, t.stop)
  BY <1>2, <1>4, <1>5, <1>7 DEF AtOrBeyond
<1> QED BY <1>1, <1>5, <1>6, <1>8

\* The reward of a target, reward_risk times the risk, is no loss.
LEMMA GrossProduct ==
    ASSUME NEW x \in Nat, NEW y \in Int, y > 0
    PROVE  x * y \in Int /\ x * y >= 0
OBVIOUS

\* A trade as it is opened: its risk is positive, for a stop one Atr beyond its bar.
LEMMA Entered ==
    ASSUME NEW b \in Market, NEW i \in Int, request.rr \in Nat
    PROVE  LET t == Enter(b, i)
           IN  Bounded(t) /\ t.entry = b.close
<1> DEFINE long == LongSignal(b)
           stop == IF long THEN b.low - Atr ELSE b.high + Atr
           risk == Sign(long, b.close - stop)
           tgt == b.close + Sign(long, request.rr * risk)
           t == Enter(b, i)
<1>0. Atr \in Int /\ Atr > 0 /\ RScale \in Int
  BY BacktestAssumption
<1>1. b.low \in Int /\ b.high \in Int /\ b.close \in Int /\ b.low <= b.close /\ b.close <= b.high
  BY BarFacts
<1>2. t = [open |-> TRUE, long |-> long, entry |-> b.close, initial |-> stop,
         target |-> tgt, risk |-> risk,
         stop |-> stop, remaining |-> 4, realized |-> 0,
         t1 |-> FALSE, rsi |-> FALSE, from |-> i]
  BY DEF Enter
<1>3. long \in BOOLEAN
  BY DEF LongSignal, CrossedUp
<1> HIDE DEF long, t
<1>4. stop \in Int /\ risk \in Int /\ risk > 0 /\ Sign(long, stop - b.close) = 0 - risk
  BY <1>0, <1>1, <1>3 DEF Sign
<1> HIDE DEF stop, risk
<1>5. request.rr * risk \in Int /\ request.rr * risk >= 0
  BY <1>4, GrossProduct
<1> DEFINE g == request.rr * risk
<1>6. g \in Int /\ g >= 0 /\ tgt = b.close + Sign(long, g)
  BY <1>5
<1> HIDE DEF g
<1>7. tgt \in Int /\ Sign(long, tgt - b.close) = g
  BY <1>1, <1>3, <1>6 DEF Sign
<1> HIDE DEF tgt
<1>8. /\ t \in TradeType /\ t.long = long /\ t.entry = b.close /\ t.risk = risk /\ t.stop = stop
      /\ t.target = tgt /\ t.remaining = 4 /\ t.realized = 0 /\ ~t.t1 /\ ~t.rsi
  BY <1>1, <1>2, <1>3, <1>4, <1>7 DEF TradeType
<1> HIDE DEF t
<1>9. Gain(t, t.stop) = 0 - risk /\ Gain(t, t.target) = g
  BY <1>4, <1>7, <1>8 DEF Gain
<1>10. (4 - t.remaining) * RScale = 0
  BY <1>0, <1>8
<1>11. Bounded(t)
  BY <1>4, <1>6, <1>8, <1>9, <1>10 DEF Bounded
<1> QED BY <1>8, <1>11 DEF t

\* A trade closed at no worse than its risk is filed with no worse than -1 R.
LEMMA FiledFacts ==
    ASSUME NEW t, Bounded(t), NEW p \in Int, Gain(t, p) >= 0 - t.risk, NEW i \in Int,
           NEW reason \in {"stop_loss", "target", "trend_flip", "end_of_data"}
    PROVE  Closed(t, t.remaining, p, i, reason) \in Filed
<1> DEFINE q == t.remaining
           v == Realize(t, q, p)
           c == Closed(t, q, p, i, reason)
<1>1. t.remaining \in {1, 2, 4} /\ t.from \in Int /\ t.t1 \in BOOLEAN
  BY DEF Bounded, TradeType
<1>2. q \in 1 .. 4 /\ t.remaining - q = 0
  BY <1>1
<1> HIDE DEF q
<1>3. /\ v.realized \in Int /\ v.remaining = t.remaining - q
      /\ v.realized >= 0 - (4 - v.remaining) * RScale
  BY <1>2, Realized
<1>4. c = [r |-> v.realized, left |-> v.remaining, from |-> t.from, to |-> i,
           reason |-> reason, banked |-> t.t1]
  BY DEF Closed
<1> HIDE DEF v, c
<1>5. v.realized \in {x \in Int : x >= 0 - OneR} /\ v.remaining \in Int
  BY <1>2, <1>3, BacktestAssumption DEF OneR
<1>6. c \in Filed
  BY <1>1, <1>4, <1>5 DEF Filed
<1> QED BY <1>6 DEF c, q

\* Filing a trade keeps the list of trades and empties the hand.
LEMMA FileKeeps ==
    ASSUME BacktestInv, NEW c \in Filed, File(c)
    PROVE  trades' \in Seq(Filed) /\ trade' = NoTrade
<1>1. trades' = Append(trades, c) /\ trade' = NoTrade
  BY DEF File
<1>2. trades \in Seq(Filed)
  BY DEF BacktestInv
<1> QED BY <1>1, <1>2, AppendProperties

\* Reading a bar keeps the request and moves the close on.
LEMMA ReadKeeps ==
    ASSUME BacktestInv, NEW b \in Market, Read(b)
    PROVE  /\ request' \in [rr : RewardRisks, zone : Zones, partial : BOOLEAN, trailing : BOOLEAN]
           /\ bar' \in [index : Int, close : Int, rsi : Levels]
           /\ bar'.close = b.close
<1>1. request' = request /\ bar' = [index |-> bar.index + 1, close |-> b.close, rsi |-> b.rsi]
  BY DEF Read
<1>2. /\ request \in [rr : RewardRisks, zone : Zones, partial : BOOLEAN, trailing : BOOLEAN]
      /\ bar \in [index : Int, close : Int, rsi : Levels]
  BY DEF BacktestInv
<1>3. bar.index + 1 \in Int /\ b.close \in Int /\ b.rsi \in Levels
  BY <1>2, BarFacts
<1> QED BY <1>1, <1>2, <1>3

\* The trade that is carried on, when there is one.
LEMMA OpenTrade ==
    ASSUME BacktestInv, HasTrade
    PROVE  Bounded(trade) /\ Gain(trade, bar.close) >= 0 - trade.risk
<1>1. ~NoTrade.open
  BY DEF NoTrade
<1> QED BY <1>1 DEF BacktestInv, HasTrade

\* The invariant holds at first and is kept by every bar and by the end of the data.
LEMMA BacktestInvHolds == BacktestSpec => []BacktestInv
<1>1. BacktestInit => BacktestInv
  <2> SUFFICES ASSUME BacktestInit PROVE BacktestInv
    OBVIOUS
  <2>1. bar \in [index : Int, close : Int, rsi : Levels]
    BY DEF BacktestInit
  <2>2. trades \in Seq(Filed)
    BY EmptySeq DEF BacktestInit
  <2> QED BY <2>1, <2>2 DEF BacktestInit, BacktestInv
<1>2. BacktestInv /\ [BacktestNext]_btVars => BacktestInv'
  <2> SUFFICES ASSUME BacktestInv, [BacktestNext]_btVars PROVE BacktestInv'
    OBVIOUS
  <2>0. bar.index \in Int /\ bar.close \in Int /\ trades \in Seq(Filed)
    BY DEF BacktestInv
  <2>1. ASSUME NEW b \in Market, Idle(b) PROVE BacktestInv'
    <3>1. Read(b) /\ ~HasTrade /\ trade' = trade /\ trades' = trades
      BY <2>1 DEF Idle
    <3>2. trade = NoTrade
      BY <3>1 DEF BacktestInv, HasTrade, Bounded, TradeType
    <3> QED BY <2>0, <3>1, <3>2, ReadKeeps DEF BacktestInv
  <2>2. ASSUME NEW b \in Market, Open(b) PROVE BacktestInv'
    <3>1. Read(b) /\ trade' = Enter(b, bar.index + 1) /\ trades' = trades
      BY <2>2 DEF Open
    <3>2. request.rr \in Nat /\ bar.index + 1 \in Int
      <4>1. request.rr \in RewardRisks
        BY DEF BacktestInv
      <4>2. \A x \in RewardRisks : x \in Nat
        BY BacktestAssumption
      <4> QED BY <2>0, <4>1, <4>2
    <3>3. Bounded(trade') /\ trade'.entry = b.close
      BY <3>1, <3>2, Entered
    <3>4. bar'.close = trade'.entry
      BY <3>1, <3>3, ReadKeeps
    <3>5. Gain(trade', bar'.close) >= 0 - trade'.risk
      BY <3>3, <3>4 DEF Bounded, TradeType, Gain, Sign
    <3> QED BY <2>0, <3>1, <3>3, <3>5, ReadKeeps DEF BacktestInv
  <2>3. ASSUME NEW b \in Market, Stop(b) PROVE BacktestInv'
    <3> DEFINE c == Closed(trade, trade.remaining, trade.stop, bar.index + 1, "stop_loss")
    <3>1. HasTrade /\ Read(b) /\ File(c)
      BY <2>3 DEF Stop
    <3>2. Bounded(trade)
      BY <3>1, OpenTrade
    <3>3. trade.stop \in Int /\ Gain(trade, trade.stop) >= 0 - trade.risk /\ bar.index + 1 \in Int
      BY <2>0, <3>2 DEF Bounded, TradeType
    <3>4. c \in Filed
      BY <3>2, <3>3, FiledFacts
    <3> HIDE DEF c
    <3> QED BY <3>1, <3>4, FileKeeps, ReadKeeps DEF BacktestInv
  <2>4. ASSUME NEW b \in Market, Target(b) PROVE BacktestInv'
    <3> DEFINE c == Closed(trade, trade.remaining, trade.target, bar.index + 1, "target")
    <3>1. HasTrade /\ Read(b) /\ File(c)
      BY <2>4 DEF Target
    <3>2. Bounded(trade)
      BY <3>1, OpenTrade
    <3>3. trade.target \in Int /\ Gain(trade, trade.target) >= 0 - trade.risk /\ bar.index + 1 \in Int
      BY <2>0, <3>2 DEF Bounded, TradeType
    <3>4. c \in Filed
      BY <3>2, <3>3, FiledFacts
    <3> HIDE DEF c
    <3> QED BY <3>1, <3>4, FileKeeps, ReadKeeps DEF BacktestInv
  <2>5. ASSUME NEW b \in Market, Carried(b)
        PROVE  /\ Bounded(Managed(trade, b)) /\ b.close \in Int
               /\ Gain(Managed(trade, b), b.close) >= 0 - Managed(trade, b).risk
    <3>1. HasTrade /\ ~StopReached(trade, b)
      BY <2>5 DEF Carried
    <3>2. Bounded(trade)
      BY <3>1, OpenTrade
    <3>3. Gain(trade, b.close) >= 0 - trade.risk /\ b.close \in Int
      BY <3>1, <3>2, CloseAboveStop
    <3> QED BY <3>2, <3>3, ManagedFacts
  <2>6. ASSUME NEW b \in Market, TrendFlip(b) PROVE BacktestInv'
    <3> DEFINE t == Managed(trade, b)
               c == Closed(t, t.remaining, b.close, bar.index + 1, "trend_flip")
    <3>1. Carried(b) /\ Read(b) /\ File(c)
      BY <2>6 DEF TrendFlip
    <3>2. Bounded(t) /\ Gain(t, b.close) >= 0 - t.risk /\ b.close \in Int /\ bar.index + 1 \in Int
      BY <2>0, <2>5, <3>1
    <3> HIDE DEF t
    <3>3. c \in Filed
      BY <3>2, FiledFacts
    <3> HIDE DEF c
    <3> QED BY <3>1, <3>3, FileKeeps, ReadKeeps DEF BacktestInv
  <2>7. ASSUME NEW b \in Market, Manage(b) PROVE BacktestInv'
    <3>1. Carried(b) /\ Read(b) /\ trade' = Managed(trade, b) /\ trades' = trades
      BY <2>7 DEF Manage
    <3>2. Bounded(trade') /\ Gain(trade', b.close) >= 0 - trade'.risk
      BY <2>5, <3>1
    <3> QED BY <2>0, <3>1, <3>2, ReadKeeps DEF BacktestInv
  <2>8. ASSUME EndOfData PROVE BacktestInv'
    <3>1. request' = request /\ bar' = bar
      BY <2>8 DEF EndOfData
    <3>2. CASE HasTrade
      <4> DEFINE c == Closed(trade, trade.remaining, bar.close, bar.index, "end_of_data")
      <4>1. File(c)
        BY <2>8, <3>2 DEF EndOfData
      <4>2. Bounded(trade) /\ Gain(trade, bar.close) >= 0 - trade.risk
        BY <3>2, OpenTrade
      <4>3. c \in Filed
        BY <2>0, <4>2, FiledFacts
      <4> HIDE DEF c
      <4> QED BY <3>1, <4>1, <4>3, FileKeeps DEF BacktestInv
    <3>3. CASE ~HasTrade
      BY <2>8, <3>1, <3>3 DEF EndOfData, BacktestInv
    <3> QED BY <3>2, <3>3
  <2>9. CASE UNCHANGED btVars
    BY <2>9 DEF btVars, BacktestInv, Bounded, Gain
  <2> QED BY <2>1, <2>2, <2>3, <2>4, <2>6, <2>7, <2>8, <2>9 DEF BacktestNext
<1> QED BY <1>1, <1>2, PTL DEF BacktestSpec

\* No trade of any backtest loses more than the risk it was entered with, over all its
\* partial exits and whatever the market does.
THEOREM LossIsBounded == BacktestSpec => []LossBounded
<1>1. BacktestInv => LossBounded
  <2> SUFFICES ASSUME BacktestInv, NEW k \in DOMAIN trades PROVE trades[k].r >= 0 - OneR
    BY DEF LossBounded
  <2>1. trades[k] \in Filed
    BY ElementOfSeq DEF BacktestInv
  <2> QED BY <2>1 DEF Filed
<1> QED BY <1>1, BacktestInvHolds, PTL

\* The stop of an open trade only ever moves with it: the first target takes it to the
\* entry, which it had not reached, and the trail only forwards.
THEOREM StopsTighten == BacktestSpec => StopOnlyTightens
<1>1. BacktestInv /\ [BacktestNext]_btVars =>
          [HasTrade /\ trade'.open => AtOrBeyond(trade.long, trade'.stop, trade.stop)]_btVars
  <2> SUFFICES ASSUME BacktestInv, BacktestNext, HasTrade, trade'.open
               PROVE  AtOrBeyond(trade.long, trade'.stop, trade.stop)
    OBVIOUS
  <2>1. trade' # NoTrade
    BY DEF NoTrade
  <2>2. PICK b \in Market : Manage(b)
    BY <2>1 DEF BacktestNext, Idle, Open, Stop, Target, TrendFlip, EndOfData, File
  <2>3. Carried(b) /\ ~StopReached(trade, b) /\ trade' = Managed(trade, b)
    BY <2>2 DEF Manage, Carried
  <2>4. Bounded(trade)
    BY OpenTrade
  <2>5. Gain(trade, b.close) >= 0 - trade.risk /\ b.close \in Int
    BY <2>3, <2>4, CloseAboveStop
  <2> QED BY <2>3, <2>4, <2>5, ManagedFacts
<1> QED BY <1>1, BacktestInvHolds, PTL DEF BacktestSpec, StopOnlyTightens
----------------------------------------------------------------------------
\* The trading plan.

\* Which signals can be traded: the trend and the signal agree on the side, and the
\* signal's stop lies behind its entry on that side.
Behind(signal, side) ==
    /\ signal.entry \in Int /\ signal.stop \in Int
    /\ \/ side = "long" /\ signal.stop < signal.entry
       \/ side = "short" /\ signal.stop > signal.entry

LEMMA TradedSignal ==
    ASSUME NEW m \in Snapshots, evaluate_decision(m) = "trade"
    PROVE  Behind(m.signal, Direction(m))
<1>1. /\ Direction(m) # "none" /\ m.signal # NoSignal /\ m.signal.direction = Direction(m)
  BY DEF evaluate_decision
<1>2. m.signal \in Signals \cup {NoSignal}
  BY DEF Snapshots
<1>3. m.signal \in Signals
  BY <1>1, <1>2
<1>4. PICK d \in {"long", "short"}, a \in Ages, q \in Qualities, e \in Entries, r \in Risks :
        m.signal = [direction |-> d, age |-> a, quality |-> q, entry |-> e,
                    stop |-> IF d = "long" THEN e - r ELSE e + r]
  BY <1>3 DEF Signals
<1>5. e \in Int /\ r \in Nat \ {0}
  BY PlanAssumption
<1>6. m.signal.entry = e /\ m.signal.stop = (IF d = "long" THEN e - r ELSE e + r) /\ Direction(m) = d
  BY <1>1, <1>4
<1> QED BY <1>5, <1>6 DEF Behind

\* The targets of such a signal lie beyond its entry, one after the other.
LEMMA TradedTargets ==
    ASSUME NEW m \in Snapshots, evaluate_decision(m) = "trade"
    PROVE  LET s == 2 * m.signal.stop
               e == 2 * m.signal.entry
               t == compute_targets(m)
           IN  \/ Direction(m) = "long" /\ s < e /\ e < t[1] /\ t[1] < t[2] /\ t[2] < t[3]
               \/ Direction(m) = "short" /\ s > e /\ e > t[1] /\ t[1] > t[2] /\ t[2] > t[3]
<1> DEFINE entry == m.signal.entry
           stop == m.signal.stop
           risk == Abs(entry - stop)
           t == compute_targets(m)
<1>1. Behind(m.signal, Direction(m))
  BY TradedSignal
<1>2. entry \in Int /\ stop \in Int
  BY <1>1 DEF Behind
<1>3. CASE Direction(m) = "long" /\ stop < entry
  <2>1. risk = entry - stop
    BY <1>2, <1>3 DEF Abs
  <2>2. t = <<2 * entry + 1 * 2 * risk, 2 * entry + 1 * 4 * risk, 2 * entry + 1 * 7 * risk>>
    BY <1>3 DEF compute_targets
  <2>3. t[1] = 2 * entry + 2 * (entry - stop) /\ t[2] = 2 * entry + 4 * (entry - stop)
        /\ t[3] = 2 * entry + 7 * (entry - stop)
    BY <1>2, <2>1, <2>2
  <2> HIDE DEF t, entry, stop
  <2>4. 2 * stop < 2 * entry /\ 2 * entry < t[1] /\ t[1] < t[2] /\ t[2] < t[3]
    BY <1>2, <1>3, <2>3
  <2> QED BY <1>3, <2>4 DEF t, entry, stop
<1>4. CASE Direction(m) = "short" /\ stop > entry
  <2>1. risk = stop - entry
    BY <1>2, <1>4 DEF Abs
  <2>2. t = <<2 * entry + (-1) * 2 * risk, 2 * entry + (-1) * 4 * risk, 2 * entry + (-1) * 7 * risk>>
    BY <1>4 DEF compute_targets
  <2>3. t[1] = 2 * entry - 2 * (stop - entry) /\ t[2] = 2 * entry - 4 * (stop - entry)
        /\ t[3] = 2 * entry - 7 * (stop - entry)
    BY <1>2, <2>1, <2>2
  <2> HIDE DEF t, entry, stop
  <2>4. 2 * stop > 2 * entry /\ 2 * entry > t[1] /\ t[1] > t[2] /\ t[2] > t[3]
    BY <1>2, <1>4, <2>3
  <2> QED BY <1>4, <2>4 DEF t, entry, stop
<1> QED BY <1>1, <1>3, <1>4 DEF Behind

PlanInv == snapshot \in Snapshots /\ PlanIsOrdered

LEMMA PlanResponds ==
    ASSUME snapshot \in Snapshots, snapshot' = snapshot, NEW insight, Respond(insight)
    PROVE  PlanIsOrdered'
<1> SUFFICES ASSUME reply'.action = "trade" PROVE PlanIsOrdered'
  BY DEF PlanIsOrdered
<1>1. evaluate_decision(snapshot) = "trade"
  BY DEF Respond
<1>2. /\ reply'.direction = Direction(snapshot) /\ reply'.targets = compute_targets(snapshot)
      /\ snapshot' = snapshot
  BY <1>1 DEF Respond
<1> QED BY <1>1, <1>2, TradedTargets DEF PlanIsOrdered

\* build_plan: whatever the trend at the last bar, the age and side of the latest signal
\* and the answers and failures of the LLM, a plan that says "trade" has its stop, entry
\* and targets in order along the side it names.
THEOREM PlansAreOrdered == PlanSpec => []PlanIsOrdered
<1>1. PlanInit => PlanInv
  BY DEF PlanInit, PlanInv, PlanIsOrdered, NoReply
<1>2. PlanInv /\ [PlanNext]_planVars => PlanInv'
  <2> SUFFICES ASSUME PlanInv, [PlanNext]_planVars PROVE PlanInv'
    OBVIOUS
  <2>1. ASSUME NEW m \in Snapshots, NextBar(m) PROVE PlanInv'
    BY <2>1 DEF NextBar, PlanInv, PlanIsOrdered, NoReply
  <2>2. CASE BuildPlanPlain
    BY <2>2, PlanResponds DEF BuildPlanPlain, PlanInv
  <2>3. ASSUME NEW k \in PlanKeys, BuildPlanCached(k) PROVE PlanInv'
    BY <2>3, PlanResponds DEF BuildPlanCached, PlanInv
  <2>4. ASSUME NEW k \in PlanKeys, NEW a \in Answers, BuildPlanAsk(k, a) PROVE PlanInv'
    <3>1. snapshot' = snapshot
      BY <2>4 DEF BuildPlanAsk
    <3>2. (\E insight : Respond(insight)) \/ reply' = [NoReply EXCEPT !.status = "error"]
      BY <2>4 DEF BuildPlanAsk, Answers
    <3>3. CASE \E insight : Respond(insight)
      BY <3>1, <3>3, PlanResponds DEF PlanInv
    <3>4. CASE reply' = [NoReply EXCEPT !.status = "error"]
      BY <3>1, <3>4 DEF PlanInv, PlanIsOrdered, NoReply
    <3> QED BY <3>2, <3>3, <3>4
  <2>5. CASE Restart
    BY <2>5 DEF Restart, PlanInv, PlanIsOrdered, NoReply
  <2>6. CASE UNCHANGED planVars
    BY <2>6 DEF planVars, PlanInv, PlanIsOrdered
  <2> QED BY <2>1, <2>2, <2>3, <2>4, <2>5, <2>6 DEF PlanNext
<1> QED BY <1>1, <1>2, PTL DEF PlanSpec, PlanInv
=============================================================================
