---------------------------- MODULE OpenPosition ----------------------------
(***************************************************************************)
(* The life of an open harmonic position, app/services/position_manager.py *)
(* process_bar is called with one bar after another; each call returns the *)
(* next PositionState and the actions a consumer has to carry out.  The    *)
(* consumer is modelled too: "broker" is an account that only ever sees    *)
(* the actions.                                                            *)
(*                                                                         *)
(* Prices are integers (ticks), sizes are tenths of the opened position.   *)
(* The three tpN_hit flags are one number: the loop takes the targets in   *)
(* order, so the flags set are always a prefix.  bar_close is not read by  *)
(* process_bar and is left out of a bar.                                   *)
(***************************************************************************)
EXTENDS Integers, Sequences

CONSTANTS Setups,       \* the positions that may be opened
          Bars          \* the bars the market may print

\* A position as the signal engine opens it: the stop on one side of the
\* entry, the three targets in order on the other (SetupOK is the geometry of
\* app/domain/signals.py; PositionState itself only asks for positive prices).
SetupOK(s) ==
    /\ s.bullish \in BOOLEAN
    /\ s.entry \in Int /\ s.initial \in Int
    /\ s.tp1 \in Int /\ s.tp2 \in Int /\ s.tp3 \in Int
    /\ s.trail \in Int /\ s.trail > 0
    /\ s.cd \in Nat
    /\ s.bullish => s.initial < s.entry /\ s.entry < s.tp1 /\ s.tp1 <= s.tp2 /\ s.tp2 <= s.tp3
    /\ ~s.bullish => s.initial > s.entry /\ s.entry > s.tp1 /\ s.tp1 >= s.tp2 /\ s.tp2 >= s.tp3

ASSUME PositionAssumption ==
    /\ \A s \in Setups : SetupOK(s)
    /\ \A b \in Bars : b.high \in Int /\ b.low \in Int /\ b.low <= b.high

VARIABLES setup,        \* the constant part of PositionState
          pos,          \* its evolving part
          acts,         \* the actions returned for the last bar
          broker        \* what an account that applies them holds
posVars == <<setup, pos, acts, broker>>

None == 0               \* chandelier_high / chandelier_low not set

\* p is at least as good a stop (or price reached) as q for the position.
AtLeast(p, q) == IF setup.bullish THEN p >= q ELSE p <= q
Better(p, q) == IF setup.bullish THEN p > q ELSE p < q

StopHit(b) == IF setup.bullish THEN b.low <= pos.stop ELSE b.high >= pos.stop
TpHit(b, tp) == IF setup.bullish THEN b.high >= tp ELSE b.low <= tp
Extreme(b) == IF setup.bullish THEN b.high ELSE b.low
ChandelierStop(ext) == IF setup.bullish THEN ext - setup.trail ELSE ext + setup.trail

\* bars_held > 1.5 * cd_leg_bars, over the integers.
TimeIsUp(bars) == 2 * bars > 3 * setup.cd

TpPrice(j) == IF j = 1 THEN setup.tp1 ELSE IF j = 2 THEN setup.tp2 ELSE setup.tp3
TpSize(j) == IF j = 1 THEN 5 ELSE IF j = 2 THEN 3 ELSE 2

\* The stop a target moves to: TP1 to the entry, TP2 to TP1.
\* Mutant: each target moves the stop one level too little.
StopAfterLoose(j) == IF j = 1 THEN setup.initial ELSE setup.entry
StopAfter(j) == IF j = 1 THEN setup.entry ELSE setup.tp1

\* The loop over the targets ends with the first k of them hit: the ones hit
\* on earlier bars are skipped, and the first one out of reach breaks it.
TargetsReached(b, k) ==
    /\ k \in pos.hits..3
    /\ \A j \in 1..3 : j > pos.hits /\ j <= k => TpHit(b, TpPrice(j))
    /\ k < 3 => ~TpHit(b, TpPrice(k + 1))

-----------------------------------------------------------------------------
(* The actions returned, and what the account makes of them. *)

Hold == [type |-> "hold", size |-> 0, stop |-> 0]
CloseAll == [type |-> "close_all", size |-> 0, stop |-> 0]
ClosePartial(j) == [type |-> "close_partial", size |-> TpSize(j), stop |-> 0]
MoveStop(p) == [type |-> "move_stop", size |-> 0, stop |-> p]

\* A move_stop is only emitted when it changes the stop held at that point.
MoveIfNew(old, new) == IF new # old THEN <<MoveStop(new)>> ELSE <<>>

TargetActs(j) ==
    LET old == IF j = pos.hits + 1 THEN pos.stop ELSE StopAfter(j - 1)
    IN  <<ClosePartial(j)>> \o
        IF j = 3 THEN <<CloseAll>> ELSE MoveIfNew(old, StopAfter(j))

\* Mutant: of several targets hit by one bar only the last is reported.
TargetsActsLast(k) == IF k > pos.hits THEN TargetActs(k) ELSE <<>>
TargetsActs(k) ==
    (IF pos.hits < 1 /\ k >= 1 THEN TargetActs(1) ELSE <<>>) \o
    (IF pos.hits < 2 /\ k >= 2 THEN TargetActs(2) ELSE <<>>) \o
    (IF pos.hits < 3 /\ k >= 3 THEN TargetActs(3) ELSE <<>>)

\* size_remaining - close_pct for every target newly hit.
TargetsSize(k) ==
    (IF pos.hits < 1 /\ k >= 1 THEN TpSize(1) ELSE 0) +
    (IF pos.hits < 2 /\ k >= 2 THEN TpSize(2) ELSE 0)

OrHold(s) == IF s = <<>> THEN <<Hold>> ELSE s

ApplyAct(acc, a) ==
    CASE a.type = "close_all"     -> [acc EXCEPT !.size = 0]
      [] a.type = "close_partial" -> [acc EXCEPT !.size = @ - a.size]
      [] a.type = "move_stop"     -> [acc EXCEPT !.stop = a.stop]
      [] OTHER                    -> acc

Applied(acc, s) ==
    LET held[n \in 0 .. Len(s)] == IF n = 0 THEN acc ELSE ApplyAct(held[n - 1], s[n])
    IN  held[Len(s)]

Emit(s) == acts' = s /\ broker' = Applied(broker, s)

-----------------------------------------------------------------------------
PositionInit ==
    /\ setup \in Setups
    /\ pos = [stop |-> setup.initial, bars |-> 0, size |-> 10, hits |-> 0,
              ext |-> None, reason |-> "open"]
    /\ acts = <<>>
    /\ broker = [stop |-> setup.initial, size |-> 10]

Close(reason) ==
    pos' = [pos EXCEPT !.bars = @ + 1, !.size = 0, !.reason = reason]

\* The stop is tested first, against the stop set on earlier bars.
StopOut(b) ==
    /\ pos.reason = "open"
    /\ StopHit(b)
    /\ Close("stop")
    /\ Emit(<<CloseAll>>)
    /\ UNCHANGED setup

TimeStop(b) ==
    /\ pos.reason = "open"
    /\ ~StopHit(b)
    /\ TimeIsUp(pos.bars + 1)
    /\ Close("time_stop")
    /\ Emit(<<CloseAll>>)
    /\ UNCHANGED setup

\* All three targets are behind: the position is closed.
FullTarget(b) ==
    /\ pos.reason = "open"
    /\ ~StopHit(b) /\ ~TimeIsUp(pos.bars + 1)
    /\ TargetsReached(b, 3)
    /\ pos' = [pos EXCEPT !.bars = @ + 1, !.size = 0, !.reason = "tp3", !.hits = 3,
                          !.stop = IF pos.hits < 2 THEN StopAfter(2) ELSE @,
                          !.ext = IF pos.hits = 0 THEN Extreme(b) ELSE @]
    /\ Emit(TargetsActs(3))
    /\ UNCHANGED setup

\* The bar leaves the position open with k targets behind it (perhaps the same
\* as before), and the Chandelier stop is ratcheted when one of them is TP1.
TargetStop(k) == IF k > pos.hits THEN StopAfter(k) ELSE pos.stop
RunningExtreme(b) ==
    IF pos.hits = 0 \/ AtLeast(Extreme(b), pos.ext) THEN Extreme(b) ELSE pos.ext
\* Mutant: a bar on which a target has moved the stop is not ratcheted.
RatchetUnlessMoved(stop, ext) ==
    IF stop = pos.stop /\ Better(ChandelierStop(ext), stop) THEN ChandelierStop(ext) ELSE stop
Ratchet(stop, ext) ==
    IF Better(ChandelierStop(ext), stop) THEN ChandelierStop(ext) ELSE stop

Ride(b) ==
    /\ pos.reason = "open"
    /\ ~StopHit(b) /\ ~TimeIsUp(pos.bars + 1)
    /\ \E k \in 0..2 :
          /\ TargetsReached(b, k)
          /\ \/ /\ k = 0
                /\ pos' = [pos EXCEPT !.bars = @ + 1]
                /\ Emit(<<Hold>>)
             \/ /\ k > 0
                /\ LET ext == RunningExtreme(b)
                       stop == Ratchet(TargetStop(k), ext)
                   IN  /\ pos' = [pos EXCEPT !.bars = @ + 1, !.hits = k,
                                     !.size = @ - TargetsSize(k),
                                     !.ext = ext, !.stop = stop]
                       /\ Emit(OrHold(TargetsActs(k) \o MoveIfNew(TargetStop(k), stop)))
    /\ UNCHANGED setup

\* A closed position answers every further bar with "hold".
StayClosed(b) ==
    /\ pos.reason # "open"
    /\ Emit(<<Hold>>)
    /\ UNCHANGED <<setup, pos>>

PositionNext ==
    \E b \in Bars : StopOut(b) \/ TimeStop(b) \/ FullTarget(b) \/ Ride(b) \/ StayClosed(b)

PositionSpec == PositionInit /\ [][PositionNext]_posVars

-----------------------------------------------------------------------------
\* The PositionState process_bar returns is well formed: 0 <= size <= 1 and a
\* close_reason exactly when the position is closed.
PositionTypeOK ==
    /\ setup \in Setups
    /\ pos.stop \in Int /\ pos.ext \in Int
    /\ pos.bars \in Nat
    /\ pos.size \in 0..10
    /\ pos.hits \in 0..3
    /\ pos.reason \in {"open", "stop", "time_stop", "tp3"}
    /\ (pos.size = 0) <=> (pos.reason # "open")

\* An account that only applies the returned actions, in their order, holds the
\* stop and the size that process_bar believes it holds: no change of state is
\* left out of the actions and none is reported twice.
BrokerAgrees == broker = [stop |-> pos.stop, size |-> pos.size]

\* From TP1 on the position cannot lose, and from TP2 on it keeps TP1: the stop
\* stays at or beyond these levels on all later bars, whatever the Chandelier
\* trail does meanwhile.
ProfitLocked ==
    /\ pos.hits >= 1 => AtLeast(pos.stop, setup.entry)
    /\ pos.hits >= 2 => AtLeast(pos.stop, setup.tp1)

\* No bar that leaves the position open moves its stop backwards.  TP2 sets it to TP1, which may
\* lie behind the Chandelier trail of earlier bars; the ratchet that follows in
\* the same call has to bring it back.
StopNeverRetreats ==
    [][pos'.reason = "open" => AtLeast(pos'.stop, pos.stop)]_posVars

\* "Never moves the stop backwards - only ratchets in the favourable direction"
\* (position_manager.py:113), read of every single move_stop a consumer gets.
MovesNeverRetreat ==
    [][\A i \in 1..Len(acts') :
          acts'[i].type = "move_stop" => AtLeast(acts'[i].stop, pos.stop)]_posVars

=============================================================================
