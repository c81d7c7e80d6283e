----------------------------- MODULE Scheduler ------------------------------
(***************************************************************************)
(* When the tuning loop wakes next (app/loop/scheduler.py).  Time is a     *)
(* week of five-minute ticks that starts on Monday at midnight; the        *)
(* operator's shell, which sleeps until wake_at and starts a generation,   *)
(* is external.                                                            *)
(***************************************************************************)
EXTENDS Integers, SequencesExt

CONSTANTS
    Fitness,        \* best fitness an accepting generation may reach
    Backoff,        \* plateau_backoff_gens
    MaxAccepting    \* bound: generations that accept a candidate

ASSUME SchedulerAssumption ==
    Fitness \subseteq Int /\ Backoff \in Nat \ {0} /\ MaxAccepting \in Nat

VARIABLES
    now,        \* the tick at which next_wake_at is asked
    bests,      \* HISTORY: the best fitness of each generation that accepted something
    skipWeekend,\* weekend_skip
    idle        \* history: ticks since the loop was last awake in active hours

schedVars == <<now, bests, skipWeekend, idle>>

Hour == 12
Week == 7 * 24 * Hour
HourOf(t) == (t \div Hour) % 24

\* quiet_hours_start = 23 and quiet_hours_end = 7 wrap around midnight.
_in_quiet_hours(t) == HourOf(t) >= 23 \/ HourOf(t) < 7
_is_weekend(t) == skipWeekend /\ ((t \div (24 * Hour)) % 7) >= 5
Active(t) == ~_in_quiet_hours(t) /\ ~_is_weekend(t)

\* plateau_count_from_history: generations that accepted nothing are not in the map.
plateau_count ==
    LET Step(acc, fit) == IF fit > acc.prev THEN [prev |-> fit, n |-> 0]
                                            ELSE [acc EXCEPT !.n = @ + 1]
    IN  IF bests = <<>> THEN 0 ELSE FoldLeft(Step, [prev |-> Head(bests), n |-> 0], Tail(bests)).n

\* Tomorrow at the same time, whatever hour that is.
NextActiveTomorrow(t) == t + 24 * Hour

\* _next_active_window: the first active hour within 48, on the hour; else tomorrow.
_next_active_window(t) ==
    LET found == {h \in 1 .. 48 : Active(t + h * Hour)}
    IN  IF found = {} THEN t + 24 * Hour
        ELSE LET c == t + Min(found) * Hour IN Hour * (c \div Hour)

\* next_wake_at.  The age of the last improvement picks 15, 30 or 60 minutes.
next_wake_at(pendingAction, minutes) ==
    CASE ~Active(now) -> _next_active_window(now)
      [] Active(now) /\ pendingAction -> now + 1
      [] Active(now) /\ ~pendingAction /\ plateau_count >= Backoff -> _next_active_window(now)
      [] OTHER -> now + minutes \div 5
----------------------------------------------------------------------------
SchedInit ==
    /\ now \in {d * 24 * Hour + h * Hour + 11 : d \in {0, 4}, h \in {9, 22}}
    /\ skipWeekend \in BOOLEAN
    /\ bests = <<>>
    /\ idle = 0

\* The loop sleeps until wake_at, then runs a generation that accepts or does not.
SleepAndRun ==
    /\ \E pendingAction \in BOOLEAN, minutes \in {15, 30, 60} :
          /\ bests = <<>> => minutes = 60
          /\ LET wake == next_wake_at(pendingAction, minutes)
             IN  /\ now' = wake % Week
                 /\ idle' = (IF Active(now) THEN 0 ELSE idle) + (wake - now)
    /\ \/ bests' = bests
       \/ Len(bests) < MaxAccepting /\ \E f \in Fitness : bests' = Append(bests, f)
    /\ UNCHANGED skipWeekend

SchedNext == SleepAndRun

SchedSpec == SchedInit /\ [][SchedNext]_schedVars
----------------------------------------------------------------------------
\* "back off to the start of the next active window": over nights, weekends, plateaus
\* and the 48 hours after which the search for a window gives up, the loop is never
\* away from active hours for more than the weekend, Friday 23:00 to Monday 7:00, and
\* the hour it may have slept before.
NeverOversleeps == idle <= 57 * Hour

\* "Return the start of the next active window": the loop never wakes in the quiet
\* hours or on a weekend it skips (it does, just after 23:00 and on Saturday night).
WakesActive == Active(now)
=============================================================================
