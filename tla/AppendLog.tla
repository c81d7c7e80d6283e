------------------------------ MODULE AppendLog ------------------------------
(***************************************************************************)
(* What the tuning loop may take HISTORY for when several processes append *)
(* to it: a log to which records are added one at a time, and from which   *)
(* no record goes unless it was exposed to another writer's rotation.      *)
(***************************************************************************)
EXTENDS Naturals

VARIABLES
    safe,       \* records the log holds and that no rotation put at risk
    exposed,    \* records that may be lost
    count       \* records appended

LogInit == safe = {} /\ exposed = {} /\ count = 0

AppendSafe ==
    /\ count' = count + 1
    /\ safe' = safe \cup {count + 1}
    /\ UNCHANGED exposed

AppendExposed ==
    /\ count' = count + 1
    /\ exposed' = exposed \cup {count + 1}
    /\ UNCHANGED safe

Expose ==
    \E S \in SUBSET safe :
        /\ safe' = safe \ S
        /\ exposed' = exposed \cup S
        /\ UNCHANGED count

LogNext == AppendSafe \/ AppendExposed \/ Expose

LogSpec == LogInit /\ [][LogNext]_<<safe, exposed, count>>
=============================================================================
