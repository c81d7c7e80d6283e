----------------------------- MODULE LoopMemory -----------------------------
(***************************************************************************)
(* The memory of the engineering loop (loop/loop_context.py): scratch      *)
(* entries of a process, the episodic file old ones are promoted to, and   *)
(* the durable facts.  Threads put and clear entries while others promote  *)
(* or clean; the process may die, and its scratch with it.                 *)
(*                                                                         *)
(* A value is the number of the call that put it.  Time is counted in      *)
(* days; MIN_AGE_HOURS is MinAge of them.                                  *)
(***************************************************************************)
EXTENDS Integers, Sequences, SequencesExt

CONSTANTS
    Promoter,       \* threads that run promote_all or hygiene
    MemKey,
    Throwaway,      \* values shorter than MIN_VALUE_LEN, or that the denylist names
    MinAge,
    Retention,      \* hygiene keeps episodic records that long
    MaxPuts, MaxDays, MaxDeaths, MaxFacts    \* bounds

ASSUME MemoryAssumption ==
    /\ MinAge \in Nat /\ Retention \in Nat /\ Throwaway \subseteq 1 .. MaxPuts
    /\ {MaxPuts, MaxDays, MaxDeaths, MaxFacts} \subseteq Nat

VARIABLES
    scratch,    \* key -> value and the day it was put
    episodic,   \* the lines of episodic-memory.jsonl
    facts,      \* the entries of durable-facts.md
    fact,       \* the fact that is being promoted
    uuids,
    promoter,   \* thread -> where it is, the keys it has left and what it read
    puts, day, deaths

memoryVars == <<scratch, episodic, facts, fact, uuids, promoter, puts, day, deaths>>

NotSuperseded == 0
NoFact == [uuid |-> 0, key |-> "none"]
NoEntry == [value |-> 0, since |-> 0]
Resting == [at |-> "idle", left |-> {}, key |-> "none", read |-> <<>>, hygiene |-> FALSE]

MemoryInit ==
    /\ scratch = [k \in MemKey |-> NoEntry]
    /\ episodic = <<>> /\ facts = <<>> /\ fact = NoFact /\ uuids = 0
    /\ promoter = [t \in Promoter |-> Resting]
    /\ puts = 0 /\ day = 0 /\ deaths = 0

\* A put replaces the value and its time.
scratch_put ==
    /\ puts < MaxPuts
    /\ \E k \in MemKey : scratch' = [scratch EXCEPT ![k] = [value |-> puts + 1, since |-> day]]
    /\ puts' = puts + 1
    /\ UNCHANGED <<episodic, facts, promoter, day, deaths>>

clear_scratch ==
    /\ \E k \in MemKey : scratch[k] # NoEntry
    /\ scratch' = [k \in MemKey |-> NoEntry]
    /\ UNCHANGED <<episodic, facts, promoter, puts, day, deaths>>
-----------------------------------------------------------------------------
(* promote_all and hygiene. *)

should_promote(e) == e # NoEntry /\ e.value \notin Throwaway /\ day - e.since >= MinAge

\* The keys are collected under the lock.
Collect(t) ==
    /\ promoter[t].at = "idle"
    /\ \E h \in BOOLEAN :
          promoter' = [promoter EXCEPT ![t] =
              [Resting EXCEPT !.at = "next", !.hygiene = h, !.left = {k \in MemKey : should_promote(scratch[k])}]]
    /\ UNCHANGED <<scratch, episodic, facts, puts, day, deaths>>

\* The value is read again, whatever it is by now; a key that is gone is skipped.
ReadEntry(t) ==
    /\ promoter[t].at = "next"
    /\ \E k \in promoter[t].left :
          promoter' = [promoter EXCEPT ![t].left = @ \ {k},
              ![t].at = IF scratch[k] = NoEntry THEN "next" ELSE "append",
              ![t].key = k, ![t].read = <<scratch[k].value>>]
    /\ UNCHANGED <<scratch, episodic, facts, puts, day, deaths>>

AppendRecord(t) ==
    /\ promoter[t].at = "append"
    /\ episodic' = Append(episodic, [ts |-> day, value |-> promoter[t].read[1]])
    /\ promoter' = [promoter EXCEPT ![t].at = "delete"]
    /\ UNCHANGED <<scratch, facts, puts, day, deaths>>

\* Mutant: the entry stays in scratch.
KeepEntry(t) ==
    /\ promoter[t].at = "delete"
    /\ promoter' = [promoter EXCEPT ![t].at = "next"]
    /\ UNCHANGED <<scratch, episodic, facts, puts, day, deaths>>

\* The key is deleted, with whatever value it has by now; one that is gone is a KeyError,
\* which ends the call.
DeleteEntry(t) ==
    /\ promoter[t].at = "delete"
    /\ IF scratch[promoter[t].key] = NoEntry
       THEN promoter' = [promoter EXCEPT ![t] = Resting] /\ UNCHANGED scratch
       ELSE /\ promoter' = [promoter EXCEPT ![t].at = "next"]
            /\ scratch' = [scratch EXCEPT ![promoter[t].key] = NoEntry]
    /\ UNCHANGED <<episodic, facts, puts, day, deaths>>

\* The records that are young enough: the last lines, as every line is appended on its day.
YoungRecords ==
    SubSeq(episodic, Cardinality({i \in DOMAIN episodic : episodic[i].ts < day - Retention}) + 1, Len(episodic))

\* promote_all is over; hygiene goes on and reads the records it keeps.
Promoted(t) ==
    /\ promoter[t].at = "next" /\ promoter[t].left = {}
    /\ promoter' = [promoter EXCEPT ![t] =
          IF ~promoter[t].hygiene THEN Resting
          ELSE [Resting EXCEPT !.at = "rewrite", !.read = YoungRecords]]
    /\ UNCHANGED <<scratch, episodic, facts, puts, day, deaths>>

\* The file is replaced by what was kept.
Rewrite(t) ==
    /\ promoter[t].at = "rewrite"
    /\ episodic' = promoter[t].read
    /\ promoter' = [promoter EXCEPT ![t] = Resting]
    /\ UNCHANGED <<scratch, facts, puts, day, deaths>>

\* The process dies; a rewrite that has truncated the file leaves it empty.
Die ==
    /\ deaths < MaxDeaths
    /\ deaths' = deaths + 1
    /\ scratch' = [k \in MemKey |-> NoEntry]
    /\ promoter' = [t \in Promoter |-> Resting]
    /\ \/ UNCHANGED episodic
       \/ (\E t \in Promoter : promoter[t].at = "rewrite") /\ episodic' = <<>>
    /\ UNCHANGED <<facts, puts, day>>

Tomorrow ==
    /\ day < MaxDays
    /\ day' = day + 1
    /\ UNCHANGED <<scratch, episodic, facts, promoter, puts, deaths>>
-----------------------------------------------------------------------------
(* Durable facts: an entry has the number of its promotion for a uuid, the key it was     *)
(* promoted for, and says whether its text names that key.                                *)

\* Line by line: a line that names the key opens a section, and the next superseded_by
\* line that is not taken closes it.  A heading does not.
_mark_superseded(key, new) ==
    LET names(n) == facts[n].named /\ facts[n].key = key
        open[n \in 0 .. Len(facts)] == n > 0 /\ (open[n - 1] \/ names(n)) /\ facts[n].by # NotSuperseded
    IN  [n \in DOMAIN facts |->
            IF (open[n - 1] \/ names(n)) /\ facts[n].by = NotSuperseded THEN [facts[n] EXCEPT !.by = new] ELSE facts[n]]

\* promote_episodic_to_durable: the old entries are marked with the new uuid...
MarkOld ==
    /\ fact = NoFact /\ uuids < MaxFacts
    /\ \E key \in MemKey :
          /\ fact' = [uuid |-> uuids + 1, key |-> key]
          /\ facts' = _mark_superseded(key, uuids + 1)
    /\ uuids' = uuids + 1
    /\ UNCHANGED <<scratch, episodic, promoter, puts, day, deaths>>

\* ... and the new one is written below them.  Its text is the caller's.
WriteFact ==
    /\ fact # NoFact
    /\ \E named \in BOOLEAN :
          facts' = Append(facts, [uuid |-> fact.uuid, key |-> fact.key, named |-> named, by |-> NotSuperseded])
    /\ fact' = NoFact
    /\ UNCHANGED <<scratch, episodic, promoter, puts, day, deaths, uuids>>

\* The process dies between the two, or while it writes the file.
DieBetween ==
    /\ fact # NoFact /\ deaths < MaxDeaths
    /\ deaths' = deaths + 1
    /\ fact' = NoFact
    /\ facts' \in {facts, <<>>}
    /\ UNCHANGED <<scratch, episodic, promoter, puts, day, uuids>>

\* Durable facts and the two other memories do not touch one another.
FactsNext == MarkOld \/ WriteFact \/ DieBetween
ScratchNext ==
    /\ \/ scratch_put \/ clear_scratch \/ Die \/ Tomorrow
       \/ \E t \in Promoter :
             \/ Collect(t) \/ ReadEntry(t) \/ AppendRecord(t) \/ DeleteEntry(t)
             \/ Promoted(t) \/ Rewrite(t)
    /\ UNCHANGED <<fact, uuids>>

MemorySpec == MemoryInit /\ [][ScratchNext \/ FactsNext]_memoryVars
-----------------------------------------------------------------------------
\* Nothing is remembered twice.  With one promoting thread, whatever is put, cleared or
\* lost meanwhile, a value that was put once is promoted at most once; and of the facts
\* whose text names their key at most one is current, wherever sections begin and end
\* and whatever a death left half done.
RememberedOnce ==
    /\ \A i, j \in DOMAIN episodic : episodic[i].value = episodic[j].value => i = j
    /\ \A m, n \in DOMAIN facts :
          LET current(i) == facts[i].named /\ facts[i].by = NotSuperseded
          IN  current(m) /\ current(n) /\ facts[m].key = facts[n].key => m = n

\* "A scratch entry is promoted when BOTH ..." (the value is read again after the check: a
\* short one put meanwhile is promoted in its place).
PromotedIsWorthy == \A i \in DOMAIN episodic : episodic[i].value \notin Throwaway

\* "Find all Durable Facts entries for the same episodic_key and mark them superseded"
\* (the section of an entry that is superseded already runs on into the next one, and a
\* death leaves a uuid that stands for nothing).
SupersededBySameKey ==
    \A n \in DOMAIN facts : facts[n].by # NotSuperseded =>
        \A m \in DOMAIN facts : facts[m].uuid = facts[n].by => facts[m].key = facts[n].key
=============================================================================
