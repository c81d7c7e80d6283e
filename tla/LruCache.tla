------------------------------ MODULE LruCache ------------------------------
(***************************************************************************)
(* The bounded cache the stores fall back to without Redis                 *)
(* (app/infra/memory_cache.py): an OrderedDict under a lock, a time to     *)
(* live and eviction of the least recently used.  Threads share it; each   *)
(* reads the clock before it takes the lock, so the time it works with may *)
(* be older than the entries it finds.                                     *)
(***************************************************************************)
EXTENDS Integers, Sequences, SequencesExt

CONSTANTS
    CacheThread,    \* request threads of one process
    CacheKey,
    max_size,
    ttl_seconds,
    MaxTime         \* bound: the clock

ASSUME LruAssumption == max_size \in Nat \ {0} /\ ttl_seconds \in Nat /\ MaxTime \in Nat

VARIABLES
    data,       \* the OrderedDict: entries, the least recently used first
    call,       \* thread -> the call it is in, with the time it read
    clock,
    used        \* ghost: every key found or stored, by last use, with its expiry then

lruVars == <<data, call, clock, used>>

NoCall == [op |-> "none"]

LruInit ==
    /\ data = <<>> /\ used = <<>> /\ clock = 0
    /\ call = [t \in CacheThread |-> NoCall]

\* A key has one entry at most.
Without(s, k) ==
    LET at == {i \in DOMAIN s : s[i].key = k}
    IN  IF at = {} THEN s ELSE RemoveAt(s, CHOOSE i \in at : TRUE)
Holds(k) == \E i \in DOMAIN data : data[i].key = k
EntryOf(k) == data[CHOOSE i \in DOMAIN data : data[i].key = k]
Uses(k, expires) == used' = Append(Without(used, k), [key |-> k, expires |-> expires])

\* A call begins: now = time.time(), outside the lock.
Enter(t) ==
    \E op \in {"get", "set", "delete", "clear"}, k \in CacheKey :
        /\ call[t] = NoCall
        /\ call' = [call EXCEPT ![t] = [op |-> op, key |-> k, now |-> clock]]
        /\ UNCHANGED <<data, clock, used>>

Returns(t, op) == call[t].op = op /\ call' = [call EXCEPT ![t] = NoCall] /\ UNCHANGED clock

\* A hit leaves the order as it is.
GetWithoutTouch(t) ==
    LET k == call[t].key
    IN  /\ Returns(t, "get")
        /\ \/ ~Holds(k) /\ UNCHANGED <<data, used>>
           \/ Holds(k) /\ call[t].now > EntryOf(k).expires /\ data' = Without(data, k) /\ UNCHANGED used
           \/ Holds(k) /\ call[t].now <= EntryOf(k).expires /\ UNCHANGED data /\ Uses(k, EntryOf(k).expires)

\* An entry found is moved to the recent end, an expired one removed.
get(t) ==
    LET k == call[t].key
    IN  /\ Returns(t, "get")
        /\ \/ ~Holds(k) /\ UNCHANGED <<data, used>>
           \/ Holds(k) /\ call[t].now > EntryOf(k).expires /\ data' = Without(data, k) /\ UNCHANGED used
           \/ Holds(k) /\ call[t].now <= EntryOf(k).expires
              /\ data' = Append(Without(data, k), EntryOf(k)) /\ Uses(k, EntryOf(k).expires)

\* The entry goes to the recent end; the oldest are evicted above max_size.
set(t) ==
    LET k == call[t].key
        expires == call[t].now + ttl_seconds
        grown == Append(Without(data, k), [key |-> k, expires |-> expires])
    IN  /\ Returns(t, "set")
        /\ data' = SubSeq(grown, Max({1, Len(grown) - max_size + 1}), Len(grown))
        /\ Uses(k, expires)

\* (A deleted key keeps its place among the used ones, as an expired one.)
delete(t) ==
    /\ Returns(t, "delete")
    /\ data' = Without(data, call[t].key)
    /\ used' = [i \in DOMAIN used |-> IF used[i].key = call[t].key THEN [used[i] EXCEPT !.expires = -1] ELSE used[i]]

clear(t) == Returns(t, "clear") /\ data' = <<>> /\ used' = <<>>

Later == clock < MaxTime /\ clock' = clock + 1 /\ UNCHANGED <<data, call, used>>

LruNext ==
    \/ \E t \in CacheThread : Enter(t) \/ get(t) \/ set(t) \/ delete(t) \/ clear(t)
    \/ Later

LruSpec == LruInit /\ [][LruNext]_lruVars
-----------------------------------------------------------------------------
\* An entry goes for one of three reasons only: it was deleted, it has expired, or
\* max_size other keys were used after it.  No interleaving of threads whose clock is
\* behind evicts a key that is among the max_size last used and still alive, and the
\* cache never grows beyond max_size.
RecentSurvives ==
    /\ Len(data) <= max_size
    /\ \A i \in DOMAIN used :
          i > Len(used) - max_size => Holds(used[i].key) \/ clock > used[i].expires
=============================================================================
