------------------------------ MODULE MCStores ------------------------------
(***************************************************************************)
(* What the program keeps: the watchlist, the position page's storage, the *)
(* journal of the tuning loop, the cache in memory, the candles of the     *)
(* backtests and the memory of the engineering loop.  They share no state: *)
(* a behaviour runs one of them, and the others rest.                      *)
(***************************************************************************)
EXTENDS PositionPage, Watchlist, HistoryJournal, LruCache, CandleStore, LoopMemory, TLC

VARIABLE machine

\* Configurations of the position page: a sound one with a cut position, one that
\* allocates more than there is, one without emergency money.
Sound  == [total |-> 20, cut |-> 10, emergency |-> 30, btc |-> 30, mid |-> 20,
           small |-> 20, tradable |-> 50, altcoin |-> 10]
Excess == [Sound EXCEPT !.cut = 0, !.total = 10, !.btc = 40, !.mid = 40]
Bare   == [Sound EXCEPT !.emergency = 0]

MCConfigs == {Sound, Excess, Bare}
MCTrades == {0, 2, 5, 8}

Machines == {"watchlist", "page", "journal", "lru", "candles", "scratch", "facts"}

\* The variables of the machines that rest.
Rest(m) ==
    /\ m # "watchlist" => UNCHANGED wlVars
    /\ m # "page" => UNCHANGED pageVars
    /\ m # "journal" => UNCHANGED vars
    /\ m # "lru" => UNCHANGED lruVars
    /\ m # "candles" => UNCHANGED candleVars
    /\ m \notin {"scratch", "facts"} => UNCHANGED memoryVars

StoresInit ==
    /\ machine \in Machines
    /\ WatchlistInit /\ PageInit /\ Init /\ LruInit /\ CandleInit /\ MemoryInit
    /\ machine # "watchlist" => mode = "redis"

StoresNext ==
    /\ UNCHANGED machine
    /\ Rest(machine)
    /\ \/ machine = "watchlist" /\ WatchlistNext
       \/ machine = "page" /\ PageNext
       \/ machine = "journal" /\ Next
       \/ machine = "lru" /\ LruNext
       \/ machine = "candles" /\ CandleNext
       \/ machine = "scratch" /\ ScratchNext
       \/ machine = "facts" /\ FactsNext

StoresSpec ==
    StoresInit
    /\ [][StoresNext]_<<machine, wlVars, pageVars, vars, lruVars, candleVars, memoryVars>>

\* The machines share the model values of their processes and of their keys, so that a
\* few permutations serve them all.
Alike == Permutations(Workers) \cup Permutations(Symbols)
=============================================================================
