------------------------------- MODULE MCVibe -------------------------------
(***************************************************************************)
(* A run of the chat, the store its messages go to and the symbols its     *)
(* tools look up.  They share no state here: a behaviour follows one.      *)
(***************************************************************************)
EXTENDS VibeRun, SessionStore, SymbolsCache, TLC

VARIABLE machine

VibeInit ==
    /\ machine \in {"run", "store", "symbols"}
    /\ Init /\ StoreInit /\ SymbolsInit
    /\ machine # "run" => rq = "up"
    /\ machine # "store" => backend = "redis"

VibeNext ==
    \/ machine = "run" /\ Next /\ UNCHANGED <<machine, storeVars, symbolVars>>
    \/ machine = "store" /\ StoreNext /\ UNCHANGED <<machine, vars, symbolVars>>
    \/ machine = "symbols" /\ SymbolsNext /\ UNCHANGED <<machine, vars, storeVars>>

VibeSpec == VibeInit /\ [][VibeNext]_<<machine, vars, storeVars, symbolVars>>

\* A run that is executed twice (its enqueue was answered with a connection error
\* after the push) is followed in its first iteration and without a further fault.
TwiceBriefly == RunsTwice => (faults <= 1 /\ \A x \in Executor : exec[x].iteration = 0)

\* The job processes and the web workers of the file share their model values.
Alike == Permutations(Horse)
=============================================================================
