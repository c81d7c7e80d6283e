---------------------------- MODULE PositionPage ----------------------------
(***************************************************************************)
(* The position page: the usePosition hook, the calculators it shows and   *)
(* the localStorage behind it, in several browser tabs                     *)
(* (frontend/hooks/use-position.ts, frontend/lib/position/calculator.ts,   *)
(* defaults.ts, db.ts).  Ratios are whole per cents and the amounts whole  *)
(* units; the configurations are chosen so that every share is whole.      *)
(***************************************************************************)
EXTENDS Integers, Sequences, SequencesExt

CONSTANTS
    Users,          \* accounts
    Tabs,           \* browser tabs, one instance of the hook each
    Configs,        \* the configurations the sliders can reach
    DefaultConfig,  \* DEFAULT_CONFIG
    Trades,         \* amounts typed into the two trade fields
    None            \* null: no user, nothing stored, nothing shown

ASSUME PageAssumption ==
    /\ DefaultConfig \in Configs
    /\ Trades \subseteq Int
    /\ None \notin Configs /\ None \notin Users
    /\ \A c \in Configs :
          /\ \A f \in {"total", "cut", "emergency", "btc", "mid", "small", "altcoin"} : c[f] \in Nat
          /\ c.tradable \in 0 .. 100

VARIABLES
    store,      \* position:<user>:config and position:<user>:balance
    tab         \* what each tab shows, and the load it waits for

pageVars == <<store, tab>>

\* The buckets in the order in which a trade drains them.
Ladder == <<"smallTradable", "smallReserve", "mid", "btc", "emergency">>
Bucket == Range(Ladder)
Sum(b) == FoldLeft(LAMBDA acc, k : acc + b[k], 0, Ladder)

-----------------------------------------------------------------------------
(* Calculators. *)

Positive(n) == IF n > 0 THEN n ELSE 0
Least(m, n) == IF m < n THEN m ELSE n

\* What is left to allocate when the cut position is set aside.
Regular(c) == Positive(c.total - c.cut)

CreateDefaultBalance(c) ==
    LET share(percent) == (Regular(c) * percent) \div 100
    IN  [emergency     |-> share(c.emergency),
         btc           |-> share(c.btc),
         mid           |-> share(c.mid),
         smallTradable |-> (Regular(c) * c.small * c.tradable) \div 10000,
         smallReserve  |-> (Regular(c) * c.small * (100 - c.tradable)) \div 10000]

\* drain(key): as much of what is left of the trade as the bucket holds.
Take(acc, k) == IF acc.left > 0 THEN Least(acc.remaining[k], acc.left) ELSE 0
Taken(acc, k, take) ==
    [remaining |-> [acc.remaining EXCEPT ![k] = @ - take],
     consumed  |-> [acc.consumed EXCEPT ![k] = take],
     left      |-> acc.left - take]
Drain(acc, k) == Taken(acc, k, Take(acc, k))

SimulateWhatIf(b, trade) ==
    LET whole == [remaining |-> b, consumed |-> [k \in Bucket |-> 0], left |-> trade]
        small == Drain(Drain(whole, "smallTradable"), "smallReserve")
    IN  Drain(Drain(Drain(small, "mid"), "btc"), "emergency")

\* Mutant: the emergency flag asks whether the bucket is empty.
TouchesOnlyEmpty(w) == w.remaining.emergency = 0

TouchesEmergency(w) == w.consumed.emergency > 0

\* computeRiskLevels: where levels 0 to 5 begin, in half units.
RiskFloors(b) ==
    LET st  == b.smallTradable
        sr  == st + b.smallReserve
        mid == sr + b.mid
        btc == mid + b.btc
    IN  <<0, st, st * 2, sr * 2, mid * 2, btc * 2>>

\* computeRiskLevel: the last level that begins at or below the planned trade.
ComputeRiskLevel(b, planned) ==
    LET reached == {l \in 1 .. 6 : planned * 2 >= RiskFloors(b)[l]}
    IN  IF reached = {} THEN 0 ELSE (CHOOSE l \in reached : \A m \in reached : m <= l) - 1
-----------------------------------------------------------------------------
(* The hook. *)

Closed == [open |-> FALSE, user |-> None, config |-> None, pristine |-> FALSE,
           balance |-> None, load |-> None]
Shows(t) == tab[t].open /\ tab[t].config # None
Ready(t) == Shows(t) /\ tab[t].load = None

PageInit ==
    /\ store = [u \in Users |-> [config |-> None, balance |-> None]]
    /\ tab = [t \in Tabs |-> Closed]

\* saveConfig and saveBalance, for a signed-in user.
Saved(u, c, b) == IF u = None THEN store ELSE [store EXCEPT ![u] = [config |-> c, balance |-> b]]

\* The effect on [config, userId]: a configuration is shown with a fresh
\* allocation, and both are saved.
ShowConfig(t, x, c) ==
    /\ tab' = [tab EXCEPT ![t] = [x EXCEPT !.config = c, !.balance = CreateDefaultBalance(c)]]
    /\ store' = Saved(x.user, c, CreateDefaultBalance(c))

\* The hook mounts: without a user the defaults are shown, with one both values
\* are read and arrive later.
Mount(t, u) ==
    /\ ~tab[t].open
    /\ tab' = [tab EXCEPT ![t] =
                 IF u = None
                 THEN [Closed EXCEPT !.open = TRUE, !.config = DefaultConfig, !.pristine = TRUE,
                                     !.balance = CreateDefaultBalance(DefaultConfig)]
                 ELSE [Closed EXCEPT !.open = TRUE, !.user = u, !.load = store[u]]]
    /\ UNCHANGED store

\* userId changes under the mounted hook.  Both effects run: the first reads what
\* the new user saved, the second saves the configuration still shown as theirs.
SwitchUser(t, u) ==
    /\ tab[t].open /\ u # tab[t].user
    /\ IF u = None
       THEN ShowConfig(t, [tab[t] EXCEPT !.user = None, !.pristine = TRUE, !.load = None], DefaultConfig)
       ELSE LET x == [tab[t] EXCEPT !.user = u, !.load = store[u]]
            IN  IF tab[t].config = None
                THEN tab' = [tab EXCEPT ![t] = x] /\ UNCHANGED store
                ELSE ShowConfig(t, x, tab[t].config)

\* The load arrives.  The parsed configuration is a new object, so the effect
\* runs; only DEFAULT_CONFIG in place of itself changes nothing.
Loaded(t) ==
    /\ tab[t].open /\ tab[t].load # None
    /\ LET x == [tab[t] EXCEPT !.load = None,
                               !.pristine = tab[t].load.config = None]
       IN  CASE tab[t].load.config # None -> ShowConfig(t, x, tab[t].load.config)
             [] tab[t].load.config = None /\ ~tab[t].pristine -> ShowConfig(t, x, DefaultConfig)
             [] OTHER ->
                  /\ tab' = [tab EXCEPT ![t] = [x EXCEPT !.balance =
                               IF tab[t].load.balance = None
                               THEN CreateDefaultBalance(DefaultConfig) ELSE tab[t].load.balance]]
                  /\ UNCHANGED store

\* updateConfig: the updater returns a new object.
UpdateConfig(t, c) ==
    /\ Ready(t)
    /\ ShowConfig(t, [tab[t] EXCEPT !.pristine = FALSE], c)

\* archiveWhatIf: refused if the trade touches the emergency bucket.
ArchiveWhatIf(t, trade) ==
    LET w == SimulateWhatIf(tab[t].balance, trade)
    IN  /\ Ready(t)
        /\ ~TouchesEmergency(w)
        /\ tab' = [tab EXCEPT ![t].balance = w.remaining]
        /\ store' = IF tab[t].user = None THEN store
                    ELSE [store EXCEPT ![tab[t].user].balance = w.remaining]

\* The page is left or the tab is closed; a load still under way is dropped.
Unmount(t) ==
    /\ tab[t].open
    /\ tab' = [tab EXCEPT ![t] = Closed]
    /\ UNCHANGED store

PageNext ==
    \E t \in Tabs :
        \/ \E u \in Users \cup {None} : Mount(t, u) \/ SwitchUser(t, u)
        \/ Loaded(t)
        \/ \E c \in Configs : UpdateConfig(t, c)
        \/ \E trade \in Trades : ArchiveWhatIf(t, trade)
        \/ Unmount(t)

PageSpec == PageInit /\ [][PageNext]_pageVars

-----------------------------------------------------------------------------
Balances == [Bucket -> Nat]
SavedValues == [config : Configs \cup {None}, balance : Balances \cup {None}]

PageTypeOK ==
    /\ store \in [Users -> SavedValues]
    /\ tab \in [Tabs -> [open : BOOLEAN, user : Users \cup {None}, config : Configs \cup {None},
                         pristine : BOOLEAN, balance : Balances \cup {None},
                         load : SavedValues \cup {None}]]

\* However the page got to what it shows (loads, other tabs, other accounts,
\* archived trades), the emergency money is all there: "if the trade touches the
\* emergency money, archiving is forbidden" (docs/position-management-design.md).
EmergencyWhole ==
    \A t \in Tabs : Shows(t) =>
        tab[t].balance.emergency = CreateDefaultBalance(tab[t].config).emergency

\* The risk level never promises less trouble than the simulation of the same
\* trade shows: a trade that drains a bucket is at least at the level named for it.
RiskNeverUnderstates ==
    \A t \in Tabs, trade \in Trades : Shows(t) =>
        LET w == SimulateWhatIf(tab[t].balance, trade)
        IN  \A i \in 2 .. 5 :
                w.consumed[Ladder[i]] > 0 => ComputeRiskLevel(tab[t].balance, trade) >= i

\* "Load persisted config and balance" (use-position.ts): the balance a load
\* brings is the balance the page shows.
SavedBalanceIsShown ==
    [][\A t \in Tabs : Loaded(t) /\ tab[t].load.balance # None =>
           tab'[t].balance = tab[t].load.balance]_pageVars

\* "Keyed by userId so multi-account switches don't leak state" (db.ts): the saved
\* configuration of a user is changed, other than to the default, only from a tab in
\* which that user is signed in.
ConfigIsOwn ==
    [][\A u \in Users : store'[u].config \notin {store[u].config, DefaultConfig} =>
           \E t \in Tabs : tab[t].user = u]_pageVars

\* The trade the page archives is paid for in full.
ArchiveIsCovered ==
    [][\A t \in Tabs, trade \in Trades : ArchiveWhatIf(t, trade) /\ trade >= 0 =>
           Sum(tab'[t].balance) = Sum(tab[t].balance) - trade]_pageVars
=============================================================================
