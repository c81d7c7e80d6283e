---------------------------- MODULE SymbolsCache ----------------------------
(***************************************************************************)
(* The file of tradable symbols that the workers share                     *)
(* (app/infra/futures_symbols_cache.py).  In each worker a request thread  *)
(* calls get, an administrator's request calls refresh, and get may start  *)
(* one background refresh.  A write goes to one temporary name that all    *)
(* workers use, and is renamed.  As in HistoryJournal, files are numbered: *)
(* a descriptor keeps the file it opened, whatever name that has now.      *)
(***************************************************************************)
EXTENDS Integers, FiniteSetsExt

CONSTANTS
    Worker,     \* gunicorn workers
    MaxAdmin,   \* bound: refreshes an administrator asks for
    MaxFailures,\* bound: fetches that raise or bring no symbol
    MaxWeeks    \* bound: times the file grows older than STALENESS_SECONDS

ASSUME SymbolsAssumption == IsFiniteSet(Worker) /\ {MaxAdmin, MaxFailures, MaxWeeks} \subseteq Nat

VARIABLES
    inode,      \* file number -> what it holds: "full", "empty" or "torn"
    path, tmp,  \* the file either name stands for, 0 if there is none
    old,        \* whether the file is older than STALENESS_SECONDS
    thread,     \* worker -> thread -> what it does next
    writes,     \* worker -> thread -> the file it writes
    got,        \* worker -> thread -> what its fetch brought
    flag,       \* worker -> _refresh_in_progress
    lock,       \* worker -> the thread that holds _lock, or "free"
    served,     \* worker -> what its last get returned, or "nothing"
    failures, weeks, admins

symbolVars == <<inode, path, tmp, old, thread, writes, got, flag, lock, served, failures, weeks, admins>>

Thread == {"get", "bg", "admin"}
\* One file for every descriptor and every name; a number is used again once no
\* descriptor and no name has it.
File == 1 .. 3 * Cardinality(Worker) + 2
Used(f) == f \in {path, tmp} \/ \E w \in Worker, t \in Thread : writes[w][t] = f

SymbolsInit ==
    /\ inode = [f \in File |-> "torn"] /\ path = 0 /\ tmp = 0
    /\ old = FALSE
    /\ thread = [w \in Worker |-> [t \in Thread |-> "idle"]]
    /\ writes = [w \in Worker |-> [t \in Thread |-> 0]]
    /\ got = [w \in Worker |-> [t \in Thread |-> "nothing"]]
    /\ flag = [w \in Worker |-> FALSE]
    /\ lock = [w \in Worker |-> "free"]
    /\ served = [w \in Worker |-> "nothing"]
    /\ failures = 0 /\ weeks = 0 /\ admins = 0

Goes(w, t, label) == thread' = [thread EXCEPT ![w][t] = label]
Readable == path # 0 /\ inode[path] # "torn"
----------------------------------------------------------------------------
\* A file that cannot be parsed is served as an empty list.
LoadTrustsFile(w) ==
    IF path # 0
    THEN /\ served' = [served EXCEPT ![w] = IF inode[path] = "full" THEN "full" ELSE "empty"]
         /\ Goes(w, "get", "check")
    ELSE Goes(w, "get", "fetch") /\ UNCHANGED served

\* _ensure_loaded: the copy in memory is never returned, both branches read the file.
_ensure_loaded(w) ==
    IF Readable
    THEN served' = [served EXCEPT ![w] = inode[path]] /\ Goes(w, "get", "check")
    ELSE Goes(w, "get", "fetch") /\ UNCHANGED served

Get(w) ==
    /\ thread[w]["get"] = "idle"
    /\ _ensure_loaded(w)
    /\ UNCHANGED <<inode, path, tmp, old, writes, got, flag, lock, failures, weeks, admins>>

\* The bootstrap of get, or refresh with the lock in hand: exchangeInfo arrives, and
\* _write creates the temporary file or truncates the one another writer has.
Fetch(w, t) ==
    /\ thread[w][t] = "fetch"
    /\ \E r \in {"full", "empty"} :
          /\ r = "empty" => failures < MaxFailures
          /\ failures' = IF r = "empty" THEN failures + 1 ELSE failures
          /\ got' = [got EXCEPT ![w][t] = r]
    /\ tmp' = IF tmp = 0 THEN Min({f \in File : ~Used(f)}) ELSE tmp
    /\ inode' = [inode EXCEPT ![tmp'] = "torn"]
    /\ writes' = [writes EXCEPT ![w][t] = tmp']
    /\ Goes(w, t, "fill")
    /\ UNCHANGED <<path, old, flag, lock, served, weeks, admins>>

\* The fetch raises: get returns an empty list, refresh leaves its lock.
FetchRaises(w, t) ==
    /\ thread[w][t] = "fetch" /\ failures < MaxFailures
    /\ failures' = failures + 1
    /\ served' = IF t = "get" THEN [served EXCEPT ![w] = "empty"] ELSE served
    /\ Goes(w, t, CASE t = "get" -> "check" [] t = "bg" -> "finish" [] t = "admin" -> "idle")
    /\ lock' = IF t = "get" THEN lock ELSE [lock EXCEPT ![w] = "free"]
    /\ UNCHANGED <<inode, path, tmp, old, writes, got, flag, weeks, admins>>

\* What two writers of different texts leave in one file is neither of them.
FillTmp(w, t) ==
    /\ thread[w][t] = "fill"
    /\ LET f == writes[w][t] IN
          /\ \/ inode' = [inode EXCEPT ![f] = got[w][t]]
             \/ inode[f] \notin {"torn", got[w][t]} /\ inode' = [inode EXCEPT ![f] = "torn"]
          /\ old' = IF path = f THEN FALSE ELSE old
    /\ Goes(w, t, "rename")
    /\ UNCHANGED <<path, tmp, writes, got, flag, lock, served, failures, weeks, admins>>

\* os.replace, which raises an OSError if another writer has taken the name; _write
\* only logs that.  refresh leaves its lock, get returns what it fetched.
Rename(w, t) ==
    /\ thread[w][t] = "rename"
    /\ IF tmp # 0 THEN path' = tmp /\ tmp' = 0 /\ old' = FALSE ELSE UNCHANGED <<path, tmp, old>>
    /\ served' = IF t = "get" THEN [served EXCEPT ![w] = got[w][t]] ELSE served
    /\ Goes(w, t, CASE t = "get" -> "check" [] t = "bg" -> "finish" [] t = "admin" -> "idle")
    /\ lock' = IF t = "get" THEN lock ELSE [lock EXCEPT ![w] = "free"]
    /\ writes' = [writes EXCEPT ![w][t] = 0]
    /\ got' = [got EXCEPT ![w][t] = "nothing"]
    /\ inode' = [f \in File |-> IF Used(f)' THEN inode[f] ELSE "torn"]
    /\ UNCHANGED <<flag, failures, weeks, admins>>

\* Only a missing file calls for a refresh.
RefreshIfMissing(w) == ~flag[w] /\ path = 0

_should_refresh(w) == ~flag[w] /\ (path = 0 \/ old)

GetChecks(w) ==
    /\ thread[w]["get"] = "check"
    /\ Goes(w, "get", IF _should_refresh(w) THEN "kick" ELSE "idle")
    /\ UNCHANGED <<inode, path, tmp, old, writes, got, flag, lock, served, failures, weeks, admins>>

\* _kick_background_refresh waits for the lock that a refresh holds while it fetches.
\* One get has one background thread to start; a second request thread of the worker
\* finds the flag set.
_kick_background_refresh(w) ==
    /\ thread[w]["get"] = "kick" /\ lock[w] = "free"
    /\ flag' = [flag EXCEPT ![w] = TRUE]
    /\ thread' = [thread EXCEPT ![w]["get"] = "idle", ![w]["bg"] = IF flag[w] THEN @ ELSE "start"]
    /\ UNCHANGED <<inode, path, tmp, old, writes, got, lock, served, failures, weeks, admins>>

\* refresh, from the background thread or from the administrator's route.
Refresh(w, t) ==
    /\ thread[w][t] = (IF t = "bg" THEN "start" ELSE "idle") /\ t # "get"
    /\ lock[w] = "free"
    /\ lock' = [lock EXCEPT ![w] = t]
    /\ t = "admin" => admins < MaxAdmin
    /\ admins' = IF t = "admin" THEN admins + 1 ELSE admins
    /\ Goes(w, t, "fetch")
    /\ UNCHANGED <<inode, path, tmp, old, writes, got, flag, served, failures, weeks>>

\* The flag comes down only behind a refresh that worked.
FinishIfWritten(w) ==
    /\ thread[w]["bg"] = "finish" /\ lock[w] = "free"
    /\ flag' = [flag EXCEPT ![w] = ~Readable]
    /\ Goes(w, "bg", "idle")
    /\ UNCHANGED <<inode, path, tmp, old, writes, got, lock, served, failures, weeks, admins>>

\* The finally block of _background_worker.
Finish(w) ==
    /\ thread[w]["bg"] = "finish" /\ lock[w] = "free"
    /\ flag' = [flag EXCEPT ![w] = FALSE]
    /\ Goes(w, "bg", "idle")
    /\ UNCHANGED <<inode, path, tmp, old, writes, got, lock, served, failures, weeks, admins>>

\* A week passes.
GrowOld ==
    /\ path # 0 /\ ~old /\ weeks < MaxWeeks
    /\ weeks' = weeks + 1
    /\ old' = TRUE
    /\ UNCHANGED <<inode, path, tmp, thread, writes, got, flag, lock, served, failures, admins>>

ServeSymbols(w) ==
    \/ Get(w) \/ GetChecks(w) \/ _kick_background_refresh(w) \/ Refresh(w, "bg") \/ Finish(w)
    \/ \E t \in Thread : Fetch(w, t) \/ FetchRaises(w, t) \/ FillTmp(w, t) \/ Rename(w, t)

SymbolsNext ==
    \/ \E w \in Worker : ServeSymbols(w) \/ Refresh(w, "admin")
    \/ GrowOld

SymbolsSpec == SymbolsInit /\ [][SymbolsNext]_symbolVars

\* Requests keep coming and the threads of a worker keep running; weeks may pass and
\* an administrator may come.
SymbolsFairness ==
    \A w \in Worker :
        /\ WF_symbolVars(Get(w)) /\ WF_symbolVars(GetChecks(w)) /\ WF_symbolVars(Finish(w))
        /\ SF_symbolVars(_kick_background_refresh(w)) /\ SF_symbolVars(Refresh(w, "bg"))
        /\ \A t \in Thread :
              /\ WF_symbolVars(Fetch(w, t) \/ FetchRaises(w, t))
              /\ WF_symbolVars(FillTmp(w, t)) /\ WF_symbolVars(Rename(w, t))
----------------------------------------------------------------------------
\* A refresh that fails in any way does not leave _refresh_in_progress behind, which
\* would stop every later one of this worker.
FlagHasThread == \A w \in Worker : flag[w] => thread[w]["bg"] # "idle"

\* "Callers always see a non-empty list", while every fetch succeeds: no half-written,
\* truncated or mixed file of another worker ever reaches a caller as a list.
NonEmptyWithoutFailures ==
    failures = 0 => \A w \in Worker : served[w] # "empty"

\* "Callers always see a non-empty list (worst case the previous-week snapshot)" (an
\* answer without symbols overwrites the snapshot, a failed bootstrap returns nothing).
AlwaysNonEmpty == \A w \in Worker : served[w] # "empty"

\* "the first worker that grabs the lock does the fetch, the others read whatever the
\* first one wrote" (no file is locked).
OneFetcher ==
    \A v, w \in Worker : \A s, t \in Thread :
        thread[v][s] = "fetch" /\ thread[w][t] = "fetch" => v = w /\ s = t

\* However the workers got in each other's way, the shared file ends up whole and
\* younger than a week.
CacheSettles == <>[](Readable /\ ~old)
=============================================================================
