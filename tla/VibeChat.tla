------------------------------ MODULE VibeChat ------------------------------
(***************************************************************************)
(* The chat page's side of assistant runs: the useVibe hook and its        *)
(* reducer (frontend/hooks/use-vibe.ts, frontend/lib/vibe/event-reducer.ts)*)
(* polling GET /runs/<id>/events (app/api/vibe_routes.py) and the cursor   *)
(* of the event store (app/infra/vibe_event_store.py).                     *)
(*                                                                         *)
(* JavaScript runs one callback at a time, so an action is what happens    *)
(* between two awaits.  Each send starts a run of its own, so a send, its  *)
(* run and its poller share a name.  The server side is what VibeRun lets  *)
(* a client see: events in order, the status set before done is published, *)
(* and a cancelled run that may or may not be heard of again.              *)
(***************************************************************************)
EXTENDS Numbers

CONSTANTS
    Run,        \* runs the user starts
    NoRun,      \* null
    Limit,      \* default limit of get_run_events
    MaxEvents,  \* bound: events of one run
    MaxEmpty    \* empty polls before the client gives up

ASSUME ChatAssumption ==
    /\ NoRun \notin Run
    /\ {Limit, MaxEvents, MaxEmpty} \subseteq Nat \ {0}

VARIABLES
    log,        \* run -> its event list
    status,     \* run -> its vibe_runs.status
    exec,       \* run -> its executor: working, saved (status written), over
    send,       \* run -> where its sendMessage is
    poller,     \* run -> closure of its startPolling
    timer,      \* pollRef: the poller whose timer was set last
    running,    \* runningRef
    loading,    \* state.loading
    current,    \* state.currentRunId
    stop,       \* where stopRun is, and the run it captured
    shown,      \* run -> positions of the deltas dispatched, in order
    stopped     \* history: the runs whose stopRun has finished

serverVars == <<log, status, exec>>
vars == <<log, status, exec, send, poller, timer, running, loading, current, stop, shown, stopped>>

\* The statuses that end a poller: completed_with_limit is not among them.
Terminal == {"completed", "failed", "cancelled"}
Status == Terminal \cup {"none", "running", "completed_with_limit"}
Event == {"run_started", "delta", "done", "error"}
\* A poller whose promise was rejected is lost: nobody catches it.
Poller == [at : {"none", "scheduled", "status", "answered", "over", "lost"}, cursor : 0 .. MaxEvents,
           empty : 0 .. MaxEmpty, seen : Status,
           from : 0 .. MaxEvents, upTo : 0 .. MaxEvents]
Idle == [at |-> "none", cursor |-> 0, empty |-> 0, seen |-> "none", from |-> 0, upTo |-> 0]

TypeOK ==
    /\ log \in [Run -> Seq(Event)]
    /\ status \in [Run -> Status]
    /\ exec \in [Run -> {"none", "working", "saved", "over"}]
    /\ send \in [Run -> {"idle", "token", "request", "sent", "failed"}]
    /\ poller \in [Run -> Poller]
    /\ timer \in Run \cup {NoRun}
    /\ running \in BOOLEAN
    /\ loading \in BOOLEAN
    /\ current \in Run \cup {NoRun}
    /\ stop \in [at : {"idle", "cancelling", "cancelled"}, run : Run \cup {NoRun}]
    /\ shown \in [Run -> Seq(1 .. MaxEvents)]
    /\ stopped \subseteq Run

Init ==
    /\ log = [r \in Run |-> <<>>]
    /\ status = [r \in Run |-> "none"]
    /\ exec = [r \in Run |-> "none"]
    /\ send = [r \in Run |-> "idle"]
    /\ poller = [r \in Run |-> Idle]
    /\ timer = NoRun
    /\ running = FALSE
    /\ loading = FALSE
    /\ current = NoRun
    /\ stop = [at |-> "idle", run |-> NoRun]
    /\ shown = [r \in Run |-> <<>>]
    /\ stopped = {}
----------------------------------------------------------------------------
\* The server.

Ended(r) == \E n \in DOMAIN log[r] : log[r][n] \in {"done", "error"}

Emit(r, e) == log' = [log EXCEPT ![r] = Append(@, e)]
clientVars == <<send, poller, timer, running, loading, current, stop, shown, stopped>>

\* The executor publishes run_started, then deltas.
Produce(r) ==
    /\ exec[r] = "working" /\ ~Ended(r)
    /\ Len(log[r]) < MaxEvents - 1
    /\ Emit(r, IF log[r] = <<>> THEN "run_started" ELSE "delta")
    /\ UNCHANGED <<status, exec, clientVars>>

\* A failed run publishes its error, then writes its status, and is over.
FailRun(r) ==
    /\ exec[r] = "working" /\ log[r] # <<>>
    /\ \/ /\ ~Ended(r)
          /\ Emit(r, "error")
          /\ UNCHANGED <<status, exec>>
       \/ /\ Ended(r)
          /\ status' = [status EXCEPT ![r] = "failed"]
          /\ exec' = [exec EXCEPT ![r] = "over"]
          /\ UNCHANGED log
    /\ UNCHANGED clientVars

\* A good run writes its status, then publishes done, and is over.
CompleteRun(r) ==
    /\ log[r] # <<>> /\ ~Ended(r)
    /\ \/ /\ exec[r] = "working"
          /\ \E s \in {"completed", "completed_with_limit"} : status' = [status EXCEPT ![r] = s]
          /\ exec' = [exec EXCEPT ![r] = "saved"]
          /\ UNCHANGED log
       \/ /\ exec[r] = "saved"
          /\ Emit(r, "done")
          /\ exec' = [exec EXCEPT ![r] = "over"]
          /\ UNCHANGED status
    /\ UNCHANGED clientVars

Serve == \E r \in Run : Produce(r) \/ FailRun(r) \/ CompleteRun(r)

\* get_events: without a cursor the first Limit events, with one the last Limit
\* of those after it (filtered[-limit:]).  The page is a range of positions.
PageFrom(r, cursor) ==
    IF cursor # 0 /\ Len(log[r]) - Limit > cursor THEN Len(log[r]) - Limit ELSE cursor
PageUpTo(r, cursor) ==
    IF cursor = 0 /\ Limit < Len(log[r]) THEN Limit ELSE Len(log[r])
----------------------------------------------------------------------------
\* sendMessage.

\* The composer and the suggestions are live; the guard looks at runningRef, then
\* awaits the token.
SendBegin(r) ==
    /\ send[r] = "idle"
    /\ ~loading /\ ~running
    /\ send' = [send EXCEPT ![r] = "token"]
    /\ UNCHANGED <<serverVars, poller, timer, running, loading, current, stop, shown, stopped>>

\* The token is there: runningRef is set and the request goes out.
SendRequest(r) ==
    /\ send[r] = "token"
    /\ send' = [send EXCEPT ![r] = "request"]
    /\ running' = TRUE
    /\ UNCHANGED <<serverVars, poller, timer, loading, current, stop, shown, stopped>>

\* clearTimeout(pollRef.current): only a timer that has not fired can be cleared.
Cleared == IF timer # NoRun /\ poller[timer].at = "scheduled"
           THEN [poller EXCEPT ![timer].at = "over"] ELSE poller

\* The run was created: START_RUN and startPolling.
SendReply(r) ==
    /\ send[r] = "request"
    /\ send' = [send EXCEPT ![r] = "sent"]
    /\ status' = [status EXCEPT ![r] = "running"]
    /\ exec' = [exec EXCEPT ![r] = "working"]
    /\ loading' = TRUE
    /\ current' = r
    /\ poller' = [Cleared EXCEPT ![r].at = "scheduled"]
    /\ timer' = r
    /\ UNCHANGED <<log, running, stop, shown, stopped>>

\* There is no token: SET_ERROR, which also stops the spinner of another run.
SendNoToken(r) ==
    /\ send[r] = "token"
    /\ send' = [send EXCEPT ![r] = "failed"]
    /\ loading' = FALSE
    /\ UNCHANGED <<serverVars, poller, timer, running, current, stop, shown, stopped>>

\* The message needs a session of its own first, or its session turned out to be
\* gone: createSession resets the reducer.
SendResets(r) ==
    /\ send[r] = "request"
    /\ loading' = FALSE
    /\ current' = NoRun
    /\ UNCHANGED <<serverVars, send, poller, timer, running, stop, shown, stopped>>

\* The request failed: SET_ERROR; a session that could not be created fails silently.
SendFails(r) ==
    /\ send[r] = "request"
    /\ send' = [send EXCEPT ![r] = "failed"]
    /\ running' = FALSE
    /\ loading' \in {FALSE, loading}
    /\ UNCHANGED <<serverVars, poller, timer, current, stop, shown, stopped>>

\* Its answer cannot be read: the promise is rejected, and runningRef stays set.
SendRejects(r) ==
    /\ send[r] = "request"
    /\ send' = [send EXCEPT ![r] = "failed"]
    /\ UNCHANGED <<serverVars, poller, timer, running, loading, current, stop, shown, stopped>>
----------------------------------------------------------------------------
\* startPolling's tick.

\* The timer fires; the route reads the run's row first ...
TickFires(r) ==
    /\ poller[r].at = "scheduled"
    /\ poller' = [poller EXCEPT ![r].at = "status", ![r].seen = status[r]]
    /\ UNCHANGED <<serverVars, send, timer, running, loading, current, stop, shown, stopped>>

\* ... and the page of events next.
TickAnswered(r) ==
    LET c == poller[r].cursor
    IN  /\ poller[r].at = "status"
        /\ poller' = [poller EXCEPT ![r].at = "answered", ![r].from = PageFrom(r, c),
                                    ![r].upTo = PageUpTo(r, c)]
        /\ UNCHANGED <<serverVars, send, timer, running, loading, current, stop, shown, stopped>>

\* The cursor stays at the first event of the page.
CursorAtFirst(p) == IF p.from < p.upTo THEN p.from + 1 ELSE p.cursor

\* lastEventId after the page: its last event.
CursorAfter(p) == IF p.from < p.upTo THEN p.upTo ELSE p.cursor

\* emptyCount after the page, counted as far as it matters.
EmptyAfter(p) == IF p.from < p.upTo THEN 0 ELSE IF p.empty < MaxEmpty THEN p.empty + 1 ELSE p.empty

\* Only success ends the polling.
StopsWhenCompleted(p) == p.seen = "completed"

\* shouldStop.
ShouldStop(p) == p.seen \in Terminal \/ EmptyAfter(p) = MaxEmpty

\* The events of a page go through the reducer, in order; then the status decides
\* whether the poller goes on.  It never asks whether its run is still wanted.
TickApplied(r) ==
    LET p == poller[r]
        page == p.from + 1 .. p.upTo
        deltas == Ascending({n \in page : log[r][n] = "delta"})
        ends == \E n \in page : log[r][n] \in {"done", "error"}
        starts == \E n \in page : log[r][n] = "run_started"
        stops == ShouldStop(p)
    IN  /\ p.at = "answered"
        /\ shown' = [shown EXCEPT ![r] = @ \o deltas]
        /\ loading' = CASE ends \/ p.seen = "completed" -> FALSE
                        [] starts /\ ~ends /\ p.seen # "completed" -> TRUE
                        [] OTHER -> loading
        /\ current' = CASE ends \/ p.seen = "completed" -> NoRun
                        [] starts /\ ~ends /\ p.seen # "completed" -> r
                        [] OTHER -> current
        /\ poller' = [poller EXCEPT ![r].at = IF stops THEN "over" ELSE "scheduled",
                                    ![r].cursor = CursorAfter(p), ![r].empty = EmptyAfter(p),
                                    ![r].seen = "none", ![r].from = 0, ![r].upTo = 0]
        /\ running' = IF stops THEN FALSE ELSE running
        /\ timer' = IF stops THEN NoRun ELSE r
        /\ UNCHANGED <<serverVars, send, stop, stopped>>

\* SET_ERROR leaves the page loading.
TickFailsLoading(r) ==
    /\ poller[r].at = "status"
    /\ poller' = [poller EXCEPT ![r].at = "over"]
    /\ running' = FALSE
    /\ timer' = NoRun
    /\ UNCHANGED <<serverVars, send, loading, current, stop, shown, stopped>>

\* The poll failed: SET_ERROR, and the poller ends.
TickFails(r) ==
    /\ poller[r].at = "status"
    /\ poller' = [poller EXCEPT ![r].at = "over"]
    /\ loading' = FALSE
    /\ running' = FALSE
    /\ timer' = NoRun
    /\ UNCHANGED <<serverVars, send, current, stop, shown, stopped>>

\* The poll is rejected: the body breaks off (res.text() is outside the try of
\* requestOnce) or holds no events.  tick has no catch: the poller is gone, and the
\* page, runningRef and pollRef stay as they are.
TickRejects(r) ==
    /\ poller[r].at = "status"
    /\ poller' = [poller EXCEPT ![r].at = "lost"]
    /\ UNCHANGED <<serverVars, send, timer, running, loading, current, stop, shown, stopped>>
----------------------------------------------------------------------------
\* stopRun.

\* The stop button: the timer is cleared and the DELETE request goes out.
StopBegin ==
    /\ stop.at = "idle"
    /\ loading
    /\ poller' = Cleared
    /\ timer' = NoRun
    /\ stop' = [at |-> IF current = NoRun THEN "cancelled" ELSE "cancelling", run |-> current]
    /\ UNCHANGED <<serverVars, send, running, loading, current, shown, stopped>>

\* The server cancels the run and perhaps kills its executor, or the request fails.
StopCancels ==
    /\ stop.at = "cancelling"
    /\ stop' = [stop EXCEPT !.at = "cancelled"]
    /\ \/ /\ status' = [status EXCEPT ![stop.run] = "cancelled"]
          /\ exec' \in {exec, [exec EXCEPT ![stop.run] = "over"]}
       \/ UNCHANGED <<status, exec>>
    /\ UNCHANGED <<log, send, poller, timer, running, loading, current, shown, stopped>>

\* runningRef is cleared and a done event is dispatched.
StopEnds ==
    /\ stop.at = "cancelled"
    /\ stop' = [at |-> "idle", run |-> NoRun]
    /\ running' = FALSE
    /\ loading' = FALSE
    /\ current' = NoRun
    /\ stopped' = stopped \cup ({stop.run} \ {NoRun})
    /\ UNCHANGED <<serverVars, send, poller, timer, shown>>

Stop == StopCancels \/ StopEnds
Tick(r) == TickFires(r) \/ TickAnswered(r) \/ TickApplied(r) \/ TickFails(r) \/ TickRejects(r)

Next ==
    \/ Serve
    \/ \E r \in Run : SendBegin(r) \/ SendRequest(r) \/ SendNoToken(r)
    \/ \E r \in Run : SendResets(r) \/ SendReply(r) \/ SendFails(r) \/ SendRejects(r)
    \/ \E r \in Run : Tick(r)
    \/ StopBegin
    \/ Stop

Spec == Init /\ [][Next]_vars

\* Promises settle, timers fire, and executors that are alive go on.
Fairness ==
    /\ WF_vars(Serve)
    /\ \A r \in Run : WF_vars(SendRequest(r) \/ SendNoToken(r)) /\ WF_vars(SendReply(r) \/ SendFails(r) \/ SendRejects(r))
    /\ \A r \in Run : WF_vars(Tick(r))
    /\ WF_vars(Stop)

FairSpec == Spec /\ Fairness
----------------------------------------------------------------------------
\* "按 event_id 去重": no delta of a run is dispatched twice or before an earlier
\* one, however polls, stops and new runs interleave.
DeltasInOrder ==
    \A r \in Run : \A m, n \in DOMAIN shown[r] : m < n => shown[r][m] < shown[r][n]

Polling == {"scheduled", "status", "answered"}

\* The poller of a run is alive and the end of the run still before it: it will stop
\* the spinner.
Owes(r) ==
    /\ poller[r].at \in Polling
    /\ \A n \in 1 .. poller[r].cursor : log[r][n] \notin {"done", "error"}

\* The ways in which a poller leaves its spinner behind: its poll was rejected; it gave
\* up on empty pages; its first page, read when the run had failed, did not reach the
\* error; or the user stopped the run while a poll of it was in flight.
Forsaken(r) ==
    \/ poller[r].at = "lost"
    \/ poller[r].at = "over" /\ poller[r].empty = MaxEmpty
    \/ poller[r].at = "over" /\ status[r] = "failed"
         /\ poller[r].cursor = Limit /\ Limit < Len(log[r])
    \/ poller[r].at = "over" /\ r \in stopped

\* Whatever the page spins for has a poller of its own that will stop the spinner, also
\* when two sends overlapped, cleared each other's timers or were stopped.  The
\* ways out are those of that very run, never another's.
SpinnerHasPoller ==
    loading /\ stop.at = "idle" =>
        current # NoRun /\ (Owes(current) \/ Forsaken(current))

\* "Always returns the parsed JSON envelope ... instead of throwing" (api.ts, request):
\* a page whose poll fails does not spin on.
PollFailureShows ==
    \A r \in Run : poller[r].at = "lost" => ~(loading /\ current = r)

\* Every poller ends, whatever happens to its run.
PollersEnd == \A r \in Run : poller[r].at = "scheduled" ~> poller[r].at \in {"over", "lost"}

\* The cursor's docstring, "events strictly after this event_id": a client that
\* has dispatched an event has dispatched all deltas before it.
NoDeltaSkipped ==
    \A r \in Run : \A n \in DOMAIN shown[r] :
        shown[r][n] = IF n = 1 THEN 2 ELSE shown[r][n - 1] + 1

\* The guard of sendMessage: while a run is in progress no other one is started.
OneRunAtATime ==
    \A q, r \in Run : q # r => ({exec[q], exec[r]} \subseteq {"working", "saved"} => stopped # {})

\* "local state is still cleaned up": once stopRun has returned and no other
\* message was sent, the page does not go back to loading.
StopIsFinal ==
    [][(stopped # {} /\ ~loading /\ \A r \in Run : send[r] # "request") => ~loading']_vars
=============================================================================
