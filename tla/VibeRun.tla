------------------------------ MODULE VibeRun ------------------------------
(***************************************************************************)
(* One run of the AI trading assistant, from POST .../messages to the end  *)
(* of its executor: the route that reserves quota and enqueues the job     *)
(* (app/api/vibe_routes.py), the executor that runs the agent              *)
(* (app/services/vibe/orchestrator.py, runner.py), and the DELETE route    *)
(* that cancels it (cancellation.py).  They share the run's row, its       *)
(* ledger row, its event list and the cancellation flags, and interleave   *)
(* between any two calls.  VibeSSE adds the reader of the events.          *)
(*                                                                         *)
(* The run's row and the event list live in shared backends (Supabase and  *)
(* the Redis client of redis_client.py); rq is the other Redis, the one at *)
(* REDIS_URL that holds the queue and the cancellation key.  A deployment  *)
(* with Upstash REST only has the first and never the second.  The answer  *)
(* of the reservation RPC is an input here; MeteredRoutes says when it is  *)
(* granted.                                                                *)
(***************************************************************************)
EXTENDS Integers, Sequences

CONSTANTS
    MaxIterations,      \* VIBE_MAX_ITERATIONS
    MaxToolCalls,       \* bound: tool calls of one model answer
    MaxFaults           \* bound: failed calls, crashes, timeouts, broken connections

ASSUME VibeRunAssumption ==
    /\ {MaxIterations, MaxToolCalls} \subseteq Nat \ {0}
    /\ MaxFaults \in Nat

VARIABLES
    route,      \* where send_message is
    rq,         \* the queue's Redis: "up" or "down"
    job,        \* the RQ job
    stopping,   \* a stop command is on its way to the horse
    ledger,     \* status of the run's usage_ledger row
    status,     \* status column of the run's vibe_runs row
    events,     \* the event list of the run
    exec,       \* executor -> its local variables
    localEvent, \* the thread's threading.Event: absent, clear or set
    tokenRedis, \* executor -> its token polls Redis
    cancelKey,  \* vibe:run:{id}:cancelled exists
    cancel,     \* where the DELETE route is
    late,       \* history: executor -> model and tool calls begun with its token set
    ignored,    \* history: model and tool calls begun after the client was told "cancelled"
    faults

vars == <<route, rq, job, stopping, ledger, status, events, exec, localEvent, tokenRedis,
          cancelKey, cancel, late, ignored, faults>>

\* The job runs in an RQ work horse, or in a thread of the web process.
Executor == {"horse", "thread"}

RouteAt == {"reserve", "create", "enqueue", "undo", "running", "failed", "quota"}
JobStatus == {"none", "queued", "started", "canceled", "over"}
RunStatus == {"none", "running", "completed", "completed_with_limit", "failed", "cancelled"}
EventType == {"run_started", "tool_call_start", "tool_call_end", "delta", "card", "done", "error"}
InTry == {"check", "chat", "next_tool", "start_tool", "run_tool"}
ExecAt == InTry \cup {"idle", "start", "fail", "settle", "save", "update", "resettle", "done",
                      "cleanup", "over", "killed"}
Local == [at : ExecAt, iteration : 0 .. MaxIterations, calls : 0 .. MaxToolCalls,
          outcome : {"completed", "completed_with_limit", "failed"}, ledger_consumed : BOOLEAN]

TypeOK ==
    /\ route \in RouteAt
    /\ rq \in {"up", "down"}
    /\ job \in JobStatus
    /\ stopping \in BOOLEAN
    /\ ledger \in {"none", "reserved", "consumed", "released"}
    /\ status \in RunStatus
    /\ events \in Seq(EventType)
    /\ exec \in [Executor -> Local]
    /\ localEvent \in {"absent", "clear", "set"}
    /\ tokenRedis \in [Executor -> BOOLEAN]
    /\ cancelKey \in BOOLEAN
    /\ cancel \in {"idle", "job", "signal", "mark", "answered"}
    /\ late \in [Executor -> Nat]
    /\ ignored \in Nat
    /\ faults \in 0 .. MaxFaults

Fresh == [at |-> "idle", iteration |-> 0, calls |-> 0, outcome |-> "completed",
          ledger_consumed |-> FALSE]

Init ==
    /\ route = "reserve"
    /\ rq \in {"up", "down"}
    /\ job = "none"
    /\ stopping = FALSE
    /\ ledger = "none"
    /\ status = "none"
    /\ events = <<>>
    /\ exec = [x \in Executor |-> Fresh]
    /\ localEvent = "absent"
    /\ tokenRedis = [x \in Executor |-> FALSE]
    /\ cancelKey = FALSE
    /\ cancel = "idle"
    /\ late = [x \in Executor |-> 0]
    /\ ignored = 0
    /\ faults = 0

\* Groups of variables that most steps leave alone.
queueVars == <<rq, job, stopping>>
tokenVars == <<localEvent, tokenRedis, cancelKey>>
historyVars == <<late, ignored>>

Fault == faults < MaxFaults /\ faults' = faults + 1
----------------------------------------------------------------------------
\* send_message.

\* Local dev mode reserves nothing; otherwise reserve_user_quota, whose lost
\* answer reads as a refusal.
Reserve ==
    /\ route = "reserve"
    /\ \/ route' = "create" /\ UNCHANGED <<ledger, faults>>
       \/ route' = "create" /\ ledger' = "reserved" /\ UNCHANGED faults
       \/ route' = "quota" /\ UNCHANGED <<ledger, faults>>
       \/ Fault /\ route' = "quota" /\ ledger' = "reserved"
    /\ UNCHANGED <<queueVars, status, events, exec, tokenVars, cancel, historyVars>>

\* store.create_run; a failed insert lands in the memory of this store object only.
CreateRun ==
    /\ route = "create"
    /\ route' = "enqueue"
    /\ \/ status' = "running" /\ UNCHANGED faults
       \/ Fault /\ UNCHANGED status
    /\ UNCHANGED <<queueVars, ledger, events, exec, tokenVars, cancel, historyVars>>

\* register_run in the web process, then the thread.
StartThread ==
    /\ localEvent' = "clear"
    /\ tokenRedis' = [tokenRedis EXCEPT !["thread"] = (rq = "up")]
    /\ exec' = [exec EXCEPT !["thread"].at = "start"]

\* _enqueue_or_run_sync: a connection error starts the thread, also when the
\* job had already been pushed; any other error gives up.
Enqueue ==
    /\ route = "enqueue"
    /\ \/ /\ rq = "up"
          /\ job' = "queued"
          /\ route' = "running"
          /\ UNCHANGED <<exec, localEvent, tokenRedis, faults>>
       \/ /\ rq = "down"
          /\ StartThread
          /\ route' = "running"
          /\ UNCHANGED <<job, faults>>
       \/ /\ rq = "up" /\ Fault
          /\ job' = "queued"
          /\ StartThread
          /\ route' = "running"
       \/ /\ route' = "undo"
          /\ UNCHANGED <<job, exec, localEvent, tokenRedis, faults>>
    /\ UNCHANGED <<rq, stopping, ledger, status, events, cancelKey, cancel, historyVars>>

\* update_run changes the record if there is one.
update_run(s) == IF status = "none" THEN status ELSE s

\* Not enqueued: the run is marked failed, then the reservation is released.
Undo ==
    /\ route = "undo"
    /\ route' = "failed"
    /\ \/ /\ status' = update_run("failed")
          /\ ledger' = IF ledger = "none" THEN ledger ELSE "released"
          /\ UNCHANGED faults
       \/ /\ Fault
          /\ status' \in {status, update_run("failed")}
          /\ UNCHANGED ledger
    /\ UNCHANGED <<queueVars, events, exec, tokenVars, cancel, historyVars>>

Send == Reserve \/ CreateRun \/ Enqueue \/ Undo
----------------------------------------------------------------------------
\* The executor: run_vibe_agent and VibeOrchestrator.run.

Goto(x, l) == exec' = [exec EXCEPT ![x].at = l]

\* VibeStream: the event is appended, or lost to the memory of this store object.
Publish(e) ==
    \/ events' = Append(events, e) /\ UNCHANGED faults
    \/ Fault /\ UNCHANGED events

\* CancellationToken.is_set: an unreadable Redis reads as "not cancelled".
IsSet(x) ==
    \/ x = "thread" /\ localEvent = "set"
    \/ tokenRedis[x] /\ rq = "up" /\ cancelKey

\* A model or tool call begins; the two counts stop where the properties fail.
CallBegins(x) ==
    /\ late' = IF IsSet(x) /\ late[x] < MaxFaults + 2 THEN [late EXCEPT ![x] = @ + 1] ELSE late
    /\ ignored' = IF cancel = "answered" /\ ignored < 2 THEN ignored + 1 ELSE ignored

\* The RQ worker takes the job and forks a horse, which registers its own token.
Dequeue ==
    /\ job = "queued" /\ rq = "up"
    /\ job' = "started"
    /\ Goto("horse", "start")
    /\ tokenRedis' = [tokenRedis EXCEPT !["horse"] = TRUE]
    /\ UNCHANGED <<route, rq, stopping, ledger, status, events, localEvent, cancelKey, cancel,
                   historyVars, faults>>

\* run_started, the session's context, the user message.
Start(x) ==
    /\ exec[x].at = "start"
    /\ Publish("run_started")
    /\ Goto(x, "check")
    /\ UNCHANGED <<route, queueVars, ledger, status, tokenVars, cancel, historyVars>>

\* The head of the loop: the limit, then the token.
Check(x) ==
    LET e == exec[x]
    IN  /\ e.at = "check"
        /\ \/ /\ e.iteration = MaxIterations
              /\ exec' = [exec EXCEPT ![x].at = "settle", ![x].outcome = "completed_with_limit"]
           \/ /\ e.iteration < MaxIterations
              /\ Goto(x, IF IsSet(x) THEN "fail" ELSE "chat")
        /\ UNCHANGED <<route, queueVars, ledger, status, events, tokenVars, cancel,
                       historyVars, faults>>

\* llm.chat: an error, some tool calls, or the final answer.
Chat(x) ==
    /\ exec[x].at = "chat"
    /\ CallBegins(x)
    /\ \/ /\ Goto(x, "fail")
          /\ UNCHANGED <<events, faults>>
       \/ /\ \E n \in 1 .. MaxToolCalls :
                exec' = [exec EXCEPT ![x].at = "next_tool", ![x].calls = n]
          /\ UNCHANGED <<events, faults>>
       \/ /\ Publish("delta")
          /\ Goto(x, "settle")
    /\ UNCHANGED <<route, queueVars, ledger, status, tokenVars, cancel>>

\* The token is read only at the head of the loop.
NextToolUnchecked(x) ==
    LET e == exec[x]
    IN  /\ e.at = "next_tool"
        /\ IF e.calls = 0
           THEN exec' = [exec EXCEPT ![x].at = "check", ![x].iteration = @ + 1]
           ELSE Goto(x, "start_tool")
        /\ UNCHANGED <<route, queueVars, ledger, status, events, tokenVars, cancel, historyVars,
                       faults>>

\* The token is read before every tool call; after the last one the loop goes on.
NextTool(x) ==
    LET e == exec[x]
    IN  /\ e.at = "next_tool"
        /\ IF e.calls = 0
           THEN exec' = [exec EXCEPT ![x].at = "check", ![x].iteration = @ + 1]
           ELSE Goto(x, IF IsSet(x) THEN "fail" ELSE "start_tool")
        /\ UNCHANGED <<route, queueVars, ledger, status, events, tokenVars, cancel,
                       historyVars, faults>>

StartTool(x) ==
    /\ exec[x].at = "start_tool"
    /\ Publish("tool_call_start")
    /\ Goto(x, "run_tool")
    /\ UNCHANGED <<route, queueVars, ledger, status, tokenVars, cancel, historyVars>>

\* ToolRegistry.execute: an output (a timeout and invalid input are outputs too),
\* or a TypeError for an unknown tool and for one that raised.
RunTool(x) ==
    /\ exec[x].at = "run_tool"
    /\ CallBegins(x)
    /\ \/ /\ Publish("tool_call_end")
          /\ exec' = [exec EXCEPT ![x].at = "next_tool", ![x].calls = @ - 1]
       \/ /\ Goto(x, "fail")
          /\ UNCHANGED <<events, faults>>
    /\ UNCHANGED <<route, queueVars, ledger, status, tokenVars, cancel>>

\* The except branch.
Fail(x) ==
    /\ exec[x].at = "fail"
    /\ Publish("error")
    /\ exec' = [exec EXCEPT ![x].at = "settle", ![x].outcome = "failed"]
    /\ UNCHANGED <<route, queueVars, ledger, status, tokenVars, cancel, historyVars>>

\* A failed run settles like a good one.
SettleAlwaysConsumes(x) ==
    LET e == exec[x]
    IN  /\ e.at = "settle"
        /\ ledger' = IF ledger = "none" THEN ledger ELSE "consumed"
        /\ exec' = [exec EXCEPT ![x].at = IF e.outcome = "failed" THEN "update" ELSE "save",
                                ![x].ledger_consumed = (ledger # "none")]
        /\ UNCHANGED <<route, queueVars, status, events, tokenVars, cancel,
                       historyVars, faults>>

\* A failed run keeps its reservation.
SettleForgetsRelease(x) ==
    LET e == exec[x]
    IN  /\ e.at = "settle"
        /\ ledger' = IF ledger = "none" \/ e.outcome = "failed" THEN ledger ELSE "consumed"
        /\ exec' = [exec EXCEPT ![x].at = IF e.outcome = "failed" THEN "update" ELSE "save",
                                ![x].ledger_consumed = (ledger # "none")]
        /\ UNCHANGED <<route, queueVars, status, events, tokenVars, cancel,
                       historyVars, faults>>

\* Quota after the loop: consume a good run, release a failed one.  A failed
\* call may have taken effect; only an answered consume sets ledger_consumed.
Settle(x) ==
    LET e == exec[x]
        good == e.outcome # "failed"
        settled == IF good THEN "consumed" ELSE "released"
    IN  /\ e.at = "settle"
        /\ \/ /\ ledger # "none"
              /\ ledger' = settled
              /\ exec' = [exec EXCEPT ![x].at = IF good THEN "save" ELSE "update",
                                      ![x].ledger_consumed = good]
              /\ UNCHANGED faults
           \/ /\ ledger # "none"
              /\ Fault
              /\ ledger' \in {ledger, settled}
              /\ Goto(x, IF good THEN "save" ELSE "update")
           \/ /\ ledger = "none"
              /\ Goto(x, IF good THEN "save" ELSE "update")
              /\ UNCHANGED <<ledger, faults>>
        /\ UNCHANGED <<route, queueVars, status, events, tokenVars, cancel, historyVars>>

\* The assistant message, and a card when a tool produced one.
Save(x) ==
    /\ exec[x].at = "save"
    /\ \/ Publish("card")
       \/ UNCHANGED <<events, faults>>
    /\ Goto(x, "update")
    /\ UNCHANGED <<route, queueVars, ledger, status, tokenVars, cancel, historyVars>>

\* The early return of a failed run is missing.
UpdateGoesOn(x) ==
    /\ exec[x].at = "update"
    /\ status' = update_run(exec[x].outcome)
    /\ Goto(x, "resettle")
    /\ UNCHANGED <<route, queueVars, ledger, events, tokenVars, cancel, historyVars, faults>>

\* update_run overwrites whatever status is there; the trace; a failed run ends.
Update(x) ==
    LET e == exec[x]
    IN  /\ e.at = "update"
        /\ \/ /\ status' = update_run(e.outcome)
              /\ UNCHANGED faults
           \/ Fault /\ UNCHANGED status
        /\ Goto(x, IF e.outcome = "failed" THEN "cleanup" ELSE "resettle")
        /\ UNCHANGED <<route, queueVars, ledger, events, tokenVars, cancel, historyVars>>

\* No second attempt.
ResettleSkipped(x) ==
    /\ exec[x].at = "resettle"
    /\ Goto(x, "done")
    /\ UNCHANGED <<route, queueVars, ledger, status, events, tokenVars, cancel,
                   historyVars, faults>>

\* A second attempt to consume, before done is announced.
Resettle(x) ==
    /\ exec[x].at = "resettle"
    /\ \/ /\ ledger # "none" /\ ~exec[x].ledger_consumed
          /\ \/ ledger' = "consumed" /\ UNCHANGED faults
             \/ Fault /\ ledger' \in {ledger, "consumed"}
       \/ /\ ledger = "none" \/ exec[x].ledger_consumed
          /\ UNCHANGED <<ledger, faults>>
    /\ Goto(x, "done")
    /\ UNCHANGED <<route, queueVars, status, events, tokenVars, cancel, historyVars>>

Done(x) ==
    /\ exec[x].at = "done"
    /\ Publish("done")
    /\ Goto(x, "cleanup")
    /\ UNCHANGED <<route, queueVars, ledger, status, tokenVars, cancel, historyVars>>

\* unregister_run in the finally block.
Cleanup(x) ==
    /\ exec[x].at = "cleanup"
    /\ Goto(x, "over")
    /\ localEvent' = IF x = "thread" THEN "absent" ELSE localEvent
    /\ cancelKey' = IF rq = "up" THEN FALSE ELSE cancelKey
    /\ job' = IF x = "horse" THEN "over" ELSE job
    /\ UNCHANGED <<route, rq, stopping, ledger, status, events, tokenRedis, cancel,
                   historyVars, faults>>

Running(x) == exec[x].at \notin {"idle", "over", "killed"}

\* The worker handles the stop command and kills the horse; nothing is undone.
StopHorse ==
    /\ stopping
    /\ Running("horse")
    /\ Goto("horse", "killed")
    /\ UNCHANGED <<route, queueVars, ledger, status, events, tokenVars, cancel,
                   historyVars, faults>>

\* job_timeout raises in the horse: inside the try block it is a failed run,
\* elsewhere it leaves through the finally block.
JobTimeout ==
    /\ Running("horse") /\ exec["horse"].at # "cleanup"
    /\ Fault
    /\ Goto("horse", IF exec["horse"].at \in InTry THEN "fail" ELSE "cleanup")
    /\ UNCHANGED <<route, queueVars, ledger, status, events, tokenVars, cancel,
                   historyVars>>

\* The process of an executor dies; a daemon thread dies with its web process.
Crash(x) ==
    /\ Running(x)
    /\ Fault
    /\ Goto(x, "killed")
    /\ localEvent' = IF x = "thread" THEN "absent" ELSE localEvent
    /\ UNCHANGED <<route, queueVars, ledger, status, events, tokenRedis, cancelKey, cancel,
                   historyVars>>

RunStep(x) ==
    \/ Start(x) \/ Check(x) \/ Chat(x) \/ NextTool(x) \/ StartTool(x) \/ RunTool(x) \/ Fail(x)
    \/ Settle(x) \/ Save(x) \/ Update(x) \/ Resettle(x) \/ Done(x) \/ Cleanup(x)
----------------------------------------------------------------------------
\* DELETE /runs/<id>.

\* The run exists: the client asks to cancel it.
CancelBegin ==
    /\ cancel = "idle"
    /\ route = "running" /\ status # "none"
    /\ cancel' = "job"
    /\ UNCHANGED <<route, queueVars, ledger, status, events, exec, tokenVars,
                   historyVars, faults>>

\* fetch_job raises when Redis is away and the handler skips the rest.  A queued
\* job leaves the queue; a started one is sent the stop command.
CancelJob ==
    /\ cancel = "job"
    /\ \/ /\ rq = "down"
          /\ cancel' = "answered"
          /\ UNCHANGED <<job, stopping>>
       \/ /\ rq = "up"
          /\ cancel' = "signal"
          /\ job' = IF job = "queued" THEN "canceled" ELSE job
          /\ stopping' = (job = "started")
    /\ UNCHANGED <<route, rq, ledger, status, events, exec, tokenVars, historyVars, faults>>

\* signal_cancel_run: the thread's event if this web process holds it, and the key.
CancelSignal ==
    /\ cancel = "signal"
    /\ cancel' = "mark"
    /\ \E sameProcess \in BOOLEAN :
          localEvent' = IF sameProcess /\ localEvent = "clear" THEN "set" ELSE localEvent
    /\ cancelKey' = (cancelKey \/ rq = "up")
    /\ UNCHANGED <<route, queueVars, ledger, status, events, exec, tokenRedis,
                   historyVars, faults>>

\* store.cancel_run, and the answer "cancelled".
CancelMark ==
    /\ cancel = "mark"
    /\ cancel' = "answered"
    /\ \/ status' = "cancelled" /\ UNCHANGED faults
       \/ Fault /\ UNCHANGED status
    /\ UNCHANGED <<route, queueVars, ledger, events, exec, tokenVars, historyVars>>

Cancel == CancelJob \/ CancelSignal \/ CancelMark
----------------------------------------------------------------------------
\* The queue's Redis goes away, and comes back.
RedisBreaks ==
    /\ rq = "up" /\ Fault
    /\ rq' = "down"
    /\ UNCHANGED <<route, job, stopping, ledger, status, events, exec, tokenVars, cancel,
                   historyVars>>

RedisReturns ==
    /\ rq = "down"
    /\ rq' = "up"
    /\ UNCHANGED <<route, job, stopping, ledger, status, events, exec, tokenVars, cancel,
                   historyVars, faults>>

Next ==
    \/ Send
    \/ Dequeue
    \/ \E x \in Executor : RunStep(x) \/ Crash(x)
    \/ StopHorse
    \/ JobTimeout
    \/ CancelBegin
    \/ Cancel
    \/ RedisBreaks
    \/ RedisReturns

Spec == Init /\ [][Next]_vars

\* Threads and processes keep running; the client need not cancel, and a broken
\* Redis need not come back.
Fairness ==
    /\ WF_vars(Send)
    /\ WF_vars(Dequeue)
    /\ \A x \in Executor : WF_vars(RunStep(x))
    /\ WF_vars(StopHorse)
    /\ WF_vars(Cancel)

FairSpec == Spec /\ Fairness
----------------------------------------------------------------------------
TerminalEvent == {"done", "error"}

Published(e) == {n \in DOMAIN events : events[n] = e}

\* The job was pushed and the thread started as well.
RunsTwice == \A x \in Executor : exec[x].at # "idle"

\* A run that is executed once announces its end at most once, and says nothing
\* afterwards: no card, delta or second verdict follows done or error, whatever
\* is cancelled, killed, timed out or lost on the way.
TerminalEventIsLast ==
    ~RunsTwice => \A n \in DOMAIN events : events[n] \in TerminalEvent => n = Len(events)

\* What the stream reported is what is charged: a run that reported an error is not
\* charged, and, by "Mark quota consumed before emitting done so callers see consistent
\* state", a done event with an unconsumed unit takes two failed calls.
ChargedAsReported ==
    ~RunsTwice =>
        /\ Published("error") # {} => ledger # "consumed"
        /\ Published("done") # {} /\ faults < 2 => ledger \in {"none", "consumed"}

\* Once its token is set, an executor begins at most the call it had already
\* decided on, and one more for each time Redis broke in between.
CancelStopsWork == \A x \in Executor : late[x] <= 1 + faults

\* Every reservation of a started run is settled, unless the executor was killed
\* or the job was taken from the queue.
ReservationSettles ==
    (route = "running" /\ ledger = "reserved") ~>
        \/ ledger \in {"consumed", "released"}
        \/ job = "canceled"
        \/ \E x \in Executor : exec[x].at = "killed"

\* The design's promise for cancellation: once the client was told "cancelled"
\* and nothing runs any more, the unit is not left reserved.
CancelReleases ==
    (cancel = "answered" /\ job # "queued" /\ \A x \in Executor : ~Running(x))
        => ledger # "reserved"

\* The plan's promise for the stop button: a run that was reported cancelled
\* begins no more than the one call it was about to make.
CancelInterrupts == ignored <= 1

\* The docstring of the run_started event: it is emitted once per run.
StartedOnce == \A m, n \in Published("run_started") : m = n
=============================================================================
