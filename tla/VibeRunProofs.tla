---------------------------- MODULE VibeRunProofs ----------------------------
(***************************************************************************)
(* Proofs about a run of the chat (app/api/vibe_routes.py,                 *)
(* app/services/vibe/orchestrator.py, runner.py, cancellation.py): for     *)
(* every number of iterations, tool calls and faults, the state stays well *)
(* formed, a terminal event is the last one, what was reported is what is  *)
(* charged, and a set token stops the work.                                *)
(***************************************************************************)
EXTENDS VibeRun, TLAPS

\* The program counters, by what has been decided there.
Calling == {"chat", "start_tool", "run_tool"}
BeforeEnd == InTry \cup {"start", "fail"}
Settled == {"save", "update", "resettle", "done"}

\* The run is handed to its executors once, by a route that has then ended, and only
\* the job makes a horse.
HandedOver ==
    /\ route # "running" => job = "none" /\ \A x \in Executor : exec[x].at = "idle"
    /\ exec["horse"].at # "idle" => job \in {"started", "over"}
    /\ \A x \in Executor : exec[x].at = "idle" => exec[x] = Fresh /\ late[x] = 0

\* The connection error after the push: the fault that lets a run be executed twice
\* cost none of the calls that CancelStopsWork counts.
Twice == exec["thread"].at # "idle" /\ job # "none"
Wasted == IF Twice THEN 1 ELSE 0

\* The DELETE route has signalled, and nothing of the signal is left for x.
Spent(x) ==
    /\ cancel \in {"mark", "answered"}
    /\ ~cancelKey
    /\ ~(x = "thread" /\ localEvent = "set")

\* A signal comes from the DELETE route only.
Signalled == cancelKey \/ localEvent = "set" => cancel \in {"mark", "answered"}

\* An executor whose token reads "not set", or that has read so and not yet made its
\* call, either will never see the token set again or has a call in hand.
InHand(x) == Spent(x) \/ late[x] + Wasted <= faults
LateInv ==
    \A x \in Executor :
        /\ late[x] + Wasted <= faults + 1
        /\ exec[x].at \in Calling => InHand(x)
        /\ ~IsSet(x) /\ exec[x].at \notin {"over", "killed"} => InHand(x)

\* What an executor on its own has announced and charged, by where it is.
Good(x) == exec[x].outcome # "failed"
Open(x) == exec[x].at \in BeforeEnd \/ (exec[x].at \in Settled \cup {"settle"} /\ Good(x))
NoTerminal == \A n \in DOMAIN events : events[n] \notin TerminalEvent
AnnouncedBy(x) ==
    /\ exec[x].at \in BeforeEnd \cup {"save", "resettle", "done"} => Good(x)
    /\ Open(x) => NoTerminal
    /\ Good(x) => Published("error") = {}
    /\ ~Good(x) => Published("done") = {}
ChargedBy(x) ==
    /\ exec[x].at \in BeforeEnd \cup {"settle"} => ledger # "consumed" /\ ~exec[x].ledger_consumed
    /\ ~Good(x) => ledger # "consumed"
    /\ exec[x].at \in Settled /\ Good(x) =>
          IF exec[x].ledger_consumed THEN ledger = "consumed" ELSE ledger = "none" \/ faults >= 1 
    /\ exec[x].at = "done" \/ Published("done") # {} => ledger \in {"none", "consumed"} \/ faults >= 2
    /\ Published("done") # {} => ~Open(x)
TerminalIsLast == \A n \in DOMAIN events : events[n] \in TerminalEvent => n = Len(events)
Reported(x) == TerminalIsLast /\ AnnouncedBy(x) /\ ChargedBy(x)
EndInv ==
    ~RunsTwice =>
        /\ (\A x \in Executor : exec[x].at = "idle") => events = <<>> /\ ledger # "consumed"
        /\ \A x \in Executor : exec[x].at # "idle" => Reported(x)

\* The counters of the loop are within their bounds where they are moved on.
LoopInv ==
    \A x \in Executor :
        /\ exec[x].at \in Calling \cup {"next_tool"} => exec[x].iteration < MaxIterations
        /\ exec[x].at \in {"start_tool", "run_tool"} => exec[x].calls > 0

TypeInv == TypeOK /\ LoopInv
-----------------------------------------------------------------------------
LEMMA LocalFacts ==
    ASSUME TypeOK, NEW x \in Executor
    PROVE  /\ exec[x] \in Local
           /\ exec[x].at \in ExecAt
           /\ exec[x].iteration \in 0 .. MaxIterations
           /\ exec[x].calls \in 0 .. MaxToolCalls
           /\ exec[x].outcome \in {"completed", "completed_with_limit", "failed"}
           /\ exec[x].ledger_consumed \in BOOLEAN
BY DEF TypeOK, Local

\* A step of an executor changes its own locals only.
LEMMA Becomes ==
    ASSUME TypeOK, NEW x \in Executor, NEW r \in Local, exec' = [exec EXCEPT ![x] = r]
    PROVE  /\ exec' \in [Executor -> Local]
           /\ exec'[x] = r
           /\ \A y \in Executor : y # x => exec'[y] = exec[y]
BY DEF TypeOK

LEMMA GotoFacts ==
    ASSUME TypeOK, NEW x \in Executor, NEW l \in ExecAt, Goto(x, l)
    PROVE  /\ exec' \in [Executor -> Local]
           /\ exec'[x].at = l
           /\ exec'[x].iteration = exec[x].iteration
           /\ exec'[x].calls = exec[x].calls
           /\ exec'[x].outcome = exec[x].outcome
           /\ exec'[x].ledger_consumed = exec[x].ledger_consumed
           /\ \A y \in Executor : y # x => exec'[y] = exec[y]
<1>1. exec' = [exec EXCEPT ![x] = [exec[x] EXCEPT !.at = l]]
  BY DEF Goto
<1>2. [exec[x] EXCEPT !.at = l] \in Local
  BY LocalFacts DEF Local
<1>3. /\ exec' \in [Executor -> Local]
      /\ exec'[x] = [exec[x] EXCEPT !.at = l]
      /\ \A y \in Executor : y # x => exec'[y] = exec[y]
  BY <1>1, <1>2, Becomes
<1> QED BY <1>3, LocalFacts DEF Local

LEMMA PublishFacts ==
    ASSUME TypeOK, NEW e \in EventType, Publish(e)
    PROVE  /\ events' \in Seq(EventType)
           /\ faults' \in 0 .. MaxFaults
           /\ events' = events \/ events' = Append(events, e)
           /\ faults' = faults \/ faults' = faults + 1
<1>1. events \in Seq(EventType) /\ faults \in 0 .. MaxFaults
  BY DEF TypeOK
<1>2. Append(events, e) \in Seq(EventType)
  BY <1>1
<1>3. \/ events' = Append(events, e) /\ faults' = faults
      \/ faults < MaxFaults /\ faults' = faults + 1 /\ events' = events
  BY DEF Publish, Fault
<1>4. faults' \in 0 .. MaxFaults
  BY <1>1, <1>3, VibeRunAssumption
<1> QED BY <1>1, <1>2, <1>3, <1>4

\* The bounds of the loop after a step of x, given what it becomes or where it goes.
LEMMA LoopBecomes ==
    ASSUME TypeInv, NEW x \in Executor, NEW r \in Local, exec' = [exec EXCEPT ![x] = r],
           r.at \in Calling \cup {"next_tool"} => r.iteration < MaxIterations,
           r.at \in {"start_tool", "run_tool"} => r.calls > 0
    PROVE  exec' \in [Executor -> Local] /\ LoopInv'
<1>1. /\ exec' \in [Executor -> Local] /\ exec'[x] = r
      /\ \A y \in Executor : y # x => exec'[y] = exec[y]
  BY Becomes DEF TypeInv
<1> QED BY <1>1 DEF TypeInv, LoopInv

LEMMA LoopGoes ==
    ASSUME TypeInv, NEW x \in Executor, NEW l \in ExecAt, Goto(x, l),
           l \in Calling \cup {"next_tool"} => exec[x].iteration < MaxIterations,
           l \in {"start_tool", "run_tool"} => exec[x].calls > 0
    PROVE  exec' \in [Executor -> Local] /\ LoopInv'
<1>1. /\ exec' \in [Executor -> Local] /\ exec'[x].at = l
      /\ exec'[x].iteration = exec[x].iteration /\ exec'[x].calls = exec[x].calls
      /\ \A y \in Executor : y # x => exec'[y] = exec[y]
  BY GotoFacts DEF TypeInv
<1> QED BY <1>1 DEF TypeInv, LoopInv

LEMMA TypeInit == Init => TypeInv
<1> SUFFICES ASSUME Init PROVE TypeInv OBVIOUS
<1>1. exec \in [Executor -> Local]
  BY VibeRunAssumption DEF Init, Fresh, Local, ExecAt, InTry
<1>2. tokenRedis \in [Executor -> BOOLEAN] /\ stopping \in BOOLEAN /\ cancelKey \in BOOLEAN
  BY DEF Init
<1>3. LoopInv
  BY DEF Init, Fresh, LoopInv, Calling
<1> QED BY <1>1, <1>2, <1>3, VibeRunAssumption DEF Init, TypeOK, TypeInv, RouteAt, JobStatus, RunStatus

LEMMA TypeSend == TypeInv /\ Send => TypeInv'
<1> SUFFICES ASSUME TypeOK, LoopInv, Send PROVE TypeOK' /\ LoopInv' BY DEF TypeInv
<1> USE VibeRunAssumption DEF TypeOK, Fault, queueVars, tokenVars, historyVars, RouteAt, JobStatus,
        RunStatus
<1>1. CASE Reserve BY <1>1 DEF Reserve, LoopInv
<1>2. CASE CreateRun BY <1>2 DEF CreateRun, LoopInv
<1>3. CASE Enqueue
  <2>1. ASSUME StartThread PROVE /\ exec' \in [Executor -> Local]
                                 /\ tokenRedis' \in [Executor -> BOOLEAN]
                                 /\ localEvent' = "clear"
                                 /\ LoopInv'
    <3>1. "thread" \in Executor /\ "start" \in ExecAt
      BY DEF Executor, ExecAt
    <3>2. Goto("thread", "start")
      BY <2>1 DEF StartThread, Goto
    <3>3. exec' \in [Executor -> Local] /\ LoopInv'
      BY <3>1, <3>2, LoopGoes DEF TypeInv, Calling
    <3>4. tokenRedis' \in [Executor -> BOOLEAN]
      BY <2>1 DEF StartThread
    <3> QED BY <3>3, <3>4, <2>1 DEF StartThread
  <2> QED BY <1>3, <2>1 DEF Enqueue, LoopInv
<1>4. CASE Undo BY <1>4 DEF Undo, update_run, LoopInv
<1> QED BY <1>1, <1>2, <1>3, <1>4 DEF Send

LEMMA TypeRunStep == ASSUME TypeInv, NEW x \in Executor, RunStep(x) PROVE TypeInv'
<1>0. /\ TypeOK /\ LoopInv /\ exec[x] \in Local
      /\ {"run_started", "delta", "tool_call_start", "tool_call_end", "error", "card", "done"}
            \subseteq EventType
      /\ {"check", "run_tool", "update", "done", "cleanup", "over", "save", "resettle"} \subseteq ExecAt
  BY LocalFacts DEF EventType, TypeInv, ExecAt, InTry
<1>1. CASE Start(x)
  <2>1. exec' \in [Executor -> Local] /\ LoopInv'
    BY <1>0, <1>1, LoopGoes DEF Start, TypeInv, LoopInv, Calling
  <2>2. events' \in Seq(EventType) /\ faults' \in 0 .. MaxFaults
    BY <1>0, <1>1, PublishFacts DEF Start, TypeOK
  <2> QED BY <1>0, <1>1, <2>1, <2>2 DEF Start, TypeOK, TypeInv, queueVars, tokenVars, historyVars
<1>2. CASE Check(x)
  <2>1. PICK r \in Local :
           /\ exec' = [exec EXCEPT ![x] = r]
           /\ r.at \in Calling \cup {"next_tool"} => r.iteration < MaxIterations
           /\ r.at \notin {"start_tool", "run_tool"}
    BY <1>0, <1>2, LocalFacts, VibeRunAssumption DEF Check, Goto, Local, ExecAt, InTry, Calling
  <2> QED
    BY <1>0, <1>2, <2>1, Becomes
       DEF Check, TypeOK, TypeInv, LoopInv, queueVars, tokenVars, historyVars
<1>3. CASE Chat(x)
  <2>1. PICK r \in Local :
           /\ exec' = [exec EXCEPT ![x] = r]
           /\ r.at \in Calling \cup {"next_tool"} => r.iteration < MaxIterations
           /\ r.at \in {"start_tool", "run_tool"} => r.calls > 0
    BY <1>0, <1>3, LocalFacts, VibeRunAssumption DEF Chat, LoopInv, Goto, Local, ExecAt, InTry, Calling
  <2>2. late' \in [Executor -> Nat] /\ ignored' \in Nat
    BY <1>0, <1>3 DEF Chat, CallBegins, TypeOK
  <2>3. events' \in Seq(EventType) /\ faults' \in 0 .. MaxFaults
    BY <1>0, <1>3, PublishFacts DEF Chat, TypeOK
  <2>4. exec' \in [Executor -> Local] /\ LoopInv'
    BY <1>0, <2>1, LoopBecomes DEF TypeInv
  <2> QED
    BY <1>0, <1>3, <2>2, <2>3, <2>4 DEF Chat, TypeOK, TypeInv, queueVars, tokenVars, historyVars
<1>4. CASE NextTool(x)
  <2>1. PICK r \in Local :
           /\ exec' = [exec EXCEPT ![x] = r]
           /\ r.at \in Calling \cup {"next_tool"} => r.iteration < MaxIterations
           /\ r.at \in {"start_tool", "run_tool"} => r.calls > 0
    BY <1>0, <1>4, LocalFacts, VibeRunAssumption DEF NextTool, LoopInv, Goto, Local, ExecAt, InTry, Calling
  <2> QED
    BY <1>0, <1>4, <2>1, Becomes
       DEF NextTool, TypeOK, TypeInv, LoopInv, queueVars, tokenVars, historyVars
<1>5. CASE StartTool(x)
  <2>1. exec' \in [Executor -> Local] /\ LoopInv'
    BY <1>0, <1>5, LoopGoes DEF StartTool, TypeInv, LoopInv, Calling
  <2>2. events' \in Seq(EventType) /\ faults' \in 0 .. MaxFaults
    BY <1>0, <1>5, PublishFacts DEF StartTool, TypeOK
  <2> QED BY <1>0, <1>5, <2>1, <2>2 DEF StartTool, TypeOK, TypeInv, queueVars, tokenVars, historyVars
<1>6. CASE RunTool(x)
  <2>1. PICK r \in Local :
           /\ exec' = [exec EXCEPT ![x] = r]
           /\ r.at \in Calling \cup {"next_tool"} => r.iteration < MaxIterations
           /\ r.at \in {"start_tool", "run_tool"} => r.calls > 0
    BY <1>0, <1>6, LocalFacts, VibeRunAssumption DEF RunTool, LoopInv, Goto, Local, ExecAt, InTry, Calling
  <2>2. late' \in [Executor -> Nat] /\ ignored' \in Nat
    BY <1>0, <1>6 DEF RunTool, CallBegins, TypeOK
  <2>3. events' \in Seq(EventType) /\ faults' \in 0 .. MaxFaults
    BY <1>0, <1>6, PublishFacts DEF RunTool, TypeOK
  <2>4. exec' \in [Executor -> Local] /\ LoopInv'
    BY <1>0, <2>1, LoopBecomes DEF TypeInv
  <2> QED
    BY <1>0, <1>6, <2>2, <2>3, <2>4 DEF RunTool, TypeOK, TypeInv, queueVars, tokenVars, historyVars
<1>7. CASE Fail(x)
  <2> DEFINE r == [exec[x] EXCEPT !.at = "settle", !.outcome = "failed"]
  <2>1. exec' = [exec EXCEPT ![x] = r] /\ r \in Local /\ r.at = "settle"
    BY <1>0, <1>7 DEF Fail, Local, ExecAt
  <2>2. events' \in Seq(EventType) /\ faults' \in 0 .. MaxFaults
    BY <1>0, <1>7, PublishFacts DEF Fail
  <2> HIDE DEF r
  <2> QED
    BY <1>0, <1>7, <2>1, <2>2, Becomes
       DEF Fail, TypeOK, TypeInv, LoopInv, Calling, queueVars, tokenVars, historyVars
<1>8. CASE Settle(x)
  <2>1. PICK r \in Local :
           /\ exec' = [exec EXCEPT ![x] = r]
           /\ r.at \in Calling \cup {"next_tool"} => r.iteration < MaxIterations
           /\ r.at \in {"start_tool", "run_tool"} => r.calls > 0
    BY <1>0, <1>8, LocalFacts, VibeRunAssumption DEF Settle, LoopInv, Goto, Local, ExecAt, InTry, Calling
  <2>2. ledger' \in {"none", "reserved", "consumed", "released"} /\ faults' \in 0 .. MaxFaults
    BY <1>0, <1>8, VibeRunAssumption DEF Settle, Fault, TypeOK
  <2> QED
    BY <1>0, <1>8, <2>1, <2>2, Becomes
       DEF Settle, TypeOK, TypeInv, LoopInv, queueVars, tokenVars, historyVars
<1>9. CASE Save(x)
  <2>1. exec' \in [Executor -> Local] /\ LoopInv'
    BY <1>0, <1>9, LoopGoes DEF Save, TypeInv, LoopInv, Calling
  <2>2. events' \in Seq(EventType) /\ faults' \in 0 .. MaxFaults
    BY <1>0, <1>9, PublishFacts DEF Save, TypeOK
  <2> QED BY <1>0, <1>9, <2>1, <2>2 DEF Save, TypeOK, TypeInv, queueVars, tokenVars, historyVars
<1>10. CASE Update(x)
  <2>1. PICK l \in {"cleanup", "resettle"} : Goto(x, l)
    BY <1>10 DEF Update
  <2>2. status' \in RunStatus /\ faults' \in 0 .. MaxFaults
    BY <1>0, <1>10, LocalFacts, VibeRunAssumption DEF Update, update_run, RunStatus, Fault, TypeOK
  <2> QED
    BY <1>0, <1>10, <2>1, <2>2, GotoFacts
       DEF Update, TypeOK, TypeInv, LoopInv, Calling, queueVars, tokenVars, historyVars
<1>11. CASE Resettle(x)
  <2>1. ledger' \in {"none", "reserved", "consumed", "released"} /\ faults' \in 0 .. MaxFaults
    BY <1>0, <1>11, VibeRunAssumption DEF Resettle, Fault, TypeOK
  <2> QED
    BY <1>0, <1>11, <2>1, GotoFacts
       DEF Resettle, TypeOK, TypeInv, LoopInv, Calling, queueVars, tokenVars, historyVars
<1>12. CASE Done(x)
  BY <1>0, <1>12, GotoFacts, PublishFacts
     DEF Done, TypeOK, TypeInv, LoopInv, Calling, queueVars, tokenVars, historyVars
<1>13. CASE Cleanup(x)
  BY <1>0, <1>13, GotoFacts
     DEF Cleanup, TypeOK, TypeInv, LoopInv, Calling, JobStatus, queueVars, tokenVars, historyVars
<1> QED BY <1>1, <1>2, <1>3, <1>4, <1>5, <1>6, <1>7, <1>8, <1>9, <1>10, <1>11, <1>12, <1>13 DEF RunStep

LEMMA TypeNext == TypeInv /\ [Next]_vars => TypeInv'
<1> SUFFICES ASSUME TypeInv, [Next]_vars PROVE TypeInv' OBVIOUS
<1>0. /\ TypeOK /\ LoopInv
      /\ {"start", "killed", "fail", "cleanup"} \subseteq ExecAt
      /\ {"horse", "thread"} \subseteq Executor
  BY DEF TypeInv, ExecAt, InTry, Executor
<1> USE DEF queueVars, tokenVars, historyVars
<1>1. CASE Send BY <1>1, TypeSend
<1>2. CASE Dequeue
  <2>1. tokenRedis' \in [Executor -> BOOLEAN]
    BY <1>0, <1>2 DEF Dequeue, TypeOK
  <2>2. Goto("horse", "start") /\ job' = "started"
    BY <1>2 DEF Dequeue
  <2>3. exec' \in [Executor -> Local] /\ LoopInv'
    BY <1>0, <2>2, GotoFacts DEF LoopInv, Calling
  <2> QED BY <1>0, <1>2, <2>1, <2>2, <2>3 DEF Dequeue, TypeOK, TypeInv, JobStatus
<1>3. ASSUME NEW x \in Executor, RunStep(x) PROVE TypeInv'
  BY <1>3, TypeRunStep
<1>4. ASSUME NEW x \in Executor, Crash(x) PROVE TypeInv'
  <2>1. faults' \in 0 .. MaxFaults
    BY <1>0, <1>4, VibeRunAssumption DEF Crash, Fault, TypeOK
  <2>2. exec' \in [Executor -> Local] /\ LoopInv'
    BY <1>0, <1>4, LoopGoes DEF Crash, TypeInv, Calling
  <2> QED BY <1>0, <1>4, <2>1, <2>2 DEF Crash, TypeOK, TypeInv
<1>5. CASE StopHorse
  <2>1. exec' \in [Executor -> Local] /\ LoopInv'
    BY <1>0, <1>5, LoopGoes DEF StopHorse, TypeInv, Calling
  <2> QED BY <1>0, <1>5, <2>1 DEF StopHorse, TypeOK, TypeInv
<1>6. CASE JobTimeout
  <2>1. faults' \in 0 .. MaxFaults
    BY <1>0, <1>6, VibeRunAssumption DEF JobTimeout, Fault, TypeOK
  <2>2. PICK l \in {"fail", "cleanup"} : Goto("horse", l)
    BY <1>6 DEF JobTimeout
  <2>3. exec' \in [Executor -> Local] /\ LoopInv'
    BY <1>0, <2>2, LoopGoes DEF TypeInv, Calling
  <2> QED BY <1>0, <1>6, <2>1, <2>3 DEF JobTimeout, TypeOK, TypeInv
<1>7. CASE CancelBegin
  BY <1>0, <1>7 DEF CancelBegin, TypeOK, TypeInv, LoopInv
<1>8. CASE Cancel
  <2>1. CASE CancelJob
    BY <1>0, <2>1 DEF CancelJob, TypeOK, TypeInv, LoopInv, JobStatus
  <2>2. CASE CancelSignal
    BY <1>0, <2>2 DEF CancelSignal, TypeOK, TypeInv, LoopInv
  <2>3. CASE CancelMark
    <3>1. faults' \in 0 .. MaxFaults
      BY <1>0, <2>3, VibeRunAssumption DEF CancelMark, Fault, TypeOK
    <3> QED BY <1>0, <2>3, <3>1 DEF CancelMark, TypeOK, TypeInv, LoopInv, RunStatus
  <2> QED BY <1>8, <2>1, <2>2, <2>3 DEF Cancel
<1>9. CASE RedisBreaks
  <2>1. faults' \in 0 .. MaxFaults
    BY <1>0, <1>9, VibeRunAssumption DEF RedisBreaks, Fault, TypeOK
  <2> QED BY <1>0, <1>9, <2>1 DEF RedisBreaks, TypeOK, TypeInv, LoopInv
<1>10. CASE RedisReturns
  BY <1>0, <1>10 DEF RedisReturns, TypeOK, TypeInv, LoopInv
<1>11. CASE UNCHANGED vars
  BY <1>0, <1>11 DEF vars, TypeOK, TypeInv, LoopInv
<1> QED BY <1>1, <1>2, <1>3, <1>4, <1>5, <1>6, <1>7, <1>8, <1>9, <1>10, <1>11 DEF Next

\* Every variable of the run keeps its type: the counters of the loop never pass
\* VIBE_MAX_ITERATIONS nor fall below zero.
THEOREM RunTypeCorrect == Spec => []TypeOK
<1>1. Init => TypeInv BY TypeInit
<1>2. TypeInv /\ [Next]_vars => TypeInv' BY TypeNext
<1>3. TypeInv => TypeOK BY DEF TypeInv
<1> QED BY <1>1, <1>2, <1>3, PTL DEF Spec
-----------------------------------------------------------------------------
\* What a step of one executor leaves alone.
LEMMA RunStepFrame ==
    ASSUME TypeInv, NEW x \in Executor, RunStep(x)
    PROVE  /\ \A y \in Executor : y # x => exec'[y] = exec[y] /\ late'[y] = late[y]
           /\ exec[x].at \notin {"idle", "over", "killed"}
           /\ exec'[x].at \notin {"idle", "killed"}
           /\ UNCHANGED <<route, rq, stopping, tokenRedis, cancel>>
           /\ faults' = faults \/ faults' = faults + 1
           /\ job' = job \/ (x = "horse" /\ job' = "over")
<1>0. /\ TypeOK /\ exec \in [Executor -> Local] /\ exec[x] \in Local /\ late \in [Executor -> Nat]
      /\ "error" \in EventType
  BY LocalFacts DEF TypeInv, TypeOK, EventType
<1> USE <1>0 DEF queueVars, tokenVars, historyVars, Publish, Fault
<1>1. CASE Start(x) BY <1>1 DEF Start, Goto, Local
<1>2. CASE Check(x) BY <1>2 DEF Check, Goto, Local
<1>3. CASE Chat(x) BY <1>3 DEF Chat, CallBegins, Goto, Local
<1>4. CASE NextTool(x) BY <1>4 DEF NextTool, Goto, Local
<1>5. CASE StartTool(x) BY <1>5 DEF StartTool, Goto, Local
<1>6. CASE RunTool(x) BY <1>6 DEF RunTool, CallBegins, Goto, Local
<1>7. CASE Fail(x) BY <1>7 DEF Fail, Local
<1>8. CASE Settle(x) BY <1>8 DEF Settle, Goto, Local
<1>9. CASE Save(x) BY <1>9 DEF Save, Goto, Local
<1>10. CASE Update(x) BY <1>10 DEF Update, Goto, Local
<1>11. CASE Resettle(x) BY <1>11 DEF Resettle, Goto, Local
<1>12. CASE Done(x) BY <1>12 DEF Done, Goto, Local
<1>13. CASE Cleanup(x) BY <1>13 DEF Cleanup, Goto, Local
<1> QED BY <1>1, <1>2, <1>3, <1>4, <1>5, <1>6, <1>7, <1>8, <1>9, <1>10, <1>11, <1>12, <1>13 DEF RunStep

LEMMA HandedOverNext == TypeInv /\ HandedOver /\ [Next]_vars => HandedOver'
<1> SUFFICES ASSUME TypeInv, HandedOver, [Next]_vars PROVE HandedOver' OBVIOUS
<1>0. TypeOK /\ {"horse", "thread"} = Executor /\ {"start", "killed", "fail", "cleanup"} \subseteq ExecAt
  BY DEF TypeInv, Executor, ExecAt, InTry
<1> USE DEF queueVars, tokenVars, historyVars
<1>1. CASE Send
  <2>1. CASE Enqueue
    <3>1. ASSUME StartThread PROVE exec'["horse"] = exec["horse"] /\ exec'["thread"].at = "start"
      BY <3>1, <1>0, GotoFacts DEF StartThread, Goto
    <3> QED BY <1>0, <2>1, <3>1 DEF Enqueue, HandedOver
  <2> QED BY <1>1, <2>1 DEF Send, Reserve, CreateRun, Undo, HandedOver
<1>2. CASE Dequeue
  <2>1. exec'["horse"].at = "start" /\ exec'["thread"] = exec["thread"]
    BY <1>0, <1>2, GotoFacts DEF Dequeue
  <2>2. job = "queued" /\ job' = "started" /\ UNCHANGED <<route, late>>
    BY <1>2 DEF Dequeue
  <2> QED BY <1>0, <2>1, <2>2 DEF HandedOver
<1>3. ASSUME NEW x \in Executor, RunStep(x) PROVE HandedOver'
  BY <1>0, <1>3, RunStepFrame DEF HandedOver
<1>4. ASSUME NEW x \in Executor, NEW l \in {"killed", "fail", "cleanup"}, Goto(x, l),
             exec[x].at # "idle", UNCHANGED <<route, job, late>>
      PROVE  HandedOver'
  <2>1. exec'[x].at = l /\ l # "idle" /\ \A y \in Executor : y # x => exec'[y] = exec[y]
    BY <1>0, <1>4, GotoFacts
  <2> QED BY <1>0, <1>4, <2>1 DEF HandedOver
<1>5. CASE \E x \in Executor : Crash(x) \/ (x = "horse" /\ (StopHorse \/ JobTimeout))
  <2>1. PICK x \in Executor : Crash(x) \/ (x = "horse" /\ (StopHorse \/ JobTimeout))
    BY <1>5
  <2>2. \E l \in {"killed", "fail", "cleanup"} : Goto(x, l)
    BY <2>1 DEF Crash, StopHorse, JobTimeout
  <2>3. exec[x].at # "idle" /\ UNCHANGED <<route, job, late>>
    BY <2>1 DEF Crash, StopHorse, JobTimeout, Running
  <2> QED BY <1>4, <2>2, <2>3
<1>6. CASE CancelBegin BY <1>6 DEF CancelBegin, HandedOver
<1>7. CASE Cancel BY <1>7 DEF Cancel, CancelJob, CancelSignal, CancelMark, HandedOver
<1>8. CASE RedisBreaks \/ RedisReturns BY <1>8 DEF RedisBreaks, RedisReturns, HandedOver
<1>9. CASE UNCHANGED vars BY <1>9 DEF vars, HandedOver
<1> QED BY <1>0, <1>1, <1>2, <1>3, <1>5, <1>6, <1>7, <1>8, <1>9 DEF Next

LEMMA SignalledNext == Signalled /\ [Next]_vars => Signalled'
<1> SUFFICES ASSUME Signalled, [Next]_vars PROVE Signalled' OBVIOUS
<1> USE DEF Signalled, queueVars, tokenVars, historyVars
<1>1. CASE Send BY <1>1 DEF Send, Reserve, CreateRun, Enqueue, StartThread, Undo
<1>2. CASE Dequeue BY <1>2 DEF Dequeue
<1>3. ASSUME NEW x \in Executor, RunStep(x) PROVE Signalled'
  BY <1>3 DEF RunStep, Start, Check, Chat, NextTool, StartTool, RunTool, Fail, Settle, Save, Update,
              Resettle, Done, Cleanup
<1>4. ASSUME NEW x \in Executor, Crash(x) PROVE Signalled'
  BY <1>4 DEF Crash
<1>5. CASE StopHorse \/ JobTimeout \/ CancelBegin \/ RedisBreaks \/ RedisReturns
  BY <1>5 DEF StopHorse, JobTimeout, CancelBegin, RedisBreaks, RedisReturns
<1>6. CASE Cancel BY <1>6 DEF Cancel, CancelJob, CancelSignal, CancelMark
<1>7. CASE UNCHANGED vars BY <1>7 DEF vars
<1> QED BY <1>1, <1>2, <1>3, <1>4, <1>5, <1>6, <1>7 DEF Next
-----------------------------------------------------------------------------
LEMMA LateTypes ==
    ASSUME TypeInv
    PROVE  faults \in Nat /\ Wasted \in 0 .. 1 /\ \A x \in Executor : late[x] \in Nat
BY VibeRunAssumption DEF TypeInv, TypeOK, Wasted

\* A step that sets no token and begins no call, and after which an executor is at
\* a call only if it was, or had one in hand.
LEMMA LateQuiet ==
    ASSUME TypeInv, TypeInv', LateInv, Twice' <=> Twice, faults' >= faults,
           UNCHANGED <<late, rq, localEvent, tokenRedis, cancelKey, cancel>>,
           \A x \in Executor :
              /\ exec'[x].at \in Calling => exec[x].at \in Calling \/ InHand(x)
              /\ exec[x].at \in {"over", "killed"} => exec'[x].at \in {"over", "killed"}
    PROVE  LateInv'
<1>0. /\ faults \in Nat /\ faults' \in Nat /\ Wasted \in 0 .. 1
      /\ \A y \in Executor : late[y] \in Nat /\ late'[y] \in Nat
  BY LateTypes, VibeRunAssumption DEF TypeInv, TypeOK
<1>1. Wasted' = Wasted BY DEF Wasted
<1>2. \A x \in Executor : (IsSet(x)' <=> IsSet(x)) /\ (Spent(x)' <=> Spent(x))
  BY DEF IsSet, Spent
<1> QED BY <1>0, <1>1, <1>2 DEF LateInv, InHand

\* Whether the run is executed twice is decided when it is handed over.
LEMMA TwiceStays ==
    ASSUME TypeInv, HandedOver, HandedOver', [Next]_vars, ~Enqueue
    PROVE  Twice' <=> Twice
<1>0. TypeOK /\ {"horse", "thread"} = Executor /\ {"start", "killed", "fail", "cleanup"} \subseteq ExecAt
  BY DEF TypeInv, Executor, ExecAt, InTry
<1> USE DEF queueVars, tokenVars, historyVars
<1>1. CASE Send BY <1>1 DEF Send, Reserve, CreateRun, Undo, Twice
<1>2. CASE Dequeue
  BY <1>0, <1>2, GotoFacts DEF Dequeue, Twice
<1>3. ASSUME NEW x \in Executor, RunStep(x) PROVE Twice' <=> Twice
  BY <1>0, <1>3, RunStepFrame DEF Twice, HandedOver
<1>5. CASE \E x \in Executor : Crash(x) \/ (x = "horse" /\ (StopHorse \/ JobTimeout))
  <2>1. PICK x \in Executor : Crash(x) \/ (x = "horse" /\ (StopHorse \/ JobTimeout))
    BY <1>5
  <2>2. PICK l \in {"killed", "fail", "cleanup"} : Goto(x, l)
    BY <2>1 DEF Crash, StopHorse, JobTimeout
  <2>3. exec[x].at # "idle" /\ UNCHANGED <<route, job, late>>
    BY <2>1 DEF Crash, StopHorse, JobTimeout, Running
  <2>4. exec'[x].at = l /\ \A y \in Executor : y # x => exec'[y] = exec[y]
    BY <1>0, <2>2, GotoFacts
  <2> QED BY <1>0, <2>3, <2>4 DEF Twice
<1>6. CASE CancelBegin BY <1>6 DEF CancelBegin, Twice
<1>7. CASE Cancel BY <1>7 DEF Cancel, CancelJob, CancelSignal, CancelMark, Twice
<1>8. CASE RedisBreaks \/ RedisReturns BY <1>8 DEF RedisBreaks, RedisReturns, Twice
<1>9. CASE UNCHANGED vars BY <1>9 DEF vars, Twice
<1> QED BY <1>0, <1>1, <1>2, <1>3, <1>5, <1>6, <1>7, <1>8, <1>9 DEF Next

\* A call begins: with the token set it uses up the one in hand.
LEMMA LateCall ==
    ASSUME TypeInv, TypeInv', LateInv, Twice' <=> Twice, faults' >= faults,
           NEW x \in Executor, exec[x].at \in Calling, CallBegins(x),
           exec'[x].at \notin Calling \cup {"over", "killed"},
           \A y \in Executor : y # x => exec'[y] = exec[y] /\ late'[y] = late[y],
           UNCHANGED <<rq, localEvent, tokenRedis, cancelKey, cancel>>
    PROVE  LateInv'
<1>0. /\ faults \in Nat /\ faults' \in Nat /\ Wasted \in 0 .. 1
      /\ \A y \in Executor : late[y] \in Nat /\ late'[y] \in Nat
  BY LateTypes, VibeRunAssumption DEF TypeInv, TypeOK
<1>1. Wasted' = Wasted BY DEF Wasted
<1>2. \A y \in Executor : (IsSet(y)' <=> IsSet(y)) /\ (Spent(y)' <=> Spent(y))
  BY DEF IsSet, Spent
<1>3. Spent(x) => ~IsSet(x)
  BY DEF Spent, IsSet
<1>4. InHand(x)
  BY DEF LateInv
<1>5. late'[x] + Wasted <= faults + 1 /\ (~IsSet(x) => late'[x] = late[x])
  <2>1. CASE IsSet(x)
    <3>1. late[x] + Wasted <= faults
      BY <2>1, <1>3, <1>4 DEF InHand
    <3>2. late'[x] = late[x] \/ late'[x] = late[x] + 1
      BY DEF CallBegins, TypeInv, TypeOK
    <3> QED BY <2>1, <3>1, <3>2, LateTypes
  <2>2. CASE ~IsSet(x)
    BY <2>2, LateTypes DEF CallBegins, LateInv
  <2> QED BY <2>1, <2>2
<1>6. \A y \in Executor : y # x =>
         /\ late'[y] + Wasted' <= faults' + 1
         /\ exec'[y].at \in Calling => InHand(y)'
         /\ ~IsSet(y)' /\ exec'[y].at \notin {"over", "killed"} => InHand(y)'
  BY <1>0, <1>1, <1>2 DEF LateInv, InHand
<1>7. ~IsSet(x)' => InHand(x)'
  BY <1>0, <1>1, <1>2, <1>4, <1>5 DEF InHand
<1> QED BY <1>0, <1>1, <1>5, <1>6, <1>7 DEF LateInv

LEMMA LateRunStep ==
    ASSUME TypeInv, TypeInv', HandedOver, Signalled, LateInv, Twice' <=> Twice,
           NEW x \in Executor, RunStep(x)
    PROVE  LateInv'
<1>0. /\ TypeOK /\ exec \in [Executor -> Local] /\ exec[x] \in Local
      /\ {"start", "check", "run_tool", "update", "done", "cleanup", "over", "resettle"} \subseteq ExecAt
      /\ {"horse", "thread"} = Executor
  BY LocalFacts DEF TypeInv, TypeOK, ExecAt, InTry, Executor
<1>1. /\ \A y \in Executor : y # x => exec'[y] = exec[y] /\ late'[y] = late[y]
      /\ exec[x].at \notin {"idle", "over", "killed"}
      /\ UNCHANGED <<rq, tokenRedis, cancel>>
      /\ faults' = faults \/ faults' = faults + 1
  BY RunStepFrame
<1>2. faults' >= faults
  BY <1>1, LateTypes
<1> USE DEF queueVars, tokenVars, historyVars
<1>3. ASSUME UNCHANGED <<late, localEvent, cancelKey>>,
             exec'[x].at \in Calling => exec[x].at \in Calling \/ InHand(x)
      PROVE  LateInv'
  BY <1>1, <1>2, <1>3, LateQuiet
<1>4. CASE Start(x) \/ Save(x) \/ Resettle(x) \/ Done(x) \/ Update(x)
  <2>1. PICK l \in {"check", "update", "done", "cleanup", "resettle"} : Goto(x, l)
    BY <1>4 DEF Start, Save, Resettle, Done, Update
  <2>2. exec'[x].at \notin Calling
    BY <1>0, <2>1, GotoFacts DEF Calling
  <2> QED BY <1>3, <1>4, <2>2 DEF Start, Save, Resettle, Done, Update
<1>5. CASE Fail(x) \/ Settle(x)
  <2>1. exec'[x].at \notin Calling
    BY <1>0, <1>5 DEF Fail, Settle, Goto, Local, Calling
  <2> QED BY <1>3, <1>5, <2>1 DEF Fail, Settle
<1>6. CASE Check(x) \/ NextTool(x)
  <2>1. IsSet(x) => exec'[x].at \notin Calling
    BY <1>0, <1>6 DEF Check, NextTool, Goto, Local, Calling
  <2>2. ~IsSet(x) => InHand(x)
    BY <1>1 DEF LateInv
  <2> QED BY <1>3, <1>6, <2>1, <2>2 DEF Check, NextTool
<1>7. CASE StartTool(x)
  BY <1>3, <1>7 DEF StartTool, Calling
<1>8. CASE Chat(x) \/ RunTool(x)
  <2>1. exec'[x].at \notin Calling \cup {"over", "killed"}
    BY <1>0, <1>8 DEF Chat, RunTool, Goto, Local, Calling
  <2>2. CallBegins(x) /\ exec[x].at \in Calling /\ UNCHANGED <<localEvent, cancelKey>>
    BY <1>8 DEF Chat, RunTool, Calling
  <2> QED BY <1>1, <1>2, <2>1, <2>2, LateCall
<1>9. CASE Cleanup(x)
  <2>1. exec'[x].at = "over" /\ UNCHANGED <<late, faults>>
    BY <1>0, <1>9, GotoFacts DEF Cleanup
  <2>2. Wasted' = Wasted BY DEF Wasted
  <2>3. \A y \in Executor : Spent(y) => Spent(y)'
    BY <1>1, <1>9 DEF Spent, Cleanup
  <2>4. ASSUME NEW y \in Executor, y # x PROVE ~IsSet(y)' => ~IsSet(y) \/ Spent(y)'
    BY <1>0, <1>1, <1>9, <2>4 DEF IsSet, Spent, Cleanup, Signalled
  <2> QED BY <1>1, <2>1, <2>2, <2>3, <2>4 DEF LateInv, InHand, Calling
<1> QED BY <1>4, <1>5, <1>6, <1>7, <1>8, <1>9 DEF RunStep

LEMMA LateNext ==
    ASSUME TypeInv, TypeInv', HandedOver, HandedOver', Signalled, LateInv, [Next]_vars
    PROVE  LateInv'
<1>0. /\ TypeOK /\ {"horse", "thread"} = Executor
      /\ {"start", "killed", "fail", "cleanup"} \subseteq ExecAt
      /\ faults \in Nat /\ faults' \in Nat /\ Wasted \in 0 .. 1 /\ Wasted' \in 0 .. 1
      /\ \A y \in Executor : late[y] \in Nat
  BY LateTypes, VibeRunAssumption DEF TypeInv, TypeOK, Executor, ExecAt, InTry, Wasted
<1> USE DEF queueVars, tokenVars, historyVars
<1>1. CASE Enqueue
  <2>1. \A x \in Executor : late[x] = 0 /\ exec[x].at = "idle"
    BY <1>1 DEF Enqueue, HandedOver
  <2>2. UNCHANGED late /\ (Twice' => faults' = faults + 1)
    BY <1>0, <1>1, <2>1 DEF Enqueue, Twice, HandedOver, Fault
  <2>3. \A x \in Executor : late'[x] + Wasted' <= faults'
    BY <1>0, <2>1, <2>2 DEF Wasted
  <2> QED BY <1>0, <2>1, <2>2, <2>3 DEF LateInv, InHand
<1>2. CASE ~Enqueue
  <2>0. (Twice' <=> Twice) /\ Wasted' = Wasted
    BY <1>2, TwiceStays DEF Wasted
  <2>1. CASE Send
    BY <2>0, <2>1, <1>0, <1>2, LateQuiet DEF Send, Reserve, CreateRun, Undo, Fault
  <2>2. CASE Dequeue
    <3>1. exec'["horse"].at = "start" /\ exec'["thread"] = exec["thread"]
      BY <1>0, <2>2, GotoFacts DEF Dequeue
    <3>2. UNCHANGED <<rq, localEvent, cancelKey, cancel, late, faults>>
      BY <2>2 DEF Dequeue
    <3>3. tokenRedis' = [tokenRedis EXCEPT !["horse"] = TRUE] /\ tokenRedis \in [Executor -> BOOLEAN]
      BY <1>0, <2>2 DEF Dequeue, TypeOK
    <3>4. \A y \in Executor : (Spent(y)' <=> Spent(y)) /\ (~IsSet(y)' => ~IsSet(y))
      BY <1>0, <3>2, <3>3 DEF Spent, IsSet
    <3>5. exec["horse"].at = "idle"
      BY <2>2 DEF Dequeue, HandedOver
    <3> QED BY <1>0, <2>0, <3>1, <3>2, <3>4, <3>5 DEF LateInv, InHand, Calling
  <2>3. ASSUME NEW x \in Executor, RunStep(x) PROVE LateInv'
    BY <2>0, <2>3, LateRunStep
  <2>4. ASSUME NEW x \in Executor, Crash(x) PROVE LateInv'
    <3>1. exec'[x].at = "killed" /\ \A y \in Executor : y # x => exec'[y] = exec[y]
      BY <1>0, <2>4, GotoFacts DEF Crash
    <3>2. UNCHANGED <<late, rq, tokenRedis, cancelKey, cancel>> /\ faults' = faults + 1
      BY <2>4 DEF Crash, Fault
    <3>3. \A y \in Executor : y # x => (Spent(y)' <=> Spent(y)) /\ (IsSet(y)' <=> IsSet(y))
      BY <1>0, <2>4, <3>2 DEF Crash, Spent, IsSet
    <3> QED BY <1>0, <2>0, <3>1, <3>2, <3>3 DEF LateInv, InHand, Calling
  <2>5. CASE StopHorse \/ JobTimeout
    <3>1. PICK l \in {"killed", "fail", "cleanup"} : Goto("horse", l)
      BY <2>5 DEF StopHorse, JobTimeout
    <3>2. exec'["horse"].at = l /\ exec'["thread"] = exec["thread"]
      BY <1>0, <3>1, GotoFacts
    <3>3. exec["horse"].at \notin {"over", "killed"} /\ faults' >= faults
      BY <1>0, <2>5 DEF StopHorse, JobTimeout, Running, Fault
    <3>4. UNCHANGED <<late, rq, localEvent, tokenRedis, cancelKey, cancel>>
      BY <2>5 DEF StopHorse, JobTimeout
    <3> QED BY <1>0, <2>0, <3>2, <3>3, <3>4, LateQuiet DEF Calling
  <2>6. CASE CancelBegin
    <3>1. \A y \in Executor : ~Spent(y) /\ (IsSet(y)' <=> IsSet(y))
      BY <2>6 DEF CancelBegin, Spent, IsSet
    <3> QED BY <2>0, <2>6, <3>1 DEF CancelBegin, LateInv, InHand
  <2>7. CASE Cancel
    <3>1. CASE CancelJob
      <4>1. \A y \in Executor : ~Spent(y) /\ (IsSet(y)' <=> IsSet(y))
        BY <3>1 DEF CancelJob, Spent, IsSet
      <4> QED BY <2>0, <3>1, <4>1 DEF CancelJob, LateInv, InHand
    <3>2. CASE CancelSignal
      <4>1. \A y \in Executor : ~Spent(y) /\ (IsSet(y) => IsSet(y)')
        BY <3>2 DEF CancelSignal, Spent, IsSet
      <4> QED BY <2>0, <3>2, <4>1 DEF CancelSignal, LateInv, InHand
    <3>3. CASE CancelMark
      <4>1. \A y \in Executor : (Spent(y) => Spent(y)') /\ (IsSet(y)' <=> IsSet(y))
        BY <3>3 DEF CancelMark, Spent, IsSet
      <4>2. faults' >= faults /\ UNCHANGED <<exec, late>>
        BY <1>0, <3>3 DEF CancelMark, Fault
      <4> QED BY <1>0, <2>0, <4>1, <4>2 DEF LateInv, InHand
    <3> QED BY <2>7, <3>1, <3>2, <3>3 DEF Cancel
  <2>8. CASE RedisBreaks
    <3>1. \A y \in Executor : Spent(y)' <=> Spent(y)
      BY <2>8 DEF RedisBreaks, Spent
    <3>2. faults' = faults + 1 /\ UNCHANGED <<exec, late>>
      BY <2>8 DEF RedisBreaks, Fault
    <3> QED BY <1>0, <2>0, <3>1, <3>2 DEF LateInv, InHand
  <2>9. CASE RedisReturns
    <3>1. \A y \in Executor : (Spent(y)' <=> Spent(y)) /\ (IsSet(y) => IsSet(y)')
      BY <2>9 DEF RedisReturns, Spent, IsSet
    <3> QED BY <2>0, <2>9, <3>1 DEF RedisReturns, LateInv, InHand
  <2>10. CASE UNCHANGED vars
    BY <1>0, <2>0, <2>10, LateQuiet DEF vars
  <2> QED BY <2>1, <2>2, <2>3, <2>4, <2>5, <2>6, <2>7, <2>8, <2>9, <2>10 DEF Next
<1> QED BY <1>1, <1>2

CancelInv == TypeInv /\ HandedOver /\ Signalled /\ LateInv

LEMMA CancelInvariant == Spec => []CancelInv
<1>1. Init => CancelInv
  <2> SUFFICES ASSUME Init PROVE CancelInv OBVIOUS
  <2>1. TypeInv BY TypeInit
  <2>2. HandedOver /\ Signalled
    BY DEF Init, HandedOver, Signalled, Executor, Fresh
  <2>3. LateInv
    BY DEF Init, LateInv, InHand, Wasted, Twice, Calling, Fresh, Executor
  <2> QED BY <2>1, <2>2, <2>3 DEF CancelInv
<1>2. CancelInv /\ [Next]_vars => CancelInv'
  BY TypeNext, HandedOverNext, SignalledNext, LateNext DEF CancelInv
<1> QED BY <1>1, <1>2, PTL DEF Spec

\* Once its token is set, an executor of run_vibe_agent begins at most the call it had
\* already decided on, and one more for each time Redis broke in between: also when the
\* run is executed twice and the first to end takes the cancellation key away.
THEOREM CancellationStops == Spec => []CancelStopsWork
<1>1. CancelInv => CancelStopsWork
  BY LateTypes DEF CancelInv, LateInv, CancelStopsWork
<1> QED BY <1>1, CancelInvariant, PTL
-----------------------------------------------------------------------------
\* What one more event, or none, does to the event list.
LEMMA EventsAfter ==
    ASSUME events \in Seq(EventType), NEW e \in EventType, events' = events \/ events' = Append(events, e)
    PROVE  /\ NoTerminal /\ e \notin TerminalEvent => NoTerminal'
           /\ NoTerminal => TerminalIsLast'
           /\ \A k \in TerminalEvent : k # e /\ Published(k) = {} => Published(k)' = {}
<1>1. CASE events' = events
  BY <1>1 DEF NoTerminal, TerminalIsLast, Published
<1>2. CASE events' = Append(events, e)
  <2>1. /\ Len(events) \in Nat /\ DOMAIN events = 1 .. Len(events)
        /\ Len(events') = Len(events) + 1 /\ DOMAIN events' = 1 .. Len(events) + 1
        /\ \A n \in 1 .. Len(events) : events'[n] = events[n]
        /\ events'[Len(events) + 1] = e
    BY <1>2
  <2>2. \A n \in DOMAIN events' : n \in DOMAIN events \/ n = Len(events) + 1
    BY <2>1
  <2> QED BY <2>1, <2>2 DEF NoTerminal, TerminalIsLast, Published
<1> QED BY <1>1, <1>2

\* While no terminal event was published neither done nor error was.
LEMMA NoTerminalNone == NoTerminal => Published("done") = {} /\ Published("error") = {}
BY DEF NoTerminal, Published, TerminalEvent

\* A step that leaves the verdict alone: it keeps outcome and ledger_consumed, and
\* moves on among the counters that are told apart by what was announced and charged.
LEMMA QuietStep ==
    ASSUME TypeInv, NEW x \in Executor, Reported(x), UNCHANGED ledger, faults' \in Nat, faults' >= faults,
           exec'[x].outcome = exec[x].outcome, exec'[x].ledger_consumed = exec[x].ledger_consumed,
           NEW e \in EventType, e \notin TerminalEvent, events' = events \/ events' = Append(events, e),
           \/ exec[x].at \in BeforeEnd /\ exec'[x].at \in BeforeEnd \cup {"settle"}
           \/ exec[x].at \in {"save", "update", "resettle"} /\ Good(x)
              /\ exec'[x].at \in {"save", "update", "resettle"}
    PROVE  Reported(x)'
<1>1. events \in Seq(EventType) /\ faults \in Nat
  BY VibeRunAssumption DEF TypeInv, TypeOK
<1>2. Open(x) /\ NoTerminal /\ Good(x)
  BY DEF Reported, AnnouncedBy, Open, Settled
<1>3. NoTerminal' /\ TerminalIsLast'
  BY <1>1, <1>2, EventsAfter
<1>4. Published("done")' = {} /\ Published("error")' = {}
  BY <1>3 DEF NoTerminal, Published, TerminalEvent
<1>5. Good(x)'
  BY <1>2 DEF Good
<1>6. AnnouncedBy(x)'
  BY <1>3, <1>4, <1>5 DEF AnnouncedBy
<1>7. ChargedBy(x)'
  BY <1>1, <1>2, <1>4, <1>5 DEF Reported, ChargedBy, BeforeEnd, Settled, InTry
<1> QED BY <1>3, <1>6, <1>7 DEF Reported

LEMMA EndRunStep ==
    ASSUME TypeInv, TypeInv', NEW x \in Executor, Reported(x), RunStep(x)
    PROVE  Reported(x)'
<1>0. /\ TypeOK /\ exec \in [Executor -> Local] /\ exec[x] \in Local
      /\ {"run_started", "delta", "tool_call_start", "tool_call_end", "error", "card", "done"}
            \subseteq EventType
      /\ {"run_started", "delta", "tool_call_start", "tool_call_end", "card"} \cap TerminalEvent = {}
      /\ {"start", "check", "run_tool", "update", "done", "cleanup", "over", "resettle", "settle", "save"}
            \subseteq ExecAt
      /\ faults \in Nat /\ faults' \in Nat /\ (faults' = faults \/ faults' = faults + 1)
      /\ events \in Seq(EventType)
  BY LocalFacts, RunStepFrame, VibeRunAssumption
     DEF TypeInv, TypeOK, ExecAt, InTry, EventType, TerminalEvent
<1> USE DEF queueVars, tokenVars, historyVars
<1>1. CASE Start(x) \/ Check(x) \/ Chat(x) \/ NextTool(x) \/ StartTool(x) \/ RunTool(x)
  <2>1. exec[x].at \in BeforeEnd /\ UNCHANGED ledger
    BY <1>1 DEF Start, Check, Chat, NextTool, StartTool, RunTool, BeforeEnd, InTry
  <2>2. PICK e \in EventType : e \notin TerminalEvent /\ (events' = events \/ events' = Append(events, e))
    BY <1>0, <1>1, PublishFacts DEF Start, Check, Chat, NextTool, StartTool, RunTool
  <2>3. exec'[x].at \in BeforeEnd \cup {"settle"} /\ exec'[x].ledger_consumed = exec[x].ledger_consumed
    BY <1>0, <1>1 DEF Start, Check, Chat, NextTool, StartTool, RunTool, Goto, Local, BeforeEnd, InTry
  <2>4. CASE exec'[x].outcome = exec[x].outcome
    BY <1>0, <2>1, <2>2, <2>3, <2>4, QuietStep
  <2>5. CASE exec'[x].outcome # exec[x].outcome
    <3>1. Check(x) /\ exec'[x].outcome = "completed_with_limit" /\ exec'[x].at = "settle" /\ events' = events
      BY <1>0, <1>1, <2>5 DEF Start, Check, Chat, NextTool, StartTool, RunTool, Goto, Local
    <3>2. Good(x) /\ Good(x)'
      BY <2>1, <3>1 DEF Reported, AnnouncedBy, Good
    <3>3. NoTerminal /\ NoTerminal' /\ Published("error")' = {} /\ Published("done")' = {}
      BY <2>1, <3>1, NoTerminalNone DEF Reported, AnnouncedBy, Open, NoTerminal, Published
    <3> QED
      BY <1>0, <2>1, <2>3, <3>1, <3>2, <3>3
         DEF Reported, AnnouncedBy, ChargedBy, TerminalIsLast, NoTerminal, Settled, Open, BeforeEnd, InTry
  <2> QED BY <2>4, <2>5
<1>2. CASE Fail(x)
  <2>1. /\ exec[x].at = "fail" /\ exec'[x].at = "settle" /\ exec'[x].outcome = "failed"
        /\ exec'[x].ledger_consumed = exec[x].ledger_consumed /\ UNCHANGED ledger
    BY <1>0, <1>2 DEF Fail, Local
  <2>2. events' = events \/ events' = Append(events, "error")
    BY <1>0, <1>2, PublishFacts DEF Fail
  <2>3. NoTerminal /\ Published("done") = {}
    BY <2>1, NoTerminalNone DEF Reported, AnnouncedBy, Open, BeforeEnd
  <2>4. TerminalIsLast' /\ Published("done")' = {}
    BY <1>0, <2>2, <2>3, EventsAfter DEF TerminalEvent
  <2> QED
    BY <2>1, <2>4 DEF Reported, AnnouncedBy, ChargedBy, Open, Good, BeforeEnd, InTry, Settled
<1>3. CASE Settle(x)
  <2>1. exec[x].at = "settle" /\ exec'[x].outcome = exec[x].outcome /\ events' = events
    BY <1>0, <1>3 DEF Settle, Goto, Local
  <2>2. exec'[x].at = IF Good(x) THEN "save" ELSE "update"
    BY <1>0, <1>3 DEF Settle, Goto, Local, Good
  <2>3. ledger # "consumed" /\ ~exec[x].ledger_consumed
    BY <2>1 DEF Reported, ChargedBy
  <2>4. /\ Good(x) => IF exec'[x].ledger_consumed THEN ledger' = "consumed" ELSE ledger' = "none" \/ faults' >= 1
        /\ ~Good(x) => ledger' # "consumed"
    BY <1>0, <1>3, <2>3, LocalFacts DEF Settle, Goto, Local, Good, Fault
  <2>5. Good(x)' <=> Good(x)
    BY <2>1 DEF Good
  <2>6. Good(x) => NoTerminal /\ Published("done") = {}
    BY <2>1, NoTerminalNone DEF Reported, AnnouncedBy, Open
  <2>7. Published("done")' = Published("done") /\ Published("error")' = Published("error")
        /\ (NoTerminal' <=> NoTerminal) /\ (TerminalIsLast' <=> TerminalIsLast)
    BY <2>1 DEF Published, NoTerminal, TerminalIsLast
  <2> QED
    BY <2>2, <2>4, <2>5, <2>6, <2>7
       DEF Reported, AnnouncedBy, ChargedBy, Open, BeforeEnd, InTry, Settled
<1>4. CASE Save(x)
  <2>1. /\ exec[x].at = "save" /\ exec'[x].at = "update" /\ exec'[x].outcome = exec[x].outcome
        /\ exec'[x].ledger_consumed = exec[x].ledger_consumed /\ UNCHANGED ledger
    BY <1>0, <1>4, GotoFacts DEF Save
  <2>2. events' = events \/ events' = Append(events, "card")
    BY <1>0, <1>4, PublishFacts DEF Save
  <2>3. Good(x)
    BY <2>1 DEF Reported, AnnouncedBy
  <2> QED BY <1>0, <2>1, <2>2, <2>3, QuietStep
<1>5. CASE Update(x)
  <2>1. /\ exec[x].at = "update" /\ exec'[x].outcome = exec[x].outcome
        /\ exec'[x].at = IF Good(x) THEN "resettle" ELSE "cleanup"
        /\ exec'[x].ledger_consumed = exec[x].ledger_consumed /\ UNCHANGED <<ledger, events>>
    BY <1>0, <1>5, GotoFacts DEF Update, Good
  <2>2. CASE Good(x)
    BY <1>0, <2>1, <2>2, QuietStep
  <2>3. CASE ~Good(x)
    BY <2>1, <2>3
       DEF Reported, AnnouncedBy, ChargedBy, Open, Good, BeforeEnd, InTry, Settled, TerminalIsLast, Published
  <2> QED BY <2>2, <2>3
<1>6. CASE Resettle(x)
  <2>1. /\ exec[x].at = "resettle" /\ exec'[x].outcome = exec[x].outcome /\ exec'[x].at = "done"
        /\ exec'[x].ledger_consumed = exec[x].ledger_consumed /\ UNCHANGED events
    BY <1>0, <1>6, GotoFacts DEF Resettle
  <2>2. Good(x) /\ Good(x)' /\ NoTerminal
    BY <2>1 DEF Reported, AnnouncedBy, Good, Open, Settled
  <2>3. /\ ledger' \in {"none", "consumed"} \/ faults' >= 2
        /\ IF exec[x].ledger_consumed THEN ledger' = "consumed" ELSE ledger' = "none" \/ faults' >= 1
    BY <1>0, <1>6, <2>1, <2>2 DEF Resettle, Reported, ChargedBy, Fault, Settled
  <2>4. NoTerminal' /\ TerminalIsLast' /\ Published("done")' = {} /\ Published("error")' = {}
    BY <2>1, <2>2, NoTerminalNone DEF NoTerminal, TerminalIsLast, Published
  <2> QED BY <2>1, <2>2, <2>3, <2>4 DEF Reported, AnnouncedBy, ChargedBy, BeforeEnd, InTry
<1>7. CASE Done(x)
  <2>1. /\ exec[x].at = "done" /\ exec'[x].outcome = exec[x].outcome /\ exec'[x].at = "cleanup"
        /\ UNCHANGED ledger
    BY <1>0, <1>7, GotoFacts DEF Done
  <2>2. events' = events \/ events' = Append(events, "done")
    BY <1>0, <1>7, PublishFacts DEF Done
  <2>3. Good(x) /\ Good(x)' /\ NoTerminal /\ Published("error") = {}
    BY <2>1, NoTerminalNone DEF Reported, AnnouncedBy, Good, Open, Settled
  <2>4. TerminalIsLast' /\ Published("error")' = {}
    BY <1>0, <2>2, <2>3, EventsAfter DEF TerminalEvent
  <2>5. ledger \in {"none", "consumed"} \/ faults >= 2
    BY <2>1 DEF Reported, ChargedBy
  <2> QED BY <1>0, <2>1, <2>3, <2>4, <2>5
             DEF Reported, AnnouncedBy, ChargedBy, Open, BeforeEnd, InTry, Settled
<1>8. CASE Cleanup(x)
  <2>1. /\ exec[x].at = "cleanup" /\ exec'[x].outcome = exec[x].outcome /\ exec'[x].at = "over"
        /\ UNCHANGED <<ledger, events, faults>>
    BY <1>0, <1>8, GotoFacts DEF Cleanup
  <2> QED BY <2>1 DEF Reported, AnnouncedBy, ChargedBy, Open, Good, BeforeEnd, InTry, Settled,
                      TerminalIsLast, Published
<1> QED BY <1>1, <1>2, <1>3, <1>4, <1>5, <1>6, <1>7, <1>8 DEF RunStep

\* An executor that is killed or times out: its verdict, if any, stands.
LEMMA ReportedStays ==
    ASSUME TypeInv, NEW x \in Executor, NEW l \in {"killed", "fail", "cleanup"}, Reported(x), Goto(x, l),
           l = "fail" => exec[x].at \in InTry, UNCHANGED <<ledger, events>>, faults' \in Nat, faults' >= faults
    PROVE  Reported(x)'
<1>1. TypeOK /\ l \in ExecAt /\ faults \in Nat /\ events \in Seq(EventType)
  BY VibeRunAssumption DEF TypeInv, TypeOK, ExecAt
<1>2. /\ exec'[x].at = l /\ exec'[x].outcome = exec[x].outcome
      /\ exec'[x].ledger_consumed = exec[x].ledger_consumed
  BY <1>1, GotoFacts
<1>3. CASE l = "fail"
  <2>1. exec[x].at \in BeforeEnd /\ l \in BeforeEnd /\ "card" \in EventType \ TerminalEvent
    BY <1>3 DEF BeforeEnd, EventType, TerminalEvent
  <2> QED BY <1>2, <2>1, QuietStep
<1>4. CASE l # "fail"
  BY <1>1, <1>2, <1>4
     DEF Reported, AnnouncedBy, ChargedBy, Open, Good, BeforeEnd, InTry, Settled, TerminalIsLast, Published
<1> QED BY <1>3, <1>4

\* A step of the DELETE route, of Redis, or of the route before the run is handed over.
LEMMA ReportedUnmoved ==
    ASSUME TypeInv, NEW x \in Executor, Reported(x), UNCHANGED <<exec, ledger, events>>,
           faults' \in Nat, faults' >= faults
    PROVE  Reported(x)'
<1>1. faults \in Nat BY VibeRunAssumption DEF TypeInv, TypeOK
<1> QED BY <1>1 DEF Reported, AnnouncedBy, ChargedBy, Open, Good, NoTerminal, TerminalIsLast, Published

\* An executor that begins has announced and charged nothing.
LEMMA ReportedAtStart ==
    ASSUME NEW x \in Executor, events' = <<>>, ledger' # "consumed",
           exec'[x].at = "start", exec'[x].outcome = "completed", ~exec'[x].ledger_consumed
    PROVE  Reported(x)'
<1>1. DOMAIN events' = {} OBVIOUS
<1>2. TerminalIsLast' /\ NoTerminal' /\ Published("done")' = {} /\ Published("error")' = {}
  BY <1>1 DEF TerminalIsLast, NoTerminal, Published
<1> QED BY <1>2 DEF Reported, AnnouncedBy, ChargedBy, Good, Settled, Open

LEMMA EndNext ==
    ASSUME TypeInv, TypeInv', HandedOver, HandedOver', EndInv, [Next]_vars
    PROVE  EndInv'
<1> SUFFICES ASSUME ~RunsTwice'
             PROVE  /\ (\A x \in Executor : exec'[x].at = "idle") => events' = <<>> /\ ledger' # "consumed"
                    /\ \A x \in Executor : exec'[x].at # "idle" => Reported(x)'
  BY DEF EndInv
<1>0. /\ TypeOK /\ {"horse", "thread"} = Executor
      /\ {"start", "killed", "fail", "cleanup"} \subseteq ExecAt
      /\ faults \in Nat /\ faults' \in Nat
  BY VibeRunAssumption DEF TypeInv, TypeOK, Executor, ExecAt, InTry
<1> USE DEF queueVars, tokenVars, historyVars
<1>1. CASE Send
  <2>1. route # "running" /\ \A x \in Executor : exec[x].at = "idle" /\ exec[x] = Fresh
    BY <1>1 DEF Send, Reserve, CreateRun, Enqueue, Undo, HandedOver
  <2>2. events = <<>> /\ ledger # "consumed"
    BY <1>0, <2>1 DEF EndInv, RunsTwice
  <2>3. events' = <<>> /\ ledger' # "consumed"
    BY <1>1, <2>2 DEF Send, Reserve, CreateRun, Enqueue, Undo, Fault
  <2>4. ASSUME NEW x \in Executor, exec'[x].at # "idle" PROVE Reported(x)'
    <3>1. Enqueue /\ exec' # exec
      BY <1>1, <2>1, <2>4 DEF Send, Reserve, CreateRun, Undo
    <3>2. Goto("thread", "start")
      BY <3>1 DEF Enqueue, StartThread, Goto
    <3>3. x = "thread" /\ exec'[x].at = "start" /\ exec'[x].outcome = "completed" /\ ~exec'[x].ledger_consumed
      BY <1>0, <2>1, <2>4, <3>2, GotoFacts DEF Fresh
    <3> QED BY <2>3, <3>3, ReportedAtStart
  <2> QED BY <2>3, <2>4
<1>2. CASE Dequeue
  <2>1. /\ exec'["horse"].at = "start" /\ exec'["horse"].outcome = exec["horse"].outcome
        /\ exec'["horse"].ledger_consumed = exec["horse"].ledger_consumed
        /\ exec'["thread"] = exec["thread"] /\ UNCHANGED <<events, ledger>>
    BY <1>0, <1>2, GotoFacts DEF Dequeue
  <2>2. exec["horse"] = Fresh /\ exec["horse"].at = "idle" /\ exec["thread"].at = "idle"
    BY <1>0, <1>2, <2>1 DEF Dequeue, HandedOver, RunsTwice
  <2>3. events' = <<>> /\ ledger' # "consumed"
    BY <1>0, <2>1, <2>2 DEF EndInv, RunsTwice
  <2>4. exec'["horse"].outcome = "completed" /\ ~exec'["horse"].ledger_consumed
    BY <2>1, <2>2 DEF Fresh
  <2>5. Reported("horse")'
    BY <1>0, <2>1, <2>3, <2>4, ReportedAtStart
  <2> QED BY <1>0, <2>1, <2>2, <2>5
<1>3. ASSUME NEW x \in Executor, RunStep(x)
      PROVE  EndInv'
  <2>1. exec[x].at # "idle" /\ exec'[x].at # "idle" /\ \A y \in Executor : y # x => exec'[y] = exec[y]
    BY <1>3, RunStepFrame
  <2>2. ~RunsTwice /\ \A y \in Executor : y # x => exec'[y].at = "idle"
    BY <1>0, <2>1 DEF RunsTwice
  <2>3. Reported(x)
    BY <2>1, <2>2 DEF EndInv
  <2> QED BY <1>3, <2>1, <2>2, <2>3, EndRunStep DEF EndInv
<1>4. ASSUME NEW x \in Executor, Crash(x) \/ (x = "horse" /\ (StopHorse \/ JobTimeout))
      PROVE  EndInv'
  <2>1. /\ exec[x].at # "idle" /\ UNCHANGED <<ledger, events>> /\ faults' >= faults
        /\ \E l \in {"killed", "fail", "cleanup"} : Goto(x, l) /\ (l = "fail" => exec[x].at \in InTry)
    BY <1>0, <1>4 DEF Crash, StopHorse, JobTimeout, Running, Fault
  <2>2. PICK l \in {"killed", "fail", "cleanup"} : Goto(x, l) /\ (l = "fail" => exec[x].at \in InTry)
    BY <2>1
  <2>3. exec'[x].at = l /\ l # "idle" /\ \A y \in Executor : y # x => exec'[y] = exec[y]
    BY <1>0, <2>2, GotoFacts
  <2>4. ~RunsTwice /\ \A y \in Executor : y # x => exec'[y].at = "idle"
    BY <1>0, <2>1, <2>3 DEF RunsTwice
  <2>5. Reported(x)
    BY <2>1, <2>4 DEF EndInv
  <2>6. Reported(x)'
    BY <1>0, <2>1, <2>2, <2>5, ReportedStays
  <2> QED BY <2>3, <2>4, <2>6 DEF EndInv
<1>5. ASSUME UNCHANGED <<exec, ledger, events>>, faults' >= faults PROVE EndInv'
  <2>1. ~RunsTwice
    BY <1>5 DEF RunsTwice
  <2> QED BY <1>0, <1>5, <2>1, ReportedUnmoved DEF EndInv
<1>6. CASE CancelBegin \/ Cancel \/ RedisBreaks \/ RedisReturns \/ UNCHANGED vars
  <2>1. UNCHANGED <<exec, ledger, events>> /\ faults' >= faults
    BY <1>0, <1>6 DEF CancelBegin, Cancel, CancelJob, CancelSignal, CancelMark, RedisBreaks, RedisReturns,
                      Fault, vars
  <2> QED BY <1>5, <2>1 DEF EndInv
<1>7. CASE EndInv'
  BY <1>7 DEF EndInv
<1> QED BY <1>0, <1>1, <1>2, <1>3, <1>4, <1>6, <1>7 DEF Next

RunInv == TypeInv /\ HandedOver /\ EndInv

LEMMA RunInvariant == Spec => []RunInv
<1>1. Init => RunInv
  <2> SUFFICES ASSUME Init PROVE RunInv OBVIOUS
  <2>1. TypeInv BY TypeInit
  <2>2. HandedOver
    BY DEF Init, HandedOver, Executor, Fresh
  <2>3. EndInv
    BY DEF Init, EndInv, Fresh, Executor
  <2> QED BY <2>1, <2>2, <2>3 DEF RunInv
<1>2. RunInv /\ [Next]_vars => RunInv'
  BY TypeNext, HandedOverNext, EndNext DEF RunInv
<1> QED BY <1>1, <1>2, PTL DEF Spec

\* A run that is executed once announces its end at most once and says nothing
\* afterwards, wherever VibeOrchestrator.run is killed, timed out or cancelled and
\* whichever events are lost.
THEOREM VerdictIsLast == Spec => []TerminalEventIsLast
<1>1. RunInv => TerminalEventIsLast
  <2> SUFFICES ASSUME RunInv, ~RunsTwice PROVE TerminalIsLast
    BY DEF TerminalEventIsLast, TerminalIsLast
  <2>1. CASE \A x \in Executor : exec[x].at = "idle"
    BY <2>1 DEF RunInv, EndInv, TerminalIsLast
  <2>2. CASE \E x \in Executor : exec[x].at # "idle"
    BY <2>2 DEF RunInv, EndInv, Reported
  <2> QED BY <2>1, <2>2
<1> QED BY <1>1, RunInvariant, PTL

\* What the stream of a run that is executed once reported is what the ledger charges:
\* an error is never charged, and done without its unit consumed takes two failed calls.
THEOREM ReportedIsCharged == Spec => []ChargedAsReported
<1>1. RunInv => ChargedAsReported
  <2> SUFFICES ASSUME RunInv, ~RunsTwice
               PROVE  /\ Published("error") # {} => ledger # "consumed"
                      /\ Published("done") # {} /\ faults < 2 => ledger \in {"none", "consumed"}
    BY DEF ChargedAsReported
  <2>1. CASE \A x \in Executor : exec[x].at = "idle"
    <3>1. events = <<>>
      BY <2>1 DEF RunInv, EndInv
    <3> QED BY <3>1 DEF Published
  <2>2. CASE \E x \in Executor : exec[x].at # "idle"
    <3>1. PICK x \in Executor : Reported(x)
      BY <2>2 DEF RunInv, EndInv
    <3>2. faults \in Nat
      BY VibeRunAssumption DEF RunInv, TypeInv, TypeOK
    <3> QED BY <3>1, <3>2 DEF Reported, AnnouncedBy, ChargedBy
  <2> QED BY <2>1, <2>2
<1> QED BY <1>1, RunInvariant, PTL
=============================================================================
