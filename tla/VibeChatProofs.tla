--------------------------- MODULE VibeChatProofs ---------------------------
(***************************************************************************)
(* Proofs about the chat page (frontend/hooks/use-vibe.ts), for any number *)
(* of runs, events and empty polls and any page size.                      *)
(***************************************************************************)
EXTENDS VibeChat, Induction

End == {"done", "error"}
ChatPoller == [at : {"none", "scheduled", "status", "answered", "over", "lost"}, cursor : Nat,
               empty : 0 .. MaxEmpty, seen : Status, from : Nat, upTo : Nat]

ChatType ==
    /\ log \in [Run -> Seq(Event)]
    /\ status \in [Run -> Status]
    /\ exec \in [Run -> {"none", "working", "saved", "over"}]
    /\ send \in [Run -> {"idle", "token", "request", "sent", "failed"}]
    /\ poller \in [Run -> ChatPoller]
    /\ timer \in Run \cup {NoRun}
    /\ loading \in BOOLEAN
    /\ current \in Run \cup {NoRun}
    /\ stop \in [at : {"idle", "cancelling", "cancelled"}, run : Run \cup {NoRun}]
    /\ stopped \in SUBSET Run

\* The user stopped this run, or is about to have done so.
Intervened(r) == r \in stopped \/ (stop.at # "idle" /\ stop.run = r)

\* A run whose request was not answered has no poller, and so no page to come.
Unsent == \A r \in Run : send[r] # "sent" => poller[r] = Idle

\* An ending event is the last one of its run, and a failed run has one.
LogInv ==
    \A r \in Run :
        /\ \A n \in 1 .. Len(log[r]) : log[r][n] \in End => n = Len(log[r])
        /\ status[r] = "failed" => Ended(r)
        /\ status[r] = "cancelled" => Intervened(r)

\* What a tick knows of its run: its cursor lies within the log, the status it saw is
\* still the run's unless the user intervened, and a page read after the run's error
\* reaches it, unless it is a first page that is cut off before it.
TickOK(r) ==
    LET p == poller[r]
    IN  /\ p.cursor <= Len(log[r])
        /\ p.empty = MaxEmpty => p.at = "over"
        /\ p.at \in {"status", "answered"} =>
              /\ p.seen = "cancelled" => Intervened(r)
              /\ p.seen = "failed" => Intervened(r) \/ status[r] = "failed"
        /\ p.at = "answered" =>
              /\ p.cursor <= p.from /\ p.upTo <= Len(log[r])
              /\ p.cursor < p.from => p.from < p.upTo
              /\ p.from = 0 \/ p.cursor # 0
              /\ p.seen = "failed" =>
                    \/ Intervened(r) \/ p.upTo = Len(log[r])
                    \/ p.from = 0 /\ p.upTo = Limit /\ Limit < Len(log[r])
TickInv == \A r \in Run : TickOK(r)

StopInv == stop.at = "cancelling" => stop.run # NoRun

SpinnerInv ==
    loading => stop.at # "idle" \/ (current # NoRun /\ (Owes(current) \/ Forsaken(current)))

ChatInv == ChatType /\ Unsent /\ LogInv /\ TickInv /\ StopInv /\ SpinnerInv
----------------------------------------------------------------------------
LEMMA ChatStarts == Init => ChatInv
<1> SUFFICES ASSUME Init PROVE ChatInv
  OBVIOUS
<1> USE ChatAssumption DEF Init
<1>0. Idle \in ChatPoller /\ "none" \in Status
  BY DEF ChatPoller, Idle, Status
<1>1. ChatType
  <2>1. [r \in Run |-> <<>>] \in [Run -> Seq(Event)]
    OBVIOUS
  <2>2. [r \in Run |-> Idle] \in [Run -> ChatPoller] /\ [r \in Run |-> "none"] \in [Run -> Status]
    BY <1>0
  <2> QED BY <2>1, <2>2 DEF ChatType
<1>2. Unsent /\ StopInv /\ SpinnerInv
  BY DEF Unsent, StopInv, SpinnerInv
<1>3. LogInv
  <2>1. \A r \in Run : Len(log[r]) = 0 /\ status[r] = "none"
    OBVIOUS
  <2>2. \A n \in 1 .. 0 : FALSE
    OBVIOUS
  <2> QED BY <2>1, <2>2, Zenon DEF LogInv
<1>4. TickInv
  <2>1. \A r \in Run : Len(log[r]) = 0 /\ poller[r] = Idle
    OBVIOUS
  <2> SUFFICES ASSUME NEW r \in Run PROVE TickOK(r)
    BY DEF TickInv
  <2> QED BY <2>1 DEF TickOK, Idle
<1> QED BY <1>1, <1>2, <1>3, <1>4 DEF ChatInv

LEMMA LogFacts ==
    ASSUME ChatType, NEW r \in Run
    PROVE  /\ log[r] \in Seq(Event) /\ Len(log[r]) \in Nat
           /\ DOMAIN log[r] = 1 .. Len(log[r])
<1>1. log[r] \in Seq(Event)
  BY DEF ChatType
<1> QED BY <1>1, LenProperties

LEMMA EmitFacts ==
    ASSUME ChatType, NEW r \in Run, NEW e \in Event, Emit(r, e)
    PROVE  /\ log' \in [Run -> Seq(Event)]
           /\ Len(log'[r]) = Len(log[r]) + 1
           /\ log'[r][Len(log[r]) + 1] = e
           /\ \A n \in 1 .. Len(log[r]) : log'[r][n] = log[r][n]
           /\ \A q \in Run : q # r => log'[q] = log[q]
<1>1. log[r] \in Seq(Event) /\ log \in [Run -> Seq(Event)]
  BY DEF ChatType
<1>2. log' = [log EXCEPT ![r] = Append(log[r], e)]
  BY DEF Emit
<1>3. log'[r] = Append(log[r], e)
  BY <1>1, <1>2
<1>4. Append(log[r], e) \in Seq(Event)
  BY <1>1, AppendProperties
<1>5. log' \in [Run -> Seq(Event)]
  BY <1>1, <1>2, <1>4
<1> QED BY <1>1, <1>2, <1>3, <1>5, AppendProperties

\* What the server does for a run, seen from its clients.
Served(r) ==
    /\ \/ log' = log
       \/ ~Ended(r) /\ status' = status /\ \E e \in Event : Emit(r, e)
    /\ \/ status' = status
       \/ ~Ended(r) /\ \E s \in Status \ {"failed", "cancelled"} : status' = [status EXCEPT ![r] = s]
       \/ Ended(r) /\ log' = log /\ status' = [status EXCEPT ![r] = "failed"]
    /\ exec' \in [Run -> {"none", "working", "saved", "over"}]

LEMMA ServerSteps ==
    ASSUME ChatType, NEW r \in Run, Produce(r) \/ FailRun(r) \/ CompleteRun(r)
    PROVE  Served(r) /\ UNCHANGED clientVars
<1> USE DEF ChatType, Served
<1>1. CASE Produce(r)
  <2>1. (IF log[r] = <<>> THEN "run_started" ELSE "delta") \in Event
    BY DEF Event
  <2> QED BY <1>1, <2>1 DEF Produce
<1>2. CASE FailRun(r)
  <2>1. "error" \in Event
    BY DEF Event
  <2> QED BY <1>2, <2>1 DEF FailRun
<1>3. CASE CompleteRun(r)
  <2>1. "done" \in Event /\ {"completed", "completed_with_limit"} \subseteq Status \ {"failed", "cancelled"}
    BY DEF Event, Status, Terminal
  <2> QED BY <1>3, <2>1 DEF CompleteRun
<1> QED BY <1>1, <1>2, <1>3

LEMMA ChatServed ==
    ASSUME ChatInv, NEW r \in Run, Served(r), UNCHANGED clientVars
    PROVE  ChatInv'
<1> USE ChatAssumption
<1>0. ChatType /\ Unsent /\ LogInv /\ TickInv /\ StopInv /\ SpinnerInv
  BY DEF ChatInv
<1>1. /\ send' = send /\ poller' = poller /\ timer' = timer /\ running' = running
      /\ loading' = loading /\ current' = current /\ stop' = stop /\ stopped' = stopped
  BY DEF clientVars
<1>2. \A q \in Run : Intervened(q)' <=> Intervened(q)
  BY <1>1 DEF Intervened
<1>3. \A q \in Run :
        /\ Len(log'[q]) \in Nat /\ Len(log[q]) <= Len(log'[q])
        /\ \A n \in 1 .. Len(log[q]) : log'[q][n] = log[q][n]
        /\ Ended(q) => log'[q] = log[q] /\ Ended(q)'
        /\ \A n \in 1 .. Len(log'[q]) : log'[q][n] \in End => n = Len(log'[q])
  <2> SUFFICES ASSUME NEW q \in Run
               PROVE  /\ Len(log'[q]) \in Nat /\ Len(log[q]) <= Len(log'[q])
                      /\ \A n \in 1 .. Len(log[q]) : log'[q][n] = log[q][n]
                      /\ Ended(q) => log'[q] = log[q] /\ Ended(q)'
                      /\ \A n \in 1 .. Len(log'[q]) : log'[q][n] \in End => n = Len(log'[q])
    OBVIOUS
  <2>1. Len(log[q]) \in Nat /\ DOMAIN log[q] = 1 .. Len(log[q])
    BY <1>0, LogFacts
  <2>2. \A n \in 1 .. Len(log[q]) : log[q][n] \in End => n = Len(log[q])
    BY <1>0 DEF LogInv
  <2>3. CASE log'[q] = log[q]
    BY <2>1, <2>2, <2>3 DEF Ended
  <2>4. CASE log'[q] # log[q]
    <3>1. q = r /\ ~Ended(q) /\ \E e \in Event : Emit(r, e)
      BY <1>0, <2>4, EmitFacts DEF Served
    <3>2. /\ Len(log'[q]) = Len(log[q]) + 1
          /\ \A n \in 1 .. Len(log[q]) : log'[q][n] = log[q][n]
      BY <1>0, <3>1, EmitFacts
    <3>3. \A n \in 1 .. Len(log[q]) : log[q][n] \notin End
      BY <2>1, <3>1 DEF Ended, End
    <3>4. \A n \in 1 .. Len(log'[q]) : log'[q][n] \in End => n = Len(log'[q])
      <4> SUFFICES ASSUME NEW n \in 1 .. Len(log'[q]), log'[q][n] \in End, n # Len(log'[q]) PROVE FALSE
        OBVIOUS
      <4>1. n \in 1 .. Len(log[q])
        BY <2>1, <3>2
      <4> QED BY <3>2, <3>3, <4>1
    <3> QED BY <2>1, <3>1, <3>2, <3>4
  <2> QED BY <2>3, <2>4
<1>4. ChatType'
  <2>1. log' \in [Run -> Seq(Event)]
    BY <1>0, EmitFacts DEF Served, ChatType
  <2>2. status' \in [Run -> Status]
    BY <1>0 DEF Served, ChatType, Status, Terminal
  <2> QED BY <1>0, <1>1, <2>1, <2>2 DEF ChatType, Served
<1>5. \A q \in Run : /\ status[q] = "failed" => status'[q] = "failed"
                     /\ status'[q] = "failed" => Ended(q)'
                     /\ status'[q] = "cancelled" => Intervened(q)'
  <2> SUFFICES ASSUME NEW q \in Run
               PROVE  /\ status[q] = "failed" => status'[q] = "failed"
                      /\ status'[q] = "failed" => Ended(q)'
                      /\ status'[q] = "cancelled" => Intervened(q)'
    OBVIOUS
  <2>1. /\ status[q] = "failed" => Ended(q)
        /\ status[q] = "cancelled" => Intervened(q)
        /\ Ended(q) => Ended(q)'
        /\ status \in [Run -> Status]
    BY <1>0, <1>3 DEF LogInv, ChatType
  <2>2. CASE status' = status
    BY <1>2, <2>1, <2>2
  <2>3. CASE ~Ended(r) /\ \E s \in Status \ {"failed", "cancelled"} : status' = [status EXCEPT ![r] = s]
    BY <1>2, <2>1, <2>3
  <2>4. CASE Ended(r) /\ log' = log /\ status' = [status EXCEPT ![r] = "failed"]
    BY <1>2, <2>1, <2>4
  <2> QED BY <2>2, <2>3, <2>4 DEF Served
<1>6. Unsent' /\ StopInv'
  BY <1>0, <1>1 DEF Unsent, StopInv
<1>7. LogInv'
  BY <1>3, <1>5 DEF LogInv
<1>8. TickInv'
  <2> SUFFICES ASSUME NEW q \in Run PROVE TickOK(q)'
    BY DEF TickInv
  <2>1. /\ Len(log[q]) \in Nat
        /\ poller[q] \in ChatPoller
    BY <1>0, LogFacts DEF ChatType
  <2>2. poller[q].cursor \in Nat /\ poller[q].upTo \in Nat /\ poller[q].from \in Nat
    BY <2>1 DEF ChatPoller
  <2>3. status[q] = "failed" => log'[q] = log[q] /\ status'[q] = "failed"
    BY <1>0, <1>3, <1>5 DEF LogInv
  <2>4. Len(log'[q]) \in Nat /\ Len(log[q]) <= Len(log'[q])
    BY <1>3
  <2>5. TickOK(q) /\ poller'[q] = poller[q]
    BY <1>0, <1>1 DEF TickInv
  <2>6. Intervened(q) => Intervened(q)'
    BY <1>2
  <2> QED BY <2>1, <2>2, <2>3, <2>4, <2>5, <2>6 DEF TickOK
<1>9. SpinnerInv'
  <2>1. \A q \in Run : Owes(q) => Owes(q)'
    <3> SUFFICES ASSUME NEW q \in Run, Owes(q) PROVE Owes(q)'
      OBVIOUS
    <3>1. poller[q].cursor \in Nat /\ poller[q].cursor <= Len(log[q]) /\ Len(log[q]) \in Nat
      BY <1>0, LogFacts DEF ChatType, ChatPoller, TickInv, TickOK
    <3> QED BY <1>1, <1>3, <3>1 DEF Owes, End
  <2>2. \A q \in Run : Forsaken(q) => Forsaken(q)'
    <3> SUFFICES ASSUME NEW q \in Run, Forsaken(q) PROVE Forsaken(q)'
      OBVIOUS
    <3>1. status[q] = "failed" => status'[q] = "failed" /\ log'[q] = log[q]
      BY <1>0, <1>3, <1>5 DEF LogInv
    <3> QED BY <1>1, <3>1 DEF Forsaken
  <2> QED BY <1>0, <1>1, <2>1, <2>2 DEF SpinnerInv, ChatType
<1> QED BY <1>4, <1>6, <1>7, <1>8, <1>9 DEF ChatInv

----------------------------------------------------------------------------
\* The send of a run moves on, without its poller: the server, the pollers and the
\* stop button stay, and the spinner can only go out.
LEMMA ChatSends ==
    ASSUME ChatInv, NEW r \in Run,
           \/ SendBegin(r) \/ SendRequest(r) \/ SendNoToken(r) \/ SendResets(r)
           \/ SendFails(r) \/ SendRejects(r)
    PROVE  ChatInv'
<1>0. ChatType /\ Unsent /\ LogInv /\ TickInv /\ StopInv /\ SpinnerInv
  BY DEF ChatInv
<1>1. /\ log' = log /\ status' = status /\ exec' = exec /\ poller' = poller /\ timer' = timer
      /\ stop' = stop /\ stopped' = stopped
      /\ loading' = FALSE \/ (loading' = loading /\ current' = current)
      /\ current' \in {NoRun, current}
      /\ send[r] # "sent"
      /\ \E l \in {"token", "request", "failed"} : send' = [send EXCEPT ![r] = l]
  <2>1. CASE SendBegin(r)
    BY <2>1 DEF SendBegin, serverVars
  <2>2. CASE SendRequest(r)
    BY <2>2 DEF SendRequest, serverVars
  <2>3. CASE SendNoToken(r)
    BY <2>3 DEF SendNoToken, serverVars
  <2>4. CASE SendResets(r)
    BY <1>0, <2>4 DEF SendResets, serverVars, ChatType
  <2>5. CASE SendFails(r)
    BY <2>5 DEF SendFails, serverVars
  <2>6. CASE SendRejects(r)
    BY <2>6 DEF SendRejects, serverVars
  <2> QED BY <2>1, <2>2, <2>3, <2>4, <2>5, <2>6
<1>2. ChatType'
  BY <1>0, <1>1 DEF ChatType
<1>3. Unsent'
  BY <1>0, <1>1 DEF Unsent, ChatType
<1>4. LogInv' /\ StopInv'
  BY <1>0, <1>1 DEF LogInv, StopInv, Intervened, Ended
<1>5. TickInv'
  BY <1>0, <1>1 DEF TickInv, TickOK, Intervened
<1>6. SpinnerInv'
  BY <1>0, <1>1 DEF SpinnerInv, Owes, Forsaken, ChatType
<1> QED BY <1>2, <1>3, <1>4, <1>5, <1>6 DEF ChatInv

\* Clearing a timer ends the poller that waits for it and touches no other.
LEMMA ClearedFacts ==
    ASSUME ChatType
    PROVE  /\ Cleared \in [Run -> ChatPoller]
           /\ \A q \in Run : Cleared[q] = poller[q]
                 \/ (poller[q].at = "scheduled" /\ Cleared[q] = [poller[q] EXCEPT !.at = "over"])
<1>1. CASE timer # NoRun /\ poller[timer].at = "scheduled"
  <2>1. timer \in Run /\ poller \in [Run -> ChatPoller]
    BY <1>1 DEF ChatType
  <2>2. Cleared = [poller EXCEPT ![timer] = [poller[timer] EXCEPT !.at = "over"]]
    BY <1>1 DEF Cleared
  <2>3. [poller[timer] EXCEPT !.at = "over"] \in ChatPoller
    BY <2>1 DEF ChatPoller
  <2> QED BY <1>1, <2>1, <2>2, <2>3
<1>2. CASE ~(timer # NoRun /\ poller[timer].at = "scheduled")
  BY <1>2 DEF Cleared, ChatType
<1> QED BY <1>1, <1>2

\* A run starts: its poller is fresh and owes the end of the run.
LEMMA ChatReplies ==
    ASSUME ChatInv, NEW r \in Run, SendReply(r)
    PROVE  ChatInv'
<1> USE ChatAssumption
<1>0. ChatType /\ Unsent /\ LogInv /\ TickInv /\ StopInv /\ SpinnerInv
  BY DEF ChatInv
<1>1. /\ log' = log /\ stop' = stop /\ stopped' = stopped /\ send[r] = "request"
      /\ send' = [send EXCEPT ![r] = "sent"]
      /\ status' = [status EXCEPT ![r] = "running"] /\ exec' = [exec EXCEPT ![r] = "working"]
      /\ loading' = TRUE /\ current' = r /\ timer' = r
      /\ poller' = [Cleared EXCEPT ![r].at = "scheduled"]
  BY DEF SendReply
<1>2. Cleared \in [Run -> ChatPoller] /\ poller \in [Run -> ChatPoller] /\ poller[r] = Idle
  BY <1>0, <1>1, ClearedFacts DEF Unsent, ChatType
<1>3. Cleared[r] = Idle
  BY <1>0, <1>2, ClearedFacts DEF Idle
<1>4. poller' = [Cleared EXCEPT ![r] = [Idle EXCEPT !.at = "scheduled"]]
  BY <1>1, <1>2, <1>3
<1>5. [Idle EXCEPT !.at = "scheduled"] \in ChatPoller
  BY DEF Idle, ChatPoller, Status
<1>6. /\ poller' \in [Run -> ChatPoller]
      /\ poller'[r].at = "scheduled" /\ poller'[r].cursor = 0 /\ poller'[r].empty = 0
      /\ \A q \in Run : q # r => \/ poller'[q] = poller[q]
                                \/ /\ poller[q].at = "scheduled"
                                   /\ poller'[q] = [poller[q] EXCEPT !.at = "over"]
  BY <1>0, <1>2, <1>4, <1>5, ClearedFacts DEF Idle
<1>7. ChatType'
  BY <1>0, <1>1, <1>6 DEF ChatType, Status
<1>8. Unsent' /\ StopInv'
  <2>1. \A q \in Run : send'[q] # "sent" => q # r /\ poller[q] = Idle
    BY <1>0, <1>1 DEF Unsent, ChatType
  <2> QED BY <1>0, <1>1, <1>6, <2>1 DEF Unsent, StopInv, Idle
<1>9. LogInv'
  BY <1>0, <1>1 DEF LogInv, Intervened, Ended, ChatType
<1>10. TickInv'
  <2>1. \A q \in Run : Len(log[q]) \in Nat /\ poller[q] \in ChatPoller
    BY <1>0, LogFacts DEF ChatType
  <2>2. \A q \in Run : q # r => status'[q] = status[q]
    BY <1>0, <1>1 DEF ChatType
  <2> SUFFICES ASSUME NEW q \in Run PROVE TickOK(q)'
    BY DEF TickInv
  <2>3. TickOK(q) /\ (Intervened(q)' <=> Intervened(q)) /\ Len(log[q]) \in Nat
    BY <1>0, <1>1, <2>1 DEF TickInv, Intervened
  <2>4. CASE q = r
    BY <1>1, <1>6, <2>3, <2>4 DEF TickOK
  <2>5. CASE q # r /\ poller'[q] = poller[q]
    BY <1>1, <2>2, <2>3, <2>5 DEF TickOK
  <2>6. CASE q # r /\ poller'[q] = [poller[q] EXCEPT !.at = "over"]
    <3>1. poller'[q].at = "over" /\ poller'[q].cursor = poller[q].cursor
      BY <2>1, <2>6 DEF ChatPoller
    <3> QED BY <1>1, <2>3, <3>1 DEF TickOK
  <2> QED BY <1>6, <2>4, <2>5, <2>6
<1>11. SpinnerInv'
  <2>1. Owes(r)'
    BY <1>6 DEF Owes, Polling
  <2> QED BY <1>0, <1>1, <2>1 DEF SpinnerInv, ChatType
<1> QED BY <1>7, <1>8, <1>9, <1>10, <1>11 DEF ChatInv

----------------------------------------------------------------------------
\* The stop button.
LEMMA ChatStops ==
    ASSUME ChatInv, StopBegin \/ StopCancels \/ StopEnds
    PROVE  ChatInv'
<1> USE ChatAssumption
<1>0. ChatType /\ Unsent /\ LogInv /\ TickInv /\ StopInv /\ SpinnerInv
  BY DEF ChatInv
<1>1. CASE StopBegin
  <2>1. /\ log' = log /\ status' = status /\ exec' = exec /\ send' = send /\ stopped' = stopped
        /\ loading' = loading /\ current' = current /\ timer' = NoRun /\ poller' = Cleared
        /\ stop.at = "idle" /\ stop'.at # "idle" /\ stop'.run = current
        /\ stop'.at = "cancelling" => current # NoRun
        /\ stop' \in [at : {"idle", "cancelling", "cancelled"}, run : Run \cup {NoRun}]
    BY <1>0, <1>1 DEF StopBegin, serverVars, ChatType
  <2>2. \A q \in Run : Intervened(q) => Intervened(q)'
    BY <2>1 DEF Intervened
  <2>3. /\ Cleared \in [Run -> ChatPoller]
        /\ \A q \in Run : \/ poller'[q] = poller[q]
                          \/ /\ poller[q].at = "scheduled"
                             /\ poller'[q] = [poller[q] EXCEPT !.at = "over"]
    BY <1>0, <2>1, ClearedFacts
  <2>4. ChatType'
    BY <1>0, <2>1, <2>3 DEF ChatType
  <2>5. Unsent' /\ StopInv' /\ SpinnerInv'
    BY <1>0, <2>1, <2>3 DEF Unsent, StopInv, SpinnerInv, Idle
  <2>6. LogInv'
    BY <1>0, <2>1, <2>2 DEF LogInv, Ended
  <2>7. TickInv'
    <3>1. \A q \in Run : poller[q] \in ChatPoller
      BY <1>0 DEF ChatType
    <3> SUFFICES ASSUME NEW q \in Run PROVE TickOK(q)'
      BY DEF TickInv
    <3>2. TickOK(q)
      BY <1>0 DEF TickInv
    <3>3. CASE poller'[q] = poller[q]
      BY <2>1, <2>2, <3>2, <3>3 DEF TickOK
    <3>4. CASE poller'[q] = [poller[q] EXCEPT !.at = "over"]
      <4>1. poller'[q].at = "over" /\ poller'[q].cursor = poller[q].cursor
        BY <3>1, <3>4 DEF ChatPoller
      <4> QED BY <2>1, <3>2, <4>1 DEF TickOK
    <3> QED BY <2>3, <3>3, <3>4
  <2> QED BY <2>4, <2>5, <2>6, <2>7 DEF ChatInv
<1>2. CASE StopCancels
  <2>1. /\ log' = log /\ send' = send /\ poller' = poller /\ stopped' = stopped
        /\ loading' = loading /\ current' = current /\ timer' = timer
        /\ stop.at = "cancelling" /\ stop' = [stop EXCEPT !.at = "cancelled"]
        /\ status' \in {status, [status EXCEPT ![stop.run] = "cancelled"]}
        /\ exec' \in {exec, [exec EXCEPT ![stop.run] = "over"]}
    BY <1>2 DEF StopCancels
  <2>2. stop.run \in Run /\ stop'.at = "cancelled" /\ stop'.run = stop.run
    BY <1>0, <2>1 DEF StopInv, ChatType
  <2>3. Intervened(stop.run)' /\ \A q \in Run : Intervened(q) => Intervened(q)'
    BY <1>0, <2>1, <2>2 DEF Intervened, StopInv
  <2>4. \A q \in Run : status'[q] = status[q] \/ (q = stop.run /\ status'[q] = "cancelled")
    BY <1>0, <2>1, <2>2 DEF ChatType
  <2>5. ChatType'
    BY <1>0, <2>1, <2>2 DEF ChatType, Status, Terminal
  <2>6. Unsent' /\ StopInv' /\ SpinnerInv'
    BY <1>0, <2>1, <2>2 DEF Unsent, StopInv, SpinnerInv
  <2>7. LogInv'
    BY <1>0, <2>1, <2>3, <2>4 DEF LogInv, Ended
  <2>8. TickInv'
    BY <1>0, <2>1, <2>3, <2>4 DEF TickInv, TickOK
  <2> QED BY <2>5, <2>6, <2>7, <2>8 DEF ChatInv
<1>3. CASE StopEnds
  <2>1. /\ log' = log /\ status' = status /\ exec' = exec /\ send' = send /\ poller' = poller
        /\ timer' = timer /\ loading' = FALSE /\ current' = NoRun
        /\ stop' = [at |-> "idle", run |-> NoRun] /\ stopped' = stopped \cup ({stop.run} \ {NoRun})
    BY <1>3 DEF StopEnds, serverVars
  <2>2. \A q \in Run : Intervened(q) => Intervened(q)'
    BY <2>1 DEF Intervened
  <2>3. ChatType'
    BY <1>0, <2>1 DEF ChatType
  <2>4. Unsent' /\ StopInv' /\ SpinnerInv'
    BY <1>0, <2>1 DEF Unsent, StopInv, SpinnerInv
  <2>5. LogInv'
    BY <1>0, <2>1, <2>2 DEF LogInv, Ended
  <2>6. TickInv'
    BY <1>0, <2>1, <2>2 DEF TickInv, TickOK
  <2> QED BY <2>3, <2>4, <2>5, <2>6 DEF ChatInv
<1> QED BY <1>1, <1>2, <1>3

----------------------------------------------------------------------------
\* A tick moves one poller on: the run's status is read, then a page of its events.
LEMMA ChatTickReads ==
    ASSUME ChatInv, NEW r \in Run, TickFires(r) \/ TickAnswered(r)
    PROVE  ChatInv'
<1> USE ChatAssumption
<1>0. ChatType /\ Unsent /\ LogInv /\ TickInv /\ StopInv /\ SpinnerInv
  BY DEF ChatInv
<1>1. poller[r] \in ChatPoller /\ status[r] \in Status /\ Len(log[r]) \in Nat /\ TickOK(r)
  BY <1>0, LogFacts DEF ChatType, TickInv
<1>2. /\ poller[r].cursor \in Nat /\ poller[r].from \in Nat /\ poller[r].upTo \in Nat
  BY <1>1 DEF ChatPoller
<1> DEFINE p == poller'[r]
<1>3. /\ log' = log /\ status' = status /\ exec' = exec /\ send' = send /\ timer' = timer
      /\ loading' = loading /\ current' = current /\ stop' = stop /\ stopped' = stopped
      /\ \A q \in Run : q # r => poller'[q] = poller[q]
  <2>1. CASE TickFires(r)
    BY <1>0, <2>1 DEF TickFires, serverVars, ChatType
  <2>2. CASE TickAnswered(r)
    BY <1>0, <2>2 DEF TickAnswered, serverVars, ChatType
  <2> QED BY <2>1, <2>2
<1>4. /\ poller[r].at \in Polling
      /\ p.at \in {"status", "answered"} /\ p.cursor = poller[r].cursor /\ p.empty = poller[r].empty
      /\ p \in ChatPoller /\ poller' \in [Run -> ChatPoller]
      /\ p.at = "status" => p.seen = status[r]
      /\ p.at = "answered" =>
            /\ poller[r].at = "status" /\ p.seen = poller[r].seen
            /\ p.from = PageFrom(r, poller[r].cursor) /\ p.upTo = PageUpTo(r, poller[r].cursor)
  <2>1. CASE TickFires(r)
    <3>1. poller' = [poller EXCEPT ![r] = [poller[r] EXCEPT !.at = "status", !.seen = status[r]]]
      BY <2>1 DEF TickFires
    <3>2. [poller[r] EXCEPT !.at = "status", !.seen = status[r]] \in ChatPoller
      BY <1>1 DEF ChatPoller
    <3> QED BY <1>0, <1>1, <2>1, <3>1, <3>2 DEF TickFires, ChatType, ChatPoller, Polling
  <2>2. CASE TickAnswered(r)
    <3> DEFINE f == PageFrom(r, poller[r].cursor)
               u == PageUpTo(r, poller[r].cursor)
    <3>1. poller' = [poller EXCEPT ![r] = [poller[r] EXCEPT !.at = "answered", !.from = f, !.upTo = u]]
      BY <2>2 DEF TickAnswered
    <3>2. f \in Nat /\ u \in Nat
      BY <1>1, <1>2 DEF PageFrom, PageUpTo
    <3> HIDE DEF f, u
    <3>3. [poller[r] EXCEPT !.at = "answered", !.from = f, !.upTo = u] \in ChatPoller
      BY <1>1, <3>2 DEF ChatPoller
    <3>4. p = [poller[r] EXCEPT !.at = "answered", !.from = f, !.upTo = u] /\ poller[r].at = "status"
      BY <1>0, <2>2, <3>1 DEF ChatType, TickAnswered
    <3>5. p.at = "answered" /\ p.from = f /\ p.upTo = u /\ p.cursor = poller[r].cursor
          /\ p.empty = poller[r].empty /\ p.seen = poller[r].seen
      BY <1>1, <3>4 DEF ChatPoller
    <3>6. poller' \in [Run -> ChatPoller]
      BY <1>0, <3>1, <3>3 DEF ChatType
    <3> HIDE DEF p
    <3> QED BY <3>3, <3>4, <3>5, <3>6 DEF Polling, f, u
  <2> QED BY <2>1, <2>2
<1>5. \A q \in Run : Intervened(q)' <=> Intervened(q)
  BY <1>3 DEF Intervened
<1> HIDE DEF p
<1>6. ChatType'
  BY <1>0, <1>3, <1>4 DEF ChatType
<1>7. Unsent'
  <2>1. send[r] = "sent"
    BY <1>0, <1>4 DEF Unsent, Idle, Polling
  <2> QED BY <1>0, <1>3, <2>1 DEF Unsent
<1>8. LogInv' /\ StopInv'
  BY <1>0, <1>3, <1>5 DEF LogInv, StopInv, Ended
<1>9. TickInv'
  <2> SUFFICES ASSUME NEW q \in Run PROVE TickOK(q)'
    BY DEF TickInv
  <2>1. CASE q # r
    BY <1>0, <1>3, <1>5, <2>1 DEF TickInv, TickOK
  <2>2. CASE q = r /\ p.at = "status"
    <3>1. p.seen = status[r]
      BY <1>4, <2>2
    <3>2. status[r] = "cancelled" => Intervened(r)
      BY <1>0 DEF LogInv
    <3>3. p.empty # MaxEmpty
      BY <1>1, <1>4 DEF TickOK, Polling
    <3> QED BY <1>1, <1>3, <1>4, <1>5, <2>2, <3>1, <3>2, <3>3 DEF TickOK, p
  <2>3. CASE q = r /\ p.at = "answered"
    <3>1. /\ p.seen = poller[r].seen /\ poller[r].at = "status"
          /\ p.from = PageFrom(r, poller[r].cursor) /\ p.upTo = PageUpTo(r, poller[r].cursor)
      BY <1>4, <2>3
    <3>2. poller[r].cursor <= Len(log[r]) /\ p.empty # MaxEmpty
      BY <1>1, <1>4 DEF TickOK, Polling
    <3>3. /\ p.cursor <= p.from /\ p.upTo <= Len(log[r])
          /\ p.cursor < p.from => p.from < p.upTo
          /\ p.from = 0 \/ p.cursor # 0
          /\ p.upTo = Len(log[r]) \/ (p.from = 0 /\ p.upTo = Limit /\ Limit < Len(log[r]))
      BY <1>1, <1>2, <1>4, <3>1, <3>2 DEF PageFrom, PageUpTo
    <3> QED BY <1>1, <1>3, <1>4, <1>5, <2>3, <3>1, <3>2, <3>3 DEF TickOK, p
  <2> QED BY <1>4, <2>1, <2>2, <2>3
<1>10. SpinnerInv'
  <2>1. \A q \in Run : Owes(q) => Owes(q)'
    BY <1>3, <1>4 DEF Owes, Polling, p
  <2>2. \A q \in Run : Forsaken(q) => Forsaken(q)'
    BY <1>3, <1>4 DEF Forsaken, Polling, p
  <2> QED BY <1>0, <1>3, <2>1, <2>2 DEF SpinnerInv, ChatType
<1> QED BY <1>6, <1>7, <1>8, <1>9, <1>10 DEF ChatInv

\* A tick that fails ends its poller and the spinner.
LEMMA ChatTickFails ==
    ASSUME ChatInv, NEW r \in Run, TickFails(r)
    PROVE  ChatInv'
<1>0. ChatType /\ Unsent /\ LogInv /\ TickInv /\ StopInv /\ SpinnerInv
  BY DEF ChatInv
<1>1. /\ log' = log /\ status' = status /\ exec' = exec /\ send' = send /\ timer' = NoRun
      /\ loading' = FALSE /\ current' = current /\ stop' = stop /\ stopped' = stopped
      /\ poller[r].at = "status" /\ poller' = [poller EXCEPT ![r] = [poller[r] EXCEPT !.at = "over"]]
  BY DEF TickFails, serverVars
<1>2. poller[r] \in ChatPoller
  BY <1>0 DEF ChatType
<1>3. /\ poller' \in [Run -> ChatPoller]
      /\ poller'[r].at = "over" /\ poller'[r].cursor = poller[r].cursor
      /\ \A q \in Run : q # r => poller'[q] = poller[q]
  <2> DEFINE y == [poller[r] EXCEPT !.at = "over"]
  <2>1. y \in ChatPoller /\ y.at = "over" /\ y.cursor = poller[r].cursor
    BY <1>2 DEF ChatPoller
  <2>2. poller \in [Run -> ChatPoller] /\ poller' = [poller EXCEPT ![r] = y]
    BY <1>0, <1>1 DEF ChatType
  <2> HIDE DEF y
  <2> QED BY <2>1, <2>2
<1>4. \A q \in Run : Intervened(q)' <=> Intervened(q)
  BY <1>1 DEF Intervened
<1>5. ChatType'
  BY <1>0, <1>1, <1>3 DEF ChatType
<1>6. Unsent'
  <2>1. send[r] = "sent"
    BY <1>0, <1>1 DEF Unsent, Idle
  <2> QED BY <1>0, <1>1, <1>3, <2>1 DEF Unsent
<1>7. LogInv' /\ StopInv' /\ SpinnerInv'
  BY <1>0, <1>1, <1>4 DEF LogInv, StopInv, SpinnerInv, Ended
<1>8. TickInv'
  <2> SUFFICES ASSUME NEW q \in Run PROVE TickOK(q)'
    BY DEF TickInv
  <2>1. CASE q = r
    BY <1>0, <1>1, <1>3, <2>1 DEF TickInv, TickOK
  <2>2. CASE q # r
    BY <1>0, <1>1, <1>3, <1>4, <2>2 DEF TickInv, TickOK
  <2> QED BY <2>1, <2>2
<1> QED BY <1>5, <1>6, <1>7, <1>8 DEF ChatInv

\* A rejected tick loses its poller: the run is forsaken.
LEMMA ChatTickRejects ==
    ASSUME ChatInv, NEW r \in Run, TickRejects(r)
    PROVE  ChatInv'
<1>0. ChatType /\ Unsent /\ LogInv /\ TickInv /\ StopInv /\ SpinnerInv
  BY DEF ChatInv
<1>1. /\ log' = log /\ status' = status /\ exec' = exec /\ send' = send /\ timer' = timer
      /\ loading' = loading /\ current' = current /\ stop' = stop /\ stopped' = stopped
      /\ poller[r].at = "status" /\ poller' = [poller EXCEPT ![r] = [poller[r] EXCEPT !.at = "lost"]]
  BY DEF TickRejects, serverVars
<1>2. poller[r] \in ChatPoller
  BY <1>0 DEF ChatType
<1>3. /\ poller' \in [Run -> ChatPoller]
      /\ poller'[r].at = "lost" /\ poller'[r].cursor = poller[r].cursor /\ poller'[r].empty = poller[r].empty
      /\ \A q \in Run : q # r => poller'[q] = poller[q]
  <2> DEFINE y == [poller[r] EXCEPT !.at = "lost"]
  <2>1. y \in ChatPoller /\ y.at = "lost" /\ y.cursor = poller[r].cursor /\ y.empty = poller[r].empty
    BY <1>2 DEF ChatPoller
  <2>2. poller \in [Run -> ChatPoller] /\ poller' = [poller EXCEPT ![r] = y]
    BY <1>0, <1>1 DEF ChatType
  <2> HIDE DEF y
  <2> QED BY <2>1, <2>2
<1>4. \A q \in Run : Intervened(q)' <=> Intervened(q)
  BY <1>1 DEF Intervened
<1>5. ChatType'
  BY <1>0, <1>1, <1>3 DEF ChatType
<1>6. Unsent'
  <2>1. send[r] = "sent"
    BY <1>0, <1>1 DEF Unsent, Idle
  <2> QED BY <1>0, <1>1, <1>3, <2>1 DEF Unsent
<1>7. LogInv' /\ StopInv'
  BY <1>0, <1>1, <1>4 DEF LogInv, StopInv, Ended
<1>8. TickInv'
  <2> SUFFICES ASSUME NEW q \in Run PROVE TickOK(q)'
    BY DEF TickInv
  <2>1. CASE q = r
    BY <1>0, <1>1, <1>3, <2>1 DEF TickInv, TickOK
  <2>2. CASE q # r
    BY <1>0, <1>1, <1>3, <1>4, <2>2 DEF TickInv, TickOK
  <2> QED BY <2>1, <2>2
<1>9. SpinnerInv'
  <2>1. Forsaken(r)'
    BY <1>3 DEF Forsaken
  <2>2. \A q \in Run : q # r => (Owes(q) => Owes(q)') /\ (Forsaken(q) => Forsaken(q)')
    BY <1>1, <1>3 DEF Owes, Forsaken
  <2> QED BY <1>0, <1>1, <2>1, <2>2 DEF SpinnerInv, ChatType
<1> QED BY <1>5, <1>6, <1>7, <1>8, <1>9 DEF ChatInv

\* A page is applied.  A poller that stops has shown the end of its run, or one of the
\* ways out is open.
LEMMA ChatTickApplies ==
    ASSUME ChatInv, NEW r \in Run, TickApplied(r)
    PROVE  ChatInv'
<1> USE ChatAssumption
<1>0. ChatType /\ Unsent /\ LogInv /\ TickInv /\ StopInv /\ SpinnerInv
  BY DEF ChatInv
<1> DEFINE p == poller[r]
           ends == \E n \in p.from + 1 .. p.upTo : log[r][n] \in {"done", "error"}
           starts == \E n \in p.from + 1 .. p.upTo : log[r][n] = "run_started"
           stops == ShouldStop(p)
           c == CursorAfter(p)
           e == EmptyAfter(p)
           at == IF stops THEN "over" ELSE "scheduled"
           new == [p EXCEPT !.at = at, !.cursor = c, !.empty = e, !.seen = "none",
                            !.from = 0, !.upTo = 0]
<1>1. /\ p \in ChatPoller /\ Len(log[r]) \in Nat /\ DOMAIN log[r] = 1 .. Len(log[r]) /\ TickOK(r)
      /\ p.at = "answered"
  BY <1>0, LogFacts DEF ChatType, TickInv, TickApplied
<1>2. /\ p.cursor \in Nat /\ p.from \in Nat /\ p.upTo \in Nat /\ p.seen \in Status
      /\ p.empty \in 0 .. MaxEmpty
  BY <1>1 DEF ChatPoller
<1>3. /\ p.cursor <= Len(log[r]) /\ p.upTo <= Len(log[r]) /\ p.empty # MaxEmpty
  BY <1>1 DEF TickOK
<1>4. /\ c \in Nat /\ c <= Len(log[r]) /\ e \in 0 .. MaxEmpty
      /\ p.from < p.upTo => c = p.upTo /\ e = 0
      /\ ~(p.from < p.upTo) => c = p.cursor
  BY <1>2, <1>3 DEF CursorAfter, EmptyAfter
<1>5. /\ log' = log /\ status' = status /\ exec' = exec /\ send' = send
      /\ stop' = stop /\ stopped' = stopped
      /\ loading' = (CASE ends \/ p.seen = "completed" -> FALSE
                       [] starts /\ ~ends /\ p.seen # "completed" -> TRUE
                       [] OTHER -> loading)
      /\ current' = (CASE ends \/ p.seen = "completed" -> NoRun
                       [] starts /\ ~ends /\ p.seen # "completed" -> r
                       [] OTHER -> current)
      /\ poller' = [poller EXCEPT ![r] = new]
      /\ timer' = IF stops THEN NoRun ELSE r
  BY DEF TickApplied, serverVars
<1>6. e = MaxEmpty => stops
  BY DEF ShouldStop
<1>7. p.seen \in {"failed", "cancelled", "completed"} \/ e = MaxEmpty \/ ~stops
  BY DEF ShouldStop, Terminal
<1> HIDE DEF c, e, stops
<1>8. new \in ChatPoller
  BY <1>1, <1>4 DEF ChatPoller, Status
<1>9. /\ new.at = at /\ new.cursor = c /\ new.empty = e
  BY <1>1 DEF ChatPoller
<1> HIDE DEF new, at
<1>10. /\ poller' \in [Run -> ChatPoller] /\ poller'[r] = new
       /\ \A q \in Run : q # r => poller'[q] = poller[q]
  BY <1>0, <1>5, <1>8 DEF ChatType
<1>11. \A q \in Run : Intervened(q)' <=> Intervened(q)
  BY <1>5 DEF Intervened
<1>12. ChatType'
  <2>1. loading' \in BOOLEAN /\ current' \in Run \cup {NoRun} /\ timer' \in Run \cup {NoRun}
    BY <1>0, <1>5 DEF ChatType
  <2> QED BY <1>0, <1>5, <1>10, <2>1 DEF ChatType
<1>13. Unsent'
  <2>1. send[r] = "sent"
    BY <1>0, <1>1 DEF Unsent, Idle
  <2> QED BY <1>0, <1>5, <1>10, <2>1 DEF Unsent
<1>14. LogInv' /\ StopInv'
  BY <1>0, <1>5, <1>11 DEF LogInv, StopInv, Ended
<1>15. TickInv'
  <2> SUFFICES ASSUME NEW q \in Run PROVE TickOK(q)'
    BY DEF TickInv
  <2>1. CASE q = r
    BY <1>4, <1>5, <1>6, <1>9, <1>10, <2>1 DEF TickOK, at
  <2>2. CASE q # r
    BY <1>0, <1>5, <1>10, <1>11, <2>2 DEF TickInv, TickOK
  <2> QED BY <2>1, <2>2
<1>16. SpinnerInv'
  <2> SUFFICES ASSUME loading', stop.at = "idle"
               PROVE  current' # NoRun /\ (Owes(current) \/ Forsaken(current))'
    BY <1>5 DEF SpinnerInv
  <2> DEFINE clean == \A n \in 1 .. c : log[r][n] \notin End
  <2>1. /\ ~ends /\ p.seen # "completed"
        /\ \/ starts /\ current' = r
           \/ loading /\ current' = current
    BY <1>5
  <2>2. \A n \in 1 .. Len(log[r]) : log[r][n] \in End => n = Len(log[r])
    BY <1>0 DEF LogInv
  <2>3. p.from < p.upTo => clean
    <3> SUFFICES ASSUME p.from < p.upTo, NEW n \in 1 .. c PROVE log[r][n] \notin End
      OBVIOUS
    <3>1. CASE n <= p.from
      BY <1>2, <1>3, <1>4, <2>2, <3>1
    <3>2. CASE n > p.from
      <4>1. ~ends /\ n \in p.from + 1 .. p.upTo
        BY <1>2, <1>4, <2>1, <3>2
      <4> QED BY <4>1 DEF End
    <3> QED BY <1>2, <3>1, <3>2
  <2>4. Owes(r) => clean
    BY <1>4, <2>3 DEF Owes, End
  <2>5. starts => p.from < p.upTo
    BY <1>2
  <2> HIDE DEF ends, starts
  <2>6. ASSUME clean PROVE Owes(r)' \/ Forsaken(r)'
    <3>1. CASE ~stops
      BY <1>5, <1>9, <1>10, <2>6, <3>1 DEF Owes, Polling, at, End
    <3>2. CASE stops /\ e = MaxEmpty
      BY <1>9, <1>10, <3>2 DEF Forsaken, at
    <3>3. CASE stops /\ Intervened(r)
      BY <1>5, <1>9, <1>10, <3>3 DEF Forsaken, Intervened, at
    <3>4. CASE stops /\ p.seen = "failed" /\ ~Intervened(r)
      <4>1. status[r] = "failed"
        BY <1>1, <3>4 DEF TickOK
      <4>2. Ended(r)
        BY <1>0, <4>1 DEF LogInv
      <4>3. c # Len(log[r])
        BY <1>1, <2>6, <4>2 DEF Ended, End
      <4>4. p.upTo = Len(log[r]) => c = Len(log[r])
        BY <1>1, <1>2, <1>3, <1>4 DEF TickOK
      <4>5. p.from = 0 /\ p.upTo = Limit /\ Limit < Len(log[r])
        BY <1>1, <3>4, <4>3, <4>4 DEF TickOK
      <4>6. c = Limit
        BY <1>4, <4>5
      <4> QED BY <1>5, <1>9, <1>10, <3>4, <4>1, <4>5, <4>6 DEF Forsaken, at
    <3>5. p.seen = "cancelled" => Intervened(r)
      BY <1>1 DEF TickOK
    <3> QED BY <1>7, <2>1, <3>1, <3>2, <3>3, <3>4, <3>5
  <2>7. CASE starts /\ current' = r
    <3>1. Owes(r)' \/ Forsaken(r)'
      BY <2>3, <2>5, <2>6, <2>7
    <3> QED BY <2>7, <3>1, ChatAssumption
  <2>8. CASE loading /\ current' = current
    <3>1. current # NoRun /\ current \in Run /\ (Owes(current) \/ Forsaken(current))
      BY <1>0, <2>8 DEF SpinnerInv, ChatType
    <3>2. CASE current = r
      <4>1. ~Forsaken(r)
        BY <1>1 DEF Forsaken
      <4>2. Owes(r)' \/ Forsaken(r)'
        BY <2>4, <2>6, <3>1, <3>2, <4>1
      <4> QED BY <2>8, <3>1, <3>2, <4>2
    <3>3. CASE current # r
      <4>1. Owes(current) => Owes(current)'
        BY <1>5, <1>10, <2>8, <3>1, <3>3 DEF Owes
      <4>2. Forsaken(current) => Forsaken(current)'
        BY <1>5, <1>10, <2>8, <3>1, <3>3 DEF Forsaken
      <4> QED BY <2>8, <3>1, <4>1, <4>2
    <3> QED BY <3>2, <3>3
  <2> QED BY <2>1, <2>7, <2>8
<1> QED BY <1>12, <1>13, <1>14, <1>15, <1>16 DEF ChatInv

----------------------------------------------------------------------------
LEMMA ChatSteps == ChatInv /\ [Next]_vars => ChatInv'
<1> SUFFICES ASSUME ChatInv, [Next]_vars PROVE ChatInv'
  OBVIOUS
<1>1. CASE UNCHANGED vars
  BY <1>1 DEF vars, ChatInv, ChatType, Unsent, LogInv, TickInv, TickOK, StopInv, SpinnerInv,
              Intervened, Ended, Owes, Forsaken
<1>2. CASE Serve
  BY <1>2, ServerSteps, ChatServed DEF Serve, ChatInv
<1>3. ASSUME NEW r \in Run, SendBegin(r) \/ SendRequest(r) \/ SendNoToken(r) PROVE ChatInv'
  BY <1>3, ChatSends
<1>4. ASSUME NEW r \in Run, SendResets(r) \/ SendReply(r) \/ SendFails(r) \/ SendRejects(r) PROVE ChatInv'
  BY <1>4, ChatSends, ChatReplies
<1>5. ASSUME NEW r \in Run, Tick(r) PROVE ChatInv'
  BY <1>5, ChatTickReads, ChatTickFails, ChatTickRejects, ChatTickApplies DEF Tick
<1>6. CASE StopBegin \/ Stop
  BY <1>6, ChatStops DEF Stop
<1> QED BY <1>1, <1>2, <1>3, <1>4, <1>5, <1>6 DEF Next

\* useVibe: a page that spins for a run has that run's poller behind it, alive and with
\* the end of the run before it, however sends, ticks and stops interleave, unless
\* that poller was lost or stopped in one of the four ways the code has.
THEOREM SpinnerIsDriven == Spec => []SpinnerHasPoller
<1>1. ChatInv => SpinnerHasPoller
  BY DEF ChatInv, SpinnerInv, SpinnerHasPoller
<1> QED BY <1>1, ChatStarts, ChatSteps, PTL DEF Spec
-----------------------------------------------------------------------------
\* What was dispatched of a run lies behind its poller's cursor, and in order.
ShownOf(s, cursor) ==
    /\ s \in Seq(Int)
    /\ Increasing(s)
    /\ \A i \in 1 .. Len(s) : s[i] <= cursor
ShownInv == shown \in [Run -> Seq(Int)] /\ \A r \in Run : ShownOf(shown[r], poller[r].cursor)

\* Nothing but an applied page moves a cursor or dispatches an event.
LEMMA CursorsStay ==
    ASSUME ChatType, [Next]_vars, ~\E r \in Run : TickApplied(r)
    PROVE  shown' = shown /\ \A q \in Run : poller'[q].cursor = poller[q].cursor
<1>1. CASE UNCHANGED vars
  BY <1>1 DEF vars
<1>2. CASE Serve
  BY <1>2 DEF Serve, Produce, FailRun, CompleteRun, clientVars
<1>3. CASE \E r \in Run : SendBegin(r) \/ SendRequest(r) \/ SendNoToken(r) \/ SendResets(r)
                           \/ SendFails(r) \/ SendRejects(r)
  BY <1>3 DEF SendBegin, SendRequest, SendNoToken, SendResets, SendFails, SendRejects
<1>4. \A q \in Run : Cleared[q].cursor = poller[q].cursor
  <2> SUFFICES ASSUME NEW q \in Run PROVE Cleared[q].cursor = poller[q].cursor
    OBVIOUS
  <2>1. poller[q] \in ChatPoller
    BY DEF ChatType
  <2>2. \/ Cleared[q] = poller[q]
        \/ Cleared[q] = [poller[q] EXCEPT !.at = "over"]
    BY ClearedFacts
  <2> HIDE DEF Cleared
  <2> QED BY <2>1, <2>2 DEF ChatPoller
<1>5. Cleared \in [Run -> ChatPoller] /\ poller \in [Run -> ChatPoller]
  BY ClearedFacts DEF ChatType
<1>6. ASSUME NEW r \in Run, SendReply(r)
      PROVE  shown' = shown /\ \A q \in Run : poller'[q].cursor = poller[q].cursor
  <2>1. poller' = [Cleared EXCEPT ![r].at = "scheduled"] /\ shown' = shown
    BY <1>6 DEF SendReply
  <2>2. \A q \in Run : poller'[q].cursor = Cleared[q].cursor
    <3> HIDE DEF Cleared
    <3> QED BY <1>5, <2>1 DEF ChatPoller
  <2> QED BY <1>4, <2>1, <2>2
<1>7. ASSUME NEW r \in Run, TickFires(r) \/ TickAnswered(r) \/ TickFails(r) \/ TickRejects(r)
      PROVE  shown' = shown /\ \A q \in Run : poller'[q].cursor = poller[q].cursor
  <2>1. CASE TickFires(r)
    BY <1>5, <2>1 DEF TickFires, ChatPoller
  <2>2. CASE TickAnswered(r)
    BY <1>5, <2>2 DEF TickAnswered, ChatPoller
  <2>3. CASE TickFails(r)
    BY <1>5, <2>3 DEF TickFails, ChatPoller
  <2>4. CASE TickRejects(r)
    BY <1>5, <2>4 DEF TickRejects, ChatPoller
  <2> QED BY <1>7, <2>1, <2>2, <2>3, <2>4
<1>8. CASE StopBegin
  BY <1>4, <1>8 DEF StopBegin
<1>9. CASE Stop
  BY <1>9 DEF Stop, StopCancels, StopEnds
<1> QED BY <1>1, <1>2, <1>3, <1>6, <1>7, <1>8, <1>9 DEF Next, Tick

\* A page is dispatched behind all that was dispatched before it.
LEMMA PageFollows ==
    ASSUME ChatInv, ShownInv, NEW r \in Run, TickApplied(r)
    PROVE  ShownInv'
<1> DEFINE p == poller[r]
           s == shown[r]
           D == {n \in p.from + 1 .. p.upTo : log[r][n] = "delta"}
           t == Ascending(D)
           c == CursorAfter(p)
<1>1. p \in ChatPoller /\ p.cursor <= p.from /\ poller \in [Run -> ChatPoller]
  BY DEF ChatInv, ChatType, TickInv, TickOK, TickApplied
<1>2. p.cursor \in Nat /\ p.from \in Nat /\ p.upTo \in Nat
  BY <1>1 DEF ChatPoller
<1>3. c \in Nat /\ p.cursor <= c /\ \A n \in p.from + 1 .. p.upTo : p.cursor < n /\ n <= c
  <2> DEFINE cursor == p.cursor  from == p.from  upTo == p.upTo
  <2>1. c = IF from < upTo THEN upTo ELSE cursor
    BY DEF CursorAfter
  <2>2. cursor \in Nat /\ from \in Nat /\ upTo \in Nat /\ cursor <= from
    BY <1>1, <1>2
  <2> HIDE DEF cursor, from, upTo, c
  <2>3. c \in Nat /\ cursor <= c /\ \A n \in from + 1 .. upTo : cursor < n /\ n <= c
    BY <2>1, <2>2
  <2> QED BY <2>3 DEF cursor, from, upTo
<1>4. IsFiniteSet(D) /\ D \in SUBSET Int
  <2>1. \A a, b \in Int : IsFiniteSet(a .. b)
    BY FS_Interval
  <2>2. p.from + 1 \in Int /\ p.upTo \in Int
    BY <1>2
  <2>3. IsFiniteSet(p.from + 1 .. p.upTo)
    BY <2>1, <2>2
  <2>4. D \in SUBSET (p.from + 1 .. p.upTo)
    OBVIOUS
  <2>5. IsFiniteSet(D)
    BY <2>3, <2>4, FS_Subset
  <2> QED BY <2>2, <2>4, <2>5
<1>5. t \in Seq(Int) /\ Increasing(t) /\ \A j \in 1 .. Len(t) : t[j] \in D
  BY <1>4, AscendingFacts
<1>6. shown' = [shown EXCEPT ![r] = s \o t] /\ poller' = [poller EXCEPT ![r] = poller'[r]] /\ poller'[r].cursor = c
  BY <1>1 DEF TickApplied, ChatPoller
<1>7. shown \in [Run -> Seq(Int)] /\ s \in Seq(Int) /\ Increasing(s) /\ \A i \in 1 .. Len(s) : s[i] <= p.cursor
  BY DEF ShownInv, ShownOf
<1>8. \A j \in 1 .. Len(t) : p.cursor < t[j] /\ t[j] <= c
  BY <1>3, <1>5
<1>9. ShownOf(s \o t, c)
  <2> HIDE DEF s, t, c, D
  <2>1. \A i \in 1 .. Len(s) : s[i] \in Int
    BY <1>7, ElementOfSeq
  <2>2. \A j \in 1 .. Len(t) : t[j] \in Int
    BY <1>5, ElementOfSeq
  <2>3. \A i \in 1 .. Len(s) : \A j \in 1 .. Len(t) : s[i] < t[j]
    BY <1>2, <1>7, <1>8, <2>1, <2>2
  <2>4. Increasing(s \o t)
    BY <1>5, <1>7, <2>3, IncreasingConcat
  <2>5. s \o t \in Seq(Int)
    BY <1>5, <1>7, ConcatProperties
  <2>6. \A i \in 1 .. Len(s \o t) : (s \o t)[i] <= c
    <3> SUFFICES ASSUME NEW i \in 1 .. Len(s \o t) PROVE (s \o t)[i] <= c
      OBVIOUS
    <3>1. Len(s \o t) = Len(s) + Len(t) /\ Len(s) \in Nat /\ Len(t) \in Nat
      BY <1>5, <1>7, ConcatProperties, LenProperties
    <3>2. (s \o t)[i] = IF i <= Len(s) THEN s[i] ELSE t[i - Len(s)]
      BY <1>5, <1>7, <3>1, ConcatProperties
    <3>3. CASE i <= Len(s)
      <4>1. i \in 1 .. Len(s)
        BY <3>1, <3>3
      <4>2. s[i] <= p.cursor /\ s[i] \in Int
        BY <1>7, <2>1, <4>1
      <4> QED BY <1>2, <1>3, <3>2, <3>3, <4>2
    <3>4. CASE ~(i <= Len(s))
      <4>1. i - Len(s) \in 1 .. Len(t)
        BY <3>1, <3>4
      <4> QED BY <1>8, <3>2, <3>4, <4>1
    <3> QED BY <3>3, <3>4
  <2> QED BY <2>4, <2>5, <2>6 DEF ShownOf
<1>10. \A q \in Run : ShownOf(shown'[q], poller'[q].cursor)
  <2> SUFFICES ASSUME NEW q \in Run PROVE ShownOf(shown'[q], poller'[q].cursor)
    OBVIOUS
  <2>1. CASE q = r
    BY <1>6, <1>7, <1>9, <2>1
  <2>2. CASE q # r
    <3>1. shown'[q] = shown[q] /\ poller'[q] = poller[q]
      <4> HIDE DEF s, t
      <4> QED BY <1>1, <1>6, <1>7, <2>2
    <3> QED BY <3>1 DEF ShownInv
  <2> QED BY <2>1, <2>2
<1>11. shown' \in [Run -> Seq(Int)]
  <2> HIDE DEF s, t
  <2>1. s \o t \in Seq(Int)
    BY <1>9 DEF ShownOf
  <2> QED BY <1>6, <1>7, <2>1
<1> QED BY <1>10, <1>11 DEF ShownInv

\* No delta is dispatched twice or before an earlier one, for any runs, logs and page
\* sizes, however polls, stops and new runs interleave: what a page holds lies beyond
\* the cursor, and everything dispatched before lies up to it.
THEOREM DeltasStayInOrder == Spec => []DeltasInOrder
<1>1. Init => ShownInv
  <2> SUFFICES ASSUME Init PROVE ShownInv
    OBVIOUS
  <2>1. ShownOf(<<>>, 0)
    BY DEF ShownOf, Increasing
  <2>2. shown = [r \in Run |-> <<>>] /\ \A r \in Run : poller[r].cursor = 0
    BY DEF Init, Idle
  <2>3. shown \in [Run -> Seq(Int)]
    BY <2>2
  <2> QED BY <2>1, <2>2, <2>3 DEF ShownInv
<1>2. ChatInv /\ ShownInv /\ [Next]_vars => ShownInv'
  <2> SUFFICES ASSUME ChatInv, ShownInv, [Next]_vars PROVE ShownInv'
    OBVIOUS
  <2>1. CASE \E r \in Run : TickApplied(r)
    BY <2>1, PageFollows
  <2>2. CASE ~\E r \in Run : TickApplied(r)
    <3>1. shown' = shown /\ \A q \in Run : poller'[q].cursor = poller[q].cursor
      BY <2>2, CursorsStay DEF ChatInv
    <3> QED BY <3>1 DEF ShownInv
  <2> QED BY <2>1, <2>2
<1>3. ShownInv => DeltasInOrder
  <2> SUFFICES ASSUME ShownInv, NEW r \in Run PROVE \A m, n \in DOMAIN shown[r] : m < n => shown[r][m] < shown[r][n]
    BY DEF DeltasInOrder
  <2>1. shown[r] \in Seq(Int) /\ Increasing(shown[r])
    BY DEF ShownInv, ShownOf
  <2> QED BY <2>1, LenProperties DEF Increasing
<1> QED BY <1>1, <1>2, <1>3, ChatStarts, ChatSteps, PTL DEF Spec
=============================================================================
