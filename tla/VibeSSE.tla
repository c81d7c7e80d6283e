------------------------------ MODULE VibeSSE ------------------------------
(***************************************************************************)
(* The server-sent event stream of a run (_stream_events in                *)
(* app/api/vibe_routes.py) beside the run itself: a generator that pages   *)
(* through the event list and, when a page is empty, looks at the status   *)
(* of the run to decide whether to go on.                                  *)
(***************************************************************************)
EXTENDS VibeRun

CONSTANTS
    PageSize,       \* limit of one event fetch
    MaxEmptyPolls   \* VIBE_SSE_TIMEOUT_SECONDS

ASSUME SSEAssumption == {PageSize, MaxEmptyPolls} \subseteq Nat \ {0}

VARIABLES
    reader,     \* where the generator is
    seen,       \* seen_count
    empty       \* empty_polls

readerVars == <<reader, seen, empty>>
sseVars == <<vars, readerVars>>

SSETypeOK ==
    /\ TypeOK
    /\ reader \in {"idle", "events", "status", "ended"}
    /\ seen \in 0 .. Len(events)
    /\ empty \in 0 .. MaxEmptyPolls

SSEInit ==
    /\ Init
    /\ reader = "idle"
    /\ seen = 0
    /\ empty = 0

\* A terminal set without the status that only the DELETE route writes.
TerminalStatusForgetsCancelled == {"completed", "failed"}

\* Statuses that count towards the end of the stream.
TerminalStatus == {"completed", "failed", "cancelled"}

\* The client of a started run opens its stream.
OpenStream ==
    /\ reader = "idle"
    /\ route = "running"
    /\ reader' = "events"
    /\ UNCHANGED <<seen, empty>>

\* One page from seen_count on, up to and including a terminal event.
ReadEvents ==
    LET upTo == IF Len(events) < seen + PageSize THEN Len(events) ELSE seen + PageSize
        ends == {n \in seen + 1 .. upTo : events[n] \in TerminalEvent}
    IN  /\ reader = "events"
        /\ \/ /\ ends # {}
              /\ seen' = CHOOSE n \in ends : \A m \in ends : n <= m
              /\ reader' = "ended"
           \/ /\ ends = {}
              /\ seen' = upTo
              /\ reader' = IF upTo = seen THEN "status" ELSE "events"
        /\ UNCHANGED empty

\* Nothing new: a terminal status counts an empty poll, any other resets the count.
ReadStatus ==
    /\ reader = "status"
    /\ empty' = IF status \in TerminalStatus THEN empty + 1 ELSE 0
    /\ reader' = IF empty' = MaxEmptyPolls THEN "ended" ELSE "events"
    /\ UNCHANGED seen

Read == (OpenStream \/ ReadEvents \/ ReadStatus) /\ UNCHANGED vars

SSENext ==
    \/ Next /\ UNCHANGED readerVars
    \/ Read

\* The web thread that runs the generator is scheduled.
SSESpec == SSEInit /\ [][SSENext]_sseVars /\ Fairness /\ WF_sseVars(Read)
----------------------------------------------------------------------------
\* Every stream ends, unless the executor of its run was killed.
StreamEnds ==
    reader = "events" ~> (reader = "ended" \/ \E x \in Executor : exec[x].at = "killed")

\* Once the client has been told "cancelled" its stream ends as well.
CancelledStreamEnds == (cancel = "answered" /\ reader = "events") ~> reader = "ended"
=============================================================================
