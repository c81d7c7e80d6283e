--------------------------- MODULE MeteredRoutes ---------------------------
(***************************************************************************)
(* The HTTP routes that spend daily quota: /api/analyze (app/api/routes.py)*)
(* and the routes that reserve against a fresh uuid without an analyses    *)
(* row (rsi-trend scan, backtest and plan; the vibe tool endpoint).  Each  *)
(* request is a process of web-server threads; every database call is one  *)
(* step, so requests interleave between calls.  A call may fail before it  *)
(* takes effect, or take effect and lose its answer: the client wrappers   *)
(* of app/infra/supabase_client.py turn both into a failure result.        *)
(*                                                                         *)
(* Production mode is modelled: local dev mode makes no quota call.        *)
(***************************************************************************)
EXTENDS QuotaLedger, TLC

CONSTANTS
    Key,            \* idempotency keys clients send
    NoKey,          \* a request without one
    NotCached,      \* no live entry in the lookup cache
    MaxInFlight,    \* gunicorn workers x threads
    MaxFaults       \* bound: failed database calls and killed workers

VARIABLES
    analyses,   \* the analyses table: row id -> [user, key, status, technical_result]
    idem,       \* _idem_cache: (user, key) -> NotCached, or the row last looked up
    pc,         \* where each request is
    req,        \* what each request asked for
    hasRecord,  \* record_id is not None
    answer,     \* what each request was answered
    retried,    \* history: the same key had been answered 200 before it came in
    faults      \* failed calls so far

vars == <<ledger, today, analyses, idem, pc, req, hasRecord, answer, retried, faults>>
dbVars == <<ledger, today, analyses, idem>>

Route == {"analyze", "other"}
Request == [route : Route, user : User, key : Key \cup {NoKey}]
Status == {"created", "completed", "failed_upstream"}
AnalysisRow ==
    [user : User, key : Key \cup {NoKey}, status : Status, technical_result : {"null", "stored"}]

ASSUME RoutesAssumption ==
    /\ NoKey \notin Key
    /\ MaxInFlight \in Nat \ {0}
    /\ MaxFaults \in Nat
    /\ NoRow \notin AnalysisRow
    /\ NoRow \notin Request
    /\ NotCached \notin AnalysisRow \cup {NoRow}

Answer == {"none", "ok", "replay", "quota", "error"}
Active == {"lookup", "create", "reserve", "denied", "running", "consume",
           "complete", "release", "markfailed"}

\* The requests a thread is working on.
InFlight == {i \in Id : pc[i] \in Active}

TypeOK ==
    /\ LedgerTypeOK
    /\ analyses \in [Id -> AnalysisRow \cup {NoRow}]
    /\ idem \in [User \X Key -> AnalysisRow \cup {NoRow, NotCached}]
    /\ pc \in [Id -> Active \cup {"new", "done", "killed"}]
    /\ req \in [Id -> Request \cup {NoRow}]
    /\ hasRecord \in [Id -> BOOLEAN]
    /\ answer \in [Id -> Answer]
    /\ retried \in [Id -> BOOLEAN]
    /\ faults \in 0 .. MaxFaults

Init ==
    /\ LedgerInit
    /\ analyses = [i \in Id |-> NoRow]
    /\ idem = [uk \in User \X Key |-> NotCached]
    /\ pc = [i \in Id |-> "new"]
    /\ req = [i \in Id |-> NoRow]
    /\ hasRecord = [i \in Id |-> FALSE]
    /\ answer = [i \in Id |-> "none"]
    /\ retried = [i \in Id |-> FALSE]
    /\ faults = 0
----------------------------------------------------------------------------
Goto(i, l) == pc' = [pc EXCEPT ![i] = l]
Reply(i, a) == Goto(i, "done") /\ answer' = [answer EXCEPT ![i] = a]

\* A call fails: one more fault, within the bound.
Fault == faults < MaxFaults /\ faults' = faults + 1

\* SELECT ... WHERE user_id AND idempotency_key: the UNIQUE constraint leaves
\* at most one row.
RowOf(u, k) ==
    LET rows == {i \in Id : /\ analyses[i] # NoRow
                            /\ analyses[i].user = u
                            /\ analyses[i].key = k}
    IN  IF rows = {} THEN NoRow ELSE analyses[CHOOSE i \in rows : TRUE]

\* The idempotency index forgotten.
KeyTakenNever(u, k) == FALSE

\* UNIQUE(user_id, idempotency_key): NULL keys never collide.
KeyTaken(u, k) == k # NoKey /\ RowOf(u, k) # NoRow

\* prior.status == "completed" and prior.technical_result
Replayable(row) == row # NoRow /\ row.status = "completed" /\ row.technical_result = "stored"

\* A request arrives at a free thread; an analyze request with a key goes to
\* the idempotency lookup, one without a key straight to the record, and the
\* other routes straight to the reservation.
Receive(i, r) ==
    /\ pc[i] = "new"
    /\ Cardinality(InFlight) < MaxInFlight
    /\ req' = [req EXCEPT ![i] = r]
    /\ Goto(i, CASE r.route = "other" -> "reserve"
                 [] r.route = "analyze" /\ r.key = NoKey -> "create"
                 [] OTHER -> "lookup")
    /\ retried' = [retried EXCEPT ![i] =
          /\ r.route = "analyze" /\ r.key # NoKey
          /\ \E j \in Id : req[j] = r /\ answer[j] = "ok"]
    /\ UNCHANGED <<dbVars, hasRecord, answer, faults>>

\* get_analysis_by_idem_key, then the replay test of the route.  A cached entry
\* is used as it is, however old the row it holds; a failed lookup is cached as
\* a miss, and so is a true one.
LookupIdem(i) ==
    LET uk == <<req[i].user, req[i].key>>
        Decide(row) == IF Replayable(row) THEN Reply(i, "replay")
                       ELSE Goto(i, "create") /\ UNCHANGED answer
    IN  /\ pc[i] = "lookup"
        /\ \/ /\ idem[uk] # NotCached
              /\ Decide(idem[uk])
              /\ UNCHANGED <<idem, faults>>
           \/ /\ idem[uk] = NotCached
              /\ idem' = [idem EXCEPT ![uk] = RowOf(uk[1], uk[2])]
              /\ Decide(RowOf(uk[1], uk[2]))
              /\ UNCHANGED faults
           \/ /\ idem[uk] = NotCached
              /\ Fault
              /\ idem' = [idem EXCEPT ![uk] = NoRow]
              /\ Decide(NoRow)
        /\ UNCHANGED <<ledger, today, analyses, req, hasRecord, retried>>

\* An entry passes its time to live, or is the oldest of a full cache.
ExpireIdem(uk) ==
    /\ idem[uk] # NotCached
    /\ idem' = [idem EXCEPT ![uk] = NotCached]
    /\ UNCHANGED <<ledger, today, analyses, pc, req, hasRecord, answer, retried, faults>>

\* create_analysis_record: INSERT, refused by the unique index when the key is
\* taken; any exception leaves record_id None and the route goes on.
CreateRecord(i) ==
    LET r == req[i]
        inserted == [analyses EXCEPT ![i] =
                       [user |-> r.user, key |-> r.key, status |-> "created",
                        technical_result |-> "null"]]
    IN  /\ pc[i] = "create"
        /\ Goto(i, "reserve")
        /\ \/ /\ ~KeyTaken(r.user, r.key)
              /\ analyses' = inserted
              /\ hasRecord' = [hasRecord EXCEPT ![i] = TRUE]
              /\ UNCHANGED faults
           \/ /\ KeyTaken(r.user, r.key)
              /\ UNCHANGED <<analyses, hasRecord, faults>>
           \/ /\ Fault
              /\ \/ UNCHANGED analyses
                 \/ ~KeyTaken(r.user, r.key) /\ analyses' = inserted
              /\ UNCHANGED hasRecord
        /\ UNCHANGED <<ledger, today, idem, req, answer, retried>>

\* The foreign key of usage_ledger.analysis_id.
ForeignKeyHolds(i) == analyses[i] # NoRow

\* reserve_user_quota: the RPC, then the SELECT of the ledger id.  A missing
\* analyses row makes the RPC raise; every exception reads as "not reserved",
\* also when the row was inserted and only the answer was lost.
ReserveQuota(i) ==
    LET u == req[i].user
    IN  /\ pc[i] = "reserve"
        /\ \/ /\ ForeignKeyHolds(i) /\ Grants(u)
              /\ ledger' = Reserved(u, i)
              /\ Goto(i, "running")
              /\ UNCHANGED faults
           \/ /\ ~(ForeignKeyHolds(i) /\ Grants(u))
              /\ Goto(i, "denied")
              /\ UNCHANGED <<ledger, faults>>
           \/ /\ Fault
              /\ \/ UNCHANGED ledger
                 \/ /\ ForeignKeyHolds(i) /\ Grants(u)
                    /\ ledger' = Reserved(u, i)
              /\ Goto(i, "denied")
        /\ UNCHANGED <<today, analyses, idem, req, hasRecord, answer, retried>>

\* Not reserved: analyze removes its placeholder row, and the answer is 429.
Deny(i) ==
    /\ pc[i] = "denied"
    /\ Reply(i, "quota")
    /\ \/ /\ hasRecord[i]
          /\ analyses' = [analyses EXCEPT ![i] = NoRow]
          /\ UNCHANGED faults
       \/ /\ hasRecord[i]
          /\ Fault
          /\ UNCHANGED analyses
       \/ /\ ~hasRecord[i]
          /\ UNCHANGED <<analyses, faults>>
    /\ UNCHANGED <<ledger, today, idem, req, hasRecord, retried>>

\* An exception that reaches the handler after the release call.
RunAnalysisSkipsRelease(i) ==
    /\ pc[i] = "running"
    /\ \E l \in {"consume", "markfailed"} : Goto(i, l)
    /\ UNCHANGED <<dbVars, req, hasRecord, answer, retried, faults>>

\* The work itself: orchestrator.analyze (or the scan, backtest, plan, tool)
\* returns, or raises.
RunAnalysis(i) ==
    /\ pc[i] = "running"
    /\ \E l \in {"consume", "release"} : Goto(i, l)
    /\ UNCHANGED <<dbVars, req, hasRecord, answer, retried, faults>>

\* consume_ledger_quota; the route ignores its result.
ConsumeQuota(i) ==
    /\ pc[i] = "consume"
    /\ Goto(i, "complete")
    /\ \/ ledger' = Consumed(i) /\ UNCHANGED faults
       \/ Fault /\ ledger' \in {ledger, Consumed(i)}
    /\ UNCHANGED <<today, analyses, idem, req, hasRecord, answer, retried>>

\* The answer cannot be built (model_dump, jsonify) after the unit is consumed:
\* analyze falls into its except branch, which releases a consumed unit, too;
\* the other routes build theirs outside the try and just fail.
FailLate(i) ==
    IF req[i].route = "analyze" THEN Goto(i, "release") /\ UNCHANGED answer
                                ELSE Reply(i, "error")

\* update_analysis_record(status = completed), if the row was created, and the
\* 200 answer.  The update carries no technical_result; when the analysis found
\* no signal it carries analysis_type = NULL, which the NOT NULL column refuses
\* together with the new status.
Complete(i) ==
    /\ pc[i] = "complete"
    /\ Reply(i, "ok") \/ FailLate(i)
    /\ \/ /\ hasRecord[i]
          /\ \E signal \in BOOLEAN :
                analyses' = IF signal THEN [analyses EXCEPT ![i].status = "completed"]
                                      ELSE analyses
          /\ UNCHANGED faults
       \/ /\ hasRecord[i]
          /\ Fault
          /\ UNCHANGED analyses
       \/ /\ ~hasRecord[i]
          /\ UNCHANGED <<analyses, faults>>
    /\ UNCHANGED <<ledger, today, idem, req, hasRecord, retried>>

\* An except branch that settles the reservation the wrong way.
ReleaseQuotaConsumes(i) ==
    /\ pc[i] = "release"
    /\ Goto(i, "markfailed")
    /\ ledger' = Consumed(i)
    /\ UNCHANGED <<today, analyses, idem, req, hasRecord, answer, retried, faults>>

\* The except branches: release_ledger_quota ...
ReleaseQuota(i) ==
    /\ pc[i] = "release"
    /\ Goto(i, "markfailed")
    /\ \/ ledger' = Released(i) /\ UNCHANGED faults
       \/ Fault /\ ledger' \in {ledger, Released(i)}
    /\ UNCHANGED <<today, analyses, idem, req, hasRecord, answer, retried>>

\* ... then the row is marked failed, and the error is raised to the client.
MarkFailed(i) ==
    /\ pc[i] = "markfailed"
    /\ Reply(i, "error")
    /\ \/ /\ hasRecord[i]
          /\ analyses' = [analyses EXCEPT ![i].status = "failed_upstream"]
          /\ UNCHANGED faults
       \/ /\ hasRecord[i]
          /\ Fault
          /\ UNCHANGED analyses
       \/ /\ ~hasRecord[i]
          /\ UNCHANGED <<analyses, faults>>
    /\ UNCHANGED <<ledger, today, idem, req, hasRecord, retried>>

\* gunicorn kills the worker (timeout, restart): the thread is gone and nobody
\* settles what it had reserved.
Kill(i) ==
    /\ pc[i] \in Active
    /\ Fault
    /\ Goto(i, "killed")
    /\ UNCHANGED <<dbVars, req, hasRecord, answer, retried>>

NextDay ==
    /\ Midnight
    /\ UNCHANGED <<analyses, idem, pc, req, hasRecord, answer, retried, faults>>

Step(i) ==
    \/ LookupIdem(i) \/ CreateRecord(i) \/ ReserveQuota(i) \/ Deny(i)
    \/ RunAnalysis(i) \/ ConsumeQuota(i) \/ Complete(i)
    \/ ReleaseQuota(i) \/ MarkFailed(i)

Next ==
    \/ \E i \in Id, r \in Request : Receive(i, r)
    \/ \E i \in Id : Step(i)
    \/ \E i \in Id : Kill(i)
    \/ \E uk \in User \X Key : ExpireIdem(uk)
    \/ NextDay

Spec == Init /\ [][Next]_vars
----------------------------------------------------------------------------
\* Units charged to one user and day.
Charged(u, d) == Cardinality(RowsIn(u, d, "consumed"))

\* reserve_quota counts only consumed units, so concurrent requests may overrun
\* the daily quota; but never by more than the threads that run at once, less
\* the one whose grant saw the quota still open.  Crashes, lost answers and
\* midnight do not widen the overrun.
OverrunBounded ==
    \A u \in User, d \in Day : Charged(u, d) <= DailyQuota + MaxInFlight - 1

\* Retries of one idempotency key, concurrent or after a crash, a failure or a
\* stale lookup, charge the user at most once: the unique index and the foreign
\* key together hold what the lookup cache does not.
OneUnitPerKey ==
    \A i, j \in Id :
        /\ i # j
        /\ ledger[i] # NoRow /\ ledger[i].status = "consumed"
        /\ ledger[j] # NoRow /\ ledger[j].status = "consumed"
        /\ req[i].key # NoKey
        => ~(req[i].user = req[j].user /\ req[i].key = req[j].key)

HasConsumed(i) == ledger[i] # NoRow /\ ledger[i].status = "consumed"

\* The requests answered with an error that their user pays for.
ChargedErrors == {i \in Id : answer[i] = "error" /\ HasConsumed(i)}

\* A request answered 429 is not charged, whatever calls failed on the way; and a
\* request answered with an error is charged only by a failed call of its own: the
\* except branches give the unit back also when the work was done and only its
\* answer could not be built.
FailureIsFree ==
    /\ \A i \in Id : answer[i] = "quota" => ~HasConsumed(i)
    /\ Cardinality(ChargedErrors) <= faults

\* "release on failure" (vibe_routes.py) without exception: an error is never charged.
ErrorIsFree == ChargedErrors = {}

\* A reservation outlives its request only through a failed call or a killed
\* worker, one for each such row: no path of the routes forgets to settle.
LeaksNeedFaults ==
    Cardinality({i \in Id : /\ pc[i] \in {"done", "killed"}
                            /\ ledger[i] # NoRow
                            /\ ledger[i].status = "reserved"}) <= faults

\* The daily quota itself, as the comment of reserve_quota promises it: no
\* interleaving of requests charges a user more than the quota of the day.
QuotaNeverExceeded == \A u \in User, d \in Day : Charged(u, d) <= DailyQuota

\* The idempotency lookup as its docstring promises it: a key that was answered
\* 200 before is answered with the stored row.
RetryIsReplayed ==
    \A i \in Id : retried[i] /\ answer[i] # "none" => answer[i] = "replay"

\* "Persist completion status": without a failed call, a request that answered
\* 200 leaves its row completed.
CompletionIsRecorded ==
    \A i \in Id : answer[i] = "ok" /\ hasRecord[i] /\ faults = 0 =>
        analyses[i].status = "completed"

\* A request is told that its quota is used up only when its profile is not
\* active, the units are gone, or a database call failed.
DenialIsTrue ==
    [][\A i \in Id : (pc[i] = "reserve" /\ pc'[i] = "denied" /\ faults' = 0)
          => ~Grants(req[i].user)]_vars
----------------------------------------------------------------------------
\* For TLC: the uuids are interchangeable.
IdSymmetry == Permutations(Id)
=============================================================================
