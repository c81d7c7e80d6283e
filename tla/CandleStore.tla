----------------------------- MODULE CandleStore -----------------------------
(***************************************************************************)
(* The candles the backtests read (scripts/download_backtest_data.py) and  *)
(* the loader behind them (scripts/_binance_stdlib.py): one parquet file   *)
(* and one metadata file of a symbol and interval, shared by the processes *)
(* that load, download or delete them, each of which may be killed.        *)
(*                                                                         *)
(* A candle is its opening time.  Writing opens and truncates the file,    *)
(* and is over when it is closed; a process whose file was unlinked        *)
(* meanwhile writes to a file nobody finds again.                          *)
(***************************************************************************)
EXTENDS Numbers, SequencesExt

CONSTANTS
    Fetcher,        \* processes: backtests and download commands
    Opens,          \* opening times of the candles the exchange has; a candle lasts more than 1 ms
    FIXED_END_DATE,
    Days,           \* values of --days
    batch_limit,    \* candles of a page
    max_retries,
    MaxCommands,    \* bound: commands that are started
    MaxKills        \* bound: processes that are killed

ASSUME CandleAssumption ==
    /\ Opens \subseteq Nat \ {0} /\ FIXED_END_DATE \in Nat /\ Days \subseteq 1 .. FIXED_END_DATE
    /\ \A s, t \in Opens : s < t => s + 1 < t
    /\ batch_limit \in Nat \ {0} /\ max_retries \in Nat \ {0}

VARIABLES
    parquet,    \* the data file: its content and the processes that wrote into it
    meta,       \* the metadata file: the number of candles it names
    job,        \* process -> the step it is at, the window it wants, what it fetched
    frame,      \* process -> what its command returned
    commands, kills

candleVars == <<parquet, meta, job, frame, commands, kills>>

\* What a file holds or a command returns: candles, or the kind of thing it is instead.
Content(is) == [is |-> is, opens |-> <<>>, sane |-> TRUE]
Nothing == Content("nothing")
NoFile == [body |-> Nothing, by |-> {}]
NoMeta == -1
NoJob == [at |-> "idle", days |-> 0, tries |-> 0, got |-> Nothing, left |-> <<>>, force |-> FALSE]

CandleInit ==
    /\ parquet = NoFile /\ meta = NoMeta
    /\ job = [p \in Fetcher |-> NoJob]
    /\ frame = [p \in Fetcher |-> Nothing]
    /\ commands = 0 /\ kills = 0
-----------------------------------------------------------------------------
(* The loader. *)

\* An answer of the exchange: the last batch_limit candles that open by the end time.
Batch(cursor) ==
    LET known == Ascending({t \in Opens : t <= cursor})
    IN  SubSeq(known, IF Len(known) > batch_limit THEN Len(known) - batch_limit + 1 ELSE 1, Len(known))

\* The next page ends at the first candle of the last.
PagesOverlapping(start) ==
    LET walk[cursor \in 0 .. FIXED_END_DATE] ==
            LET batch == Batch(cursor)
            IN  IF cursor <= start \/ batch = <<>> THEN <<>>
                ELSE IF Head(batch) <= start \/ Len(batch) < batch_limit \/ Head(batch) = cursor THEN batch
                ELSE walk[Head(batch)] \o batch
    IN  walk[FIXED_END_DATE]

\* Pages are walked backwards from the end, each ending before the first candle of the
\* last, until one reaches the start or is not full.
Pages(start) ==
    LET walk[cursor \in 0 .. FIXED_END_DATE] ==
            LET batch == Batch(cursor)
            IN  IF cursor <= start \/ batch = <<>> THEN <<>>
                ELSE IF Head(batch) <= start \/ Len(batch) < batch_limit THEN batch
                ELSE walk[Head(batch) - 1] \o batch
    IN  walk[FIXED_END_DATE]

\* The rows of the requested window.
fetch_binance_klines(days) ==
    LET start == FIXED_END_DATE - days
        rows == Pages(start)
    IN  EntriesAt(rows, {i \in DOMAIN rows : rows[i] >= start})

\* Columns and order are those of the loader; prices may be impossible.  (The order may
\* repeat a candle: is_monotonic_increasing is not strict.)
validate_data(f) ==
    /\ f.opens # <<>>
    /\ \A i \in 1 .. Len(f.opens) - 1 : f.opens[i] <= f.opens[i + 1]
    /\ f.sane
-----------------------------------------------------------------------------
(* The commands. *)

At(p, at) == job[p].at = at
Moves(p, at) == job' = [job EXCEPT ![p].at = at]
Ends(p) == job' = [job EXCEPT ![p] = NoJob]

\* main, or a backtest that calls ensure_data: load or download, --force, --clean.
Start(p) ==
    /\ At(p, "idle") /\ commands < MaxCommands
    /\ \E d \in Days, how \in {"ensure", "force", "clean"} :
          job' = [job EXCEPT ![p] =
              [NoJob EXCEPT !.at = IF how = "ensure" THEN "load" ELSE "clean",
                           !.days = d, !.left = <<"parquet", "meta">>, !.force = how = "force"]]
    /\ commands' = commands + 1
    /\ frame' = [frame EXCEPT ![p] = Nothing]
    /\ UNCHANGED <<parquet, meta, kills>>

\* load_cached: is there a file?
LoadCached(p) ==
    /\ At(p, "load")
    /\ Moves(p, IF parquet = NoFile THEN "fetch" ELSE "read")
    /\ UNCHANGED <<parquet, meta, frame, commands, kills>>

\* A file that can be read is the answer, whatever window it was downloaded for; one that
\* is being written, is gone by now or mixes two writers raises (the mixture may also be
\* read as something).
Read(p) ==
    /\ At(p, "read")
    /\ \/ /\ parquet.body.is \in {"candles", "mixed"}
          /\ frame' = [frame EXCEPT ![p] = parquet.body]
          /\ Ends(p)
       \/ /\ parquet.body.is \in {"nothing", "torn", "mixed"}
          /\ Moves(p, "drop")
          /\ UNCHANGED frame
    /\ UNCHANGED <<parquet, meta, commands, kills>>

\* "File corrupted, remove": by name, so whatever stands there by now.
Drop(p) ==
    /\ At(p, "drop")
    /\ parquet' = NoFile
    /\ Moves(p, "fetch")
    /\ UNCHANGED <<meta, frame, commands, kills>>

\* clean_cache sees a file, and unlinks it one step later.
CleanSees(p) ==
    /\ At(p, "clean")
    /\ LET left == job[p].left
       IN  IF left = <<>> THEN IF job[p].force THEN Moves(p, "fetch") ELSE Ends(p)
           ELSE IF IF Head(left) = "parquet" THEN parquet # NoFile ELSE meta # NoMeta
           THEN Moves(p, "unlink")
           ELSE job' = [job EXCEPT ![p].left = Tail(left)]
    /\ UNCHANGED <<parquet, meta, frame, commands, kills>>

\* Unlinking a file that is gone raises and ends the command.
CleanUnlinks(p) ==
    LET file == Head(job[p].left)
        gone == IF file = "parquet" THEN parquet = NoFile ELSE meta = NoMeta
    IN  /\ At(p, "unlink")
        /\ parquet' = IF file = "parquet" THEN NoFile ELSE parquet
        /\ meta' = IF file = "meta" THEN NoMeta ELSE meta
        /\ IF gone THEN Ends(p)
           ELSE job' = [job EXCEPT ![p].at = "clean", ![p].left = Tail(job[p].left)]
        /\ UNCHANGED <<frame, commands, kills>>

\* An attempt fails on some page, with every host and every retry of the loader, or
\* finds no candle at all.
FetchFails(p) ==
    /\ At(p, "fetch")
    /\ IF job[p].tries + 1 = max_retries THEN Ends(p) ELSE job' = [job EXCEPT ![p].tries = @ + 1]
    /\ UNCHANGED <<parquet, meta, frame, commands, kills>>

\* An attempt succeeds; data that fails validation is refused, without another attempt.
download_data(p) ==
    /\ At(p, "fetch") /\ fetch_binance_klines(job[p].days) # <<>>
    /\ \E sane \in BOOLEAN :
          LET f == [is |-> "candles", opens |-> fetch_binance_klines(job[p].days), sane |-> sane]
          IN  IF validate_data(f) THEN job' = [job EXCEPT ![p].at = "open", ![p].got = f] ELSE Ends(p)
    /\ UNCHANGED <<parquet, meta, frame, commands, kills>>

\* save_data opens the file and truncates what is there.
SaveOpens(p) ==
    /\ At(p, "open")
    /\ parquet' = [body |-> Content("torn"), by |-> {p} \cup {q \in parquet.by : At(q, "write")}]
    /\ Moves(p, "write")
    /\ UNCHANGED <<meta, frame, commands, kills>>

\* The file is complete, unless somebody else wrote into it or it lost its name.
SaveCloses(p) ==
    /\ At(p, "write")
    /\ parquet' = IF p \notin parquet.by THEN parquet
                  ELSE [parquet EXCEPT !.body = IF parquet.by = {p} THEN job[p].got ELSE Content("mixed")]
    /\ Moves(p, "meta")
    /\ UNCHANGED <<meta, frame, commands, kills>>

\* The metadata follows, and the command returns what it downloaded.
SaveMeta(p) ==
    /\ At(p, "meta")
    /\ meta' = Len(job[p].got.opens)
    /\ frame' = [frame EXCEPT ![p] = job[p].got]
    /\ Ends(p)
    /\ UNCHANGED <<parquet, commands, kills>>

\* A directory or a file that cannot be written raises: before the file is opened, while
\* it is written, or for the metadata.  A process that is killed stops at any step.
Stops(p) ==
    /\ kills < MaxKills /\ ~At(p, "idle")
    /\ kills' = kills + 1
    /\ Ends(p)
    /\ UNCHANGED <<parquet, meta, frame, commands>>

CandleNext ==
    \E p \in Fetcher :
        \/ Start(p) \/ LoadCached(p) \/ Read(p) \/ Drop(p) \/ CleanSees(p) \/ CleanUnlinks(p)
        \/ FetchFails(p) \/ download_data(p) \/ SaveOpens(p) \/ SaveCloses(p) \/ SaveMeta(p) \/ Stops(p)

CandleSpec == CandleInit /\ [][CandleNext]_candleVars
-----------------------------------------------------------------------------
\* The candles of a window, each once, in order.
Window(days) == Ascending({t \in Opens : t >= FIXED_END_DATE - days /\ t <= FIXED_END_DATE})

\* Whatever a command returns, from the file or from the exchange, is the candles of a
\* requested window, all of them and each once, with possible prices: killed writers,
\* torn files, deletions and pages never show through.  Only two processes that write
\* the same file at the same time can mix it.
FrameIsAWindow ==
    \A p \in Fetcher : frame[p].is = "candles" =>
        frame[p].sane /\ \E d \in Days : frame[p].opens = Window(d)

\* "Load from cache if available, otherwise download" of the days asked for (the path
\* names no days: a shorter download answers every longer request).
FrameIsTheWindow ==
    [][\A p \in Fetcher : frame'[p] # frame[p] /\ frame'[p].is = "candles" =>
          frame'[p].opens = Window(job[p].days)]_candleVars

\* --status: the metadata describes the file beside it whenever nobody works on it (a
\* killed writer, or a reader that removes the file under one, leaves them apart).
StatusIsTrue ==
    (\A p \in Fetcher : At(p, "idle")) => (meta # NoMeta <=> parquet # NoFile)
=============================================================================
