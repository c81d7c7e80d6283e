---------------------------- MODULE AnalysisProofs ----------------------------
(***************************************************************************)
(* Proofs about the way from candles to a trade: which candles are fetched *)
(* (MarketData), how old the price of an answer may be (AnalysisPipeline), *)
(* on which side of the price a stop is (SignalEngine), which tuning is in *)
(* force (WalkForward), and what a backtested trade may know and lose      *)
(* (BacktestHarness).                                                      *)
(***************************************************************************)
EXTENDS AnalysisPipeline, SignalEngine, WalkForward, BacktestHarness, MarketData, Induction,
        SequenceTheorems, TLAPS

-----------------------------------------------------------------------------
(* The caches of the analysis. *)


\* Candles held: what they are older than a run has come out of their time to live.
CandlesFresh(e) ==
    e.held => /\ {"age", "left"} \subseteq DOMAIN e
              /\ e.age \in Nat /\ e.left \in 0 .. KlineTTL
              /\ e.age <= MaxRun + (KlineTTL - e.left)

\* An answer held: likewise for its stamp; its price was read before that.
AnswerFresh(e) ==
    e.held => /\ {"lag", "since", "left"} \subseteq DOMAIN e
              /\ e.lag \in Nat /\ e.since \in Nat /\ e.left \in 0 .. AnalysisTTL
              /\ e.lag <= KlineTTL + 2 * MaxRun
              /\ e.since <= MaxRun + (AnalysisTTL - e.left)

Stages == {"lookup", "fetch", "source", "tradingview", "legacy", "candles", "detect", "interpret"}
Stage(x) == x.at \in Stages

\* A request: candles it read at a source are as old as it ran since, those it was handed
\* older by what the cache may add, and the price it stamps no older than those.
RunFresh(x) ==
    /\ "at" \in DOMAIN x /\ x.at \in Stages \cup {"idle", "answered", "failed"}
    /\ Stage(x) => {"symbol", "key", "ran"} \subseteq DOMAIN x /\ x.symbol \in Symbol /\ x.ran \in 0 .. MaxRun
    /\ x.at = "lookup" => x.key \in IdemKey
    /\ x.at \in {"tradingview", "legacy"} => "age" \in DOMAIN x /\ x.age \in 0 .. x.ran
    /\ x.at = "candles" => "age" \in DOMAIN x /\ x.age \in Nat /\ x.age <= KlineTTL + MaxRun + x.ran
    /\ x.at \in {"detect", "interpret"} =>
          /\ {"lag", "since"} \subseteq DOMAIN x
          /\ x.lag \in Nat /\ x.lag <= KlineTTL + 2 * MaxRun
          /\ x.since \in 0 .. x.ran
    /\ x.at = "answered" =>
          /\ x.lag \in Nat /\ x.lag <= KlineTTL + 2 * MaxRun
          /\ x.since \in Nat /\ x.since <= AnalysisTTL + MaxRun

KlineInv == kline = [s \in Symbol |-> kline[s]] /\ \A s \in Symbol : CandlesFresh(kline[s])
AnswersInv == answers = [k \in IdemKey |-> answers[k]] /\ \A k \in IdemKey : AnswerFresh(answers[k])
RunsInv == run = [r \in Request |-> run[r]] /\ \A r \in Request : RunFresh(run[r])
PipeInv == KlineInv /\ AnswersInv /\ RunsInv

\* f over the fields of x, as Goes lays it.
Laid(x, f) == [z \in DOMAIN x \cup DOMAIN f |-> IF z \in DOMAIN f THEN f[z] ELSE x[z]]

LEMMA PipeStarts ==
    ASSUME PipeInit
    PROVE  PipeInv
BY DEF PipeInit, PipeInv, KlineInv, AnswersInv, RunsInv, Missing, Waiting, CandlesFresh, AnswerFresh, RunFresh, Stage, Stages

\* One request goes on to y.
LEMMA RunSteps ==
    ASSUME PipeInv, NEW r \in Request, NEW y, Step(r, y), RunFresh(y)
    PROVE  RunsInv'
BY DEF PipeInv, RunsInv, Step

LEMMA GoesSteps ==
    ASSUME PipeInv, NEW r \in Request, NEW f, Goes(r, f), RunFresh(Laid(run[r], f))
    PROVE  RunsInv'
<1>1. Step(r, Laid(run[r], f))
  BY DEF Goes, Laid
<1> QED BY <1>1, RunSteps

LEMMA LaidFacts ==
    ASSUME NEW x, RunFresh(x), Stage(x), NEW f, "at" \in DOMAIN f, f.at \in Stages,
           "symbol" \notin DOMAIN f, "key" \notin DOMAIN f, "ran" \notin DOMAIN f
    PROVE  LET y == Laid(x, f)
           IN  /\ DOMAIN y = DOMAIN x \cup DOMAIN f /\ "at" \in DOMAIN y /\ y.at = f.at
               /\ {"symbol", "key", "ran"} \subseteq DOMAIN y
               /\ y.symbol \in Symbol /\ y.ran = x.ran /\ y.ran \in 0 .. MaxRun
               /\ \A z \in DOMAIN f : y[z] = f[z]
               /\ \A z \in DOMAIN x : z \notin DOMAIN f => y[z] = x[z]
<1>1. {"symbol", "key", "ran"} \subseteq DOMAIN x /\ x.symbol \in Symbol /\ x.ran \in 0 .. MaxRun
  BY DEF RunFresh
<1> QED BY <1>1 DEF Laid

\* Stages that need nothing but the fields of the request.
LEMMA Moved ==
    ASSUME NEW x, RunFresh(x), Stage(x), NEW next \in {"fetch", "source"}
    PROVE  RunFresh(Laid(x, [at |-> next]))
<1> DEFINE f == [at |-> next]
           y == Laid(x, f)
<1>1. DOMAIN f = {"at"} /\ f.at = next /\ f.at \in Stages
  BY DEF Stages
<1> HIDE DEF f
<1>2. /\ "at" \in DOMAIN y /\ y.at = f.at /\ {"symbol", "key", "ran"} \subseteq DOMAIN y
      /\ y.symbol \in Symbol /\ y.ran \in 0 .. MaxRun
  BY <1>1, LaidFacts
<1> HIDE DEF y
<1>3. RunFresh(y)
  BY <1>1, <1>2 DEF RunFresh
<1> QED BY <1>3 DEF f, y

\* A source is asked; what it sends is read now.
LEMMA AskedFresh ==
    ASSUME NEW x, RunFresh(x), Stage(x), NEW f, {"at", "age"} \subseteq DOMAIN f,
           f.at \in {"tradingview", "legacy"}, f.age = 0,
           "symbol" \notin DOMAIN f, "key" \notin DOMAIN f, "ran" \notin DOMAIN f
    PROVE  RunFresh(Laid(x, f))
<1> DEFINE y == Laid(x, f)
<1>1. f.at \in Stages
  BY DEF Stages
<1>2. /\ "at" \in DOMAIN y /\ y.at = f.at /\ {"symbol", "key", "ran"} \subseteq DOMAIN y
      /\ y.symbol \in Symbol /\ y.ran \in 0 .. MaxRun
      /\ "age" \in DOMAIN y /\ y.age = 0
  <2>1. "age" \in DOMAIN y /\ y.age = f.age
    BY DEF Laid
  <2>2. /\ "at" \in DOMAIN y /\ y.at = f.at /\ {"symbol", "key", "ran"} \subseteq DOMAIN y
        /\ y.symbol \in Symbol /\ y.ran \in 0 .. MaxRun
    BY <1>1, LaidFacts
  <2> QED BY <2>1, <2>2
<1> HIDE DEF y
<1>3. y.age \in 0 .. y.ran
  BY <1>2, PipelineAssumption
<1>4. RunFresh(y)
  BY <1>1, <1>2, <1>3 DEF RunFresh
<1> QED BY <1>4 DEF y

\* The candles are here, with an age or with the one they had at the source.
LEMMA ReceivedFresh ==
    ASSUME NEW x, RunFresh(x), Stage(x), NEW f, "at" \in DOMAIN f, f.at = "candles",
           "symbol" \notin DOMAIN f, "key" \notin DOMAIN f, "ran" \notin DOMAIN f,
           \/ x.at \in {"tradingview", "legacy"} /\ "age" \notin DOMAIN f
           \/ "age" \in DOMAIN f /\ f.age \in Nat /\ f.age <= KlineTTL + MaxRun
    PROVE  RunFresh(Laid(x, f))
<1> DEFINE y == Laid(x, f)
<1>1. f.at \in Stages /\ KlineTTL \in Nat /\ MaxRun \in Nat
  BY PipelineAssumption DEF Stages
<1>2. /\ "at" \in DOMAIN y /\ y.at = "candles" /\ {"symbol", "key", "ran"} \subseteq DOMAIN y
      /\ y.symbol \in Symbol /\ y.ran \in 0 .. MaxRun /\ y.ran = x.ran
      /\ DOMAIN y = DOMAIN x \cup DOMAIN f
      /\ \A z \in DOMAIN f : y[z] = f[z]
      /\ \A z \in DOMAIN x : z \notin DOMAIN f => y[z] = x[z]
  BY <1>1, LaidFacts
<1> HIDE DEF y
<1>3. "age" \in DOMAIN y /\ y.age \in Nat /\ y.age <= KlineTTL + MaxRun + y.ran
  <2>1. CASE x.at \in {"tradingview", "legacy"} /\ "age" \notin DOMAIN f
    <3>1. "age" \in DOMAIN x /\ x.age \in 0 .. x.ran
      BY <2>1 DEF RunFresh
    <3> QED BY <1>1, <1>2, <2>1, <3>1
  <2>2. CASE "age" \in DOMAIN f /\ f.age \in Nat /\ f.age <= KlineTTL + MaxRun
    BY <1>1, <1>2, <2>2
  <2> QED BY <2>1, <2>2
<1>4. RunFresh(y)
  BY <1>1, <1>2, <1>3 DEF RunFresh
<1> QED BY <1>4 DEF y

\* A family was found: the price keeps the age it was stamped with.
LEMMA FoundFresh ==
    ASSUME NEW x, RunFresh(x), x.at = "detect", NEW tech
    PROVE  RunFresh(Laid(x, [at |-> "interpret", tech |-> tech]))
<1> DEFINE f == [at |-> "interpret", tech |-> tech]
           y == Laid(x, f)
<1>1. DOMAIN f = {"at", "tech"} /\ f.at = "interpret" /\ f.at \in Stages /\ Stage(x)
  BY DEF Stages, Stage
<1> HIDE DEF f
<1>2. /\ "at" \in DOMAIN y /\ y.at = "interpret" /\ {"symbol", "key", "ran"} \subseteq DOMAIN y
      /\ y.symbol \in Symbol /\ y.ran \in 0 .. MaxRun /\ y.ran = x.ran
      /\ DOMAIN y = DOMAIN x \cup DOMAIN f
      /\ \A z \in DOMAIN x : z \notin DOMAIN f => y[z] = x[z]
  BY <1>1, LaidFacts
<1> HIDE DEF y
<1>3. /\ {"lag", "since"} \subseteq DOMAIN x /\ x.lag \in Nat /\ x.lag <= KlineTTL + 2 * MaxRun
      /\ x.since \in 0 .. x.ran
  BY DEF RunFresh
<1>4. /\ {"lag", "since"} \subseteq DOMAIN y /\ y.lag \in Nat /\ y.lag <= KlineTTL + 2 * MaxRun
      /\ y.since \in 0 .. y.ran
  BY <1>1, <1>2, <1>3
<1>5. RunFresh(y)
  BY <1>1, <1>2, <1>4 DEF RunFresh
<1> QED BY <1>5 DEF f, y

LEMMA FailsFresh ==
    ASSUME PipeInv, NEW r \in Request, NEW code, NEW blamed, Fails(r, code, blamed)
    PROVE  RunsInv'
<1>1. RunFresh([at |-> "failed", code |-> code, blamed |-> blamed])
  BY DEF RunFresh, Stage, Stages
<1> QED BY <1>1, RunSteps DEF Fails

LEMMA GivesFresh ==
    ASSUME PipeInv, NEW r \in Request, NEW status, NEW symbol, NEW lag \in Nat, NEW since \in Nat,
           lag <= KlineTTL + 2 * MaxRun, since <= AnalysisTTL + MaxRun, Gives(r, status, symbol, lag, since)
    PROVE  RunsInv'
<1> DEFINE y == [at |-> "answered", status |-> status, asked |-> run[r].symbol, for |-> symbol,
                 lag |-> lag, since |-> since]
<1>1. "at" \in DOMAIN y /\ y.at = "answered" /\ y.lag = lag /\ y.since = since
  OBVIOUS
<1>2. Step(r, y)
  BY DEF Gives
<1> HIDE DEF y
<1>3. RunFresh(y)
  BY <1>1 DEF RunFresh, Stage, Stages
<1> QED BY <1>2, <1>3, RunSteps

LEMMA RequestLooks ==
    ASSUME PipeInv, NEW r \in Request, Lookup(r)
    PROVE  PipeInv'
<1> DEFINE x == run[r]
           entry == answers[x.key]
<1>1. /\ RunFresh(x) /\ Stage(x) /\ x.key \in IdemKey /\ AnswerFresh(entry)
      /\ UNCHANGED <<kline, answers>>
  BY DEF Lookup, PipeInv, RunsInv, AnswersInv, RunFresh, Stage, Stages
<1>2. RunsInv'
  <2>1. CASE Goes(r, [at |-> "fetch"])
    <3>1. RunFresh(Laid(x, [at |-> "fetch"]))
      BY <1>1, Moved
    <3> QED BY <2>1, <3>1, GoesSteps
  <2>2. CASE Fails(r, "INTERNAL_ERROR", {"replay"})
    BY <2>2, FailsFresh
  <2>3. CASE entry.held /\ Gives(r, "RESTORED", entry.for, entry.lag, entry.since)
    <3>1. /\ entry.lag \in Nat /\ entry.lag <= KlineTTL + 2 * MaxRun /\ entry.since \in Nat
          /\ entry.left \in 0 .. AnalysisTTL /\ entry.since <= MaxRun + (AnalysisTTL - entry.left)
      BY <1>1, <2>3 DEF AnswerFresh
    <3> HIDE DEF entry
    <3>2. entry.since <= AnalysisTTL + MaxRun
      BY <3>1, PipelineAssumption
    <3> QED BY <2>3, <3>1, <3>2, GivesFresh
  <2> QED BY <2>1, <2>2, <2>3 DEF Lookup
<1> QED BY <1>1, <1>2 DEF PipeInv, KlineInv, AnswersInv

LEMMA RequestFetches ==
    ASSUME PipeInv, NEW r \in Request, FetchCached(r)
    PROVE  PipeInv'
<1> DEFINE x == run[r]
           entry == kline[x.symbol]
<1>1. /\ RunFresh(x) /\ Stage(x) /\ x.symbol \in Symbol /\ CandlesFresh(entry)
      /\ UNCHANGED <<kline, answers>>
  BY DEF FetchCached, PipeInv, RunsInv, KlineInv, RunFresh, Stage, Stages
<1>2. RunsInv'
  <2>1. CASE Goes(r, [at |-> "source"])
    <3>1. RunFresh(Laid(x, [at |-> "source"]))
      BY <1>1, Moved
    <3> QED BY <2>1, <3>1, GoesSteps
  <2>2. CASE entry.held /\ Goes(r, [at |-> "candles", age |-> entry.age])
    <3> DEFINE f == [at |-> "candles", age |-> entry.age]
    <3>1. entry.age \in Nat /\ entry.left \in 0 .. KlineTTL /\ entry.age <= MaxRun + (KlineTTL - entry.left)
      BY <1>1, <2>2 DEF CandlesFresh
    <3> HIDE DEF entry
    <3>2. entry.age <= KlineTTL + MaxRun
      BY <3>1, PipelineAssumption
    <3>3. DOMAIN f = {"at", "age"} /\ f.at = "candles" /\ f.age \in Nat /\ f.age <= KlineTTL + MaxRun
      BY <3>1, <3>2
    <3> HIDE DEF f
    <3>4. RunFresh(Laid(x, f))
      BY <1>1, <3>3, ReceivedFresh
    <3>5. Goes(r, f)
      BY <2>2 DEF f
    <3> QED BY <3>4, <3>5, GoesSteps
  <2> QED BY <2>1, <2>2 DEF FetchCached
<1> QED BY <1>1, <1>2 DEF PipeInv, KlineInv, AnswersInv

LEMMA RequestAsks ==
    ASSUME PipeInv, NEW r \in Request, Ask(r) \/ FallBack(r)
    PROVE  PipeInv'
<1> DEFINE x == run[r]
<1>1. RunFresh(x) /\ Stage(x) /\ UNCHANGED <<kline, answers>>
  BY DEF Ask, FallBack, PipeInv, RunsInv, Stage, Stages
<1>2. RunsInv'
  <2>1. CASE Ask(r)
    <3>1. PICK source \in {"tradingview", "legacy"} : Goes(r, [at |-> source, age |-> 0])
      BY <2>1 DEF Ask
    <3> DEFINE f == [at |-> source, age |-> 0]
    <3>2. DOMAIN f = {"at", "age"} /\ f.at \in {"tradingview", "legacy"} /\ f.age = 0
      OBVIOUS
    <3>3. Goes(r, f)
      BY <3>1
    <3> HIDE DEF f
    <3>4. RunFresh(Laid(x, f))
      BY <1>1, <3>2, AskedFresh
    <3> QED BY <3>3, <3>4, GoesSteps
  <2>2. CASE FallBack(r)
    <3> DEFINE f == [at |-> "legacy", age |-> 0, blamed |-> {"tradingview"}]
    <3>1. DOMAIN f = {"at", "age", "blamed"} /\ f.at = "legacy" /\ f.age = 0
      OBVIOUS
    <3>2. Goes(r, f)
      BY <2>2 DEF FallBack
    <3> HIDE DEF f
    <3>3. RunFresh(Laid(x, f))
      BY <1>1, <3>1, AskedFresh
    <3> QED BY <3>2, <3>3, GoesSteps
  <2> QED BY <2>1, <2>2
<1> QED BY <1>1, <1>2 DEF PipeInv, KlineInv, AnswersInv

\* A late answer may replace newer candles, but not by more than it ran.
LEMMA RequestReceives ==
    ASSUME PipeInv, NEW r \in Request, TradingViewAnswers(r) \/ Receive(r)
    PROVE  PipeInv'
<1> DEFINE x == run[r]
           f == [at |-> "candles"]
<1>1. /\ RunFresh(x) /\ x.at \in {"tradingview", "legacy"} /\ Stage(x)
      /\ Goes(r, f) /\ _cache_candle_data(r) /\ UNCHANGED answers
  BY DEF TradingViewAnswers, Receive, PipeInv, RunsInv, Stage, Stages
<1>2. RunsInv'
  <2>1. DOMAIN f = {"at"} /\ f.at = "candles"
    OBVIOUS
  <2> HIDE DEF f
  <2>2. RunFresh(Laid(x, f))
    BY <1>1, <2>1, ReceivedFresh
  <2> QED BY <1>1, <2>2, GoesSteps
<1>3. KlineInv'
  <2>1. CASE UNCHANGED kline
    BY <2>1 DEF PipeInv, KlineInv
  <2>2. CASE kline' = [kline EXCEPT ![x.symbol] = KlineEntry(x.age)]
    <3> DEFINE e == KlineEntry(x.age)
    <3>1. x.age \in 0 .. x.ran /\ x.ran \in 0 .. MaxRun
      BY <1>1 DEF RunFresh
    <3>2. x.age \in Nat /\ x.age <= MaxRun /\ MaxRun \in Nat /\ KlineTTL \in Nat
      BY <3>1, PipelineAssumption
    <3>3. DOMAIN e = {"held", "age", "left"} /\ e.age = x.age /\ e.left = KlineTTL
      BY DEF KlineEntry
    <3> HIDE DEF e
    <3>4. CandlesFresh(e)
      BY <3>2, <3>3 DEF CandlesFresh
    <3>5. kline' = [kline EXCEPT ![x.symbol] = e]
      BY <2>2 DEF e
    <3> QED BY <3>4, <3>5 DEF PipeInv, KlineInv
  <2> QED BY <1>1, <2>1, <2>2 DEF _cache_candle_data
<1> QED BY <1>1, <1>2, <1>3 DEF PipeInv, AnswersInv

LEMMA RequestPrices ==
    ASSUME PipeInv, NEW r \in Request, Price(r)
    PROVE  PipeInv'
<1> DEFINE x == run[r]
           y == [at |-> "detect", symbol |-> x.symbol, key |-> x.key, ran |-> x.ran, lag |-> x.age, since |-> 0]
<1>1. RunFresh(x) /\ x.at = "candles" /\ Stage(x) /\ UNCHANGED <<kline, answers>>
  BY DEF Price, PipeInv, RunsInv, Stage, Stages
<1>2. /\ x.symbol \in Symbol /\ x.ran \in 0 .. MaxRun
      /\ x.age \in Nat /\ x.age <= KlineTTL + MaxRun + x.ran
  BY <1>1 DEF RunFresh
<1>3. x.age <= KlineTTL + 2 * MaxRun /\ 0 \in 0 .. x.ran
  BY <1>2, PipelineAssumption
<1>4. /\ DOMAIN y = {"at", "symbol", "key", "ran", "lag", "since"} /\ y.at = "detect"
      /\ y.symbol = x.symbol /\ y.ran = x.ran /\ y.lag = x.age /\ y.since = 0
  OBVIOUS
<1>5. Step(r, y)
  BY DEF Price
<1> HIDE DEF x, y
<1>6. RunFresh(y)
  BY <1>2, <1>3, <1>4 DEF RunFresh, Stage, Stages
<1>7. RunsInv'
  BY <1>5, <1>6, RunSteps
<1> QED BY <1>1, <1>7 DEF PipeInv, KlineInv, AnswersInv

LEMMA RequestDetects ==
    ASSUME PipeInv, NEW r \in Request, Detect(r)
    PROVE  PipeInv'
<1> DEFINE x == run[r]
<1>1. RunFresh(x) /\ x.at = "detect" /\ UNCHANGED <<kline, answers>>
  BY DEF Detect, PipeInv, RunsInv
<1>2. \/ Gives(r, "NO_RESULT", x.symbol, x.lag, x.since)
      \/ \E tech : Goes(r, [at |-> "interpret", tech |-> tech])
      \/ Fails(r, "INTERNAL_ERROR", {"geometry"})
  BY DEF Detect
<1>3. RunsInv'
  <2>1. CASE Gives(r, "NO_RESULT", x.symbol, x.lag, x.since)
    <3>1. /\ x.lag \in Nat /\ x.lag <= KlineTTL + 2 * MaxRun /\ x.since \in 0 .. x.ran /\ x.ran \in 0 .. MaxRun
      BY <1>1 DEF RunFresh, Stage, Stages
    <3> HIDE DEF x
    <3>2. x.since \in Nat /\ x.since <= AnalysisTTL + MaxRun
      BY <3>1, PipelineAssumption
    <3> QED BY <2>1, <3>1, <3>2, GivesFresh
  <2>2. ASSUME NEW tech, Goes(r, [at |-> "interpret", tech |-> tech]) PROVE RunsInv'
    <3>1. RunFresh(Laid(x, [at |-> "interpret", tech |-> tech]))
      BY <1>1, FoundFresh
    <3> QED BY <2>2, <3>1, GoesSteps
  <2>3. CASE Fails(r, "INTERNAL_ERROR", {"geometry"})
    BY <2>3, FailsFresh
  <2> QED BY <1>2, <2>1, <2>2, <2>3
<1> QED BY <1>1, <1>3 DEF PipeInv, KlineInv, AnswersInv

LEMMA RequestAnswers ==
    ASSUME PipeInv, NEW r \in Request, Answer(r)
    PROVE  PipeInv'
<1> DEFINE x == run[r]
           e == AnswerEntry(x)
<1>1. /\ RunFresh(x) /\ x.at = "interpret" /\ UNCHANGED kline
      /\ Gives(r, "COMPLETED", x.symbol, x.lag, x.since)
      /\ answers' = [answers EXCEPT ![x.key] = e] \/ answers' = answers
  BY DEF Answer, PipeInv, RunsInv
<1>2. /\ x.lag \in Nat /\ x.lag <= KlineTTL + 2 * MaxRun /\ x.since \in 0 .. x.ran /\ x.ran \in 0 .. MaxRun
  BY <1>1 DEF RunFresh, Stage, Stages
<1>3. DOMAIN e = {"held", "tech", "lag", "since", "for", "left"}
      /\ e.lag = x.lag /\ e.since = x.since /\ e.left = AnalysisTTL
  BY DEF AnswerEntry
<1> HIDE DEF x, e
<1>4. /\ x.since \in Nat /\ x.since <= AnalysisTTL + MaxRun /\ x.since <= MaxRun
      /\ AnalysisTTL \in Nat /\ MaxRun \in Nat
  BY <1>2, PipelineAssumption
<1>5. AnswerFresh(e)
  BY <1>2, <1>3, <1>4 DEF AnswerFresh
<1>6. AnswersInv'
  BY <1>1, <1>5 DEF PipeInv, AnswersInv
<1>7. RunsInv'
  BY <1>1, <1>2, <1>4, GivesFresh
<1> QED BY <1>1, <1>6, <1>7 DEF PipeInv, KlineInv

LEMMA RequestStarts ==
    ASSUME PipeInv, NEW r \in Request, Arrive(r) \/ Leave(r) \/ SourceFails(r) \/ DetectFails(r)
    PROVE  PipeInv'
<1>1. UNCHANGED <<kline, answers>>
  BY DEF Arrive, Leave, SourceFails, DetectFails
<1>2. CASE Arrive(r)
  <2>1. PICK s \in Symbol, k \in IdemKey \cup {NoKey} :
           Step(r, [at |-> IF k = NoKey THEN "fetch" ELSE "lookup", symbol |-> s, key |-> k,
                    ran |-> 0, blamed |-> {}])
    BY <1>2 DEF Arrive
  <2> DEFINE y == [at |-> IF k = NoKey THEN "fetch" ELSE "lookup", symbol |-> s, key |-> k, ran |-> 0, blamed |-> {}]
  <2>2. /\ DOMAIN y = {"at", "symbol", "key", "ran", "blamed"} /\ y.at \in {"fetch", "lookup"}
        /\ y.symbol \in Symbol /\ y.ran = 0
        /\ y.at = "lookup" => y.key \in IdemKey
    OBVIOUS
  <2>3. 0 \in 0 .. MaxRun
    BY PipelineAssumption
  <2> HIDE DEF y
  <2>4. RunFresh(y)
    BY <2>2, <2>3 DEF RunFresh, Stage, Stages
  <2>5. RunsInv'
    BY <2>1, <2>4, RunSteps DEF y
  <2> QED BY <1>1, <2>5 DEF PipeInv, KlineInv, AnswersInv
<1>3. CASE Leave(r)
  <2>1. RunFresh(Waiting)
    BY DEF Waiting, RunFresh, Stage, Stages
  <2>2. RunsInv'
    BY <1>3, <2>1, RunSteps DEF Leave
  <2> QED BY <1>1, <2>2 DEF PipeInv, KlineInv, AnswersInv
<1>4. CASE SourceFails(r) \/ DetectFails(r)
  <2>1. RunsInv'
    BY <1>4, FailsFresh DEF SourceFails, DetectFails
  <2> QED BY <1>1, <2>1 DEF PipeInv, KlineInv, AnswersInv
<1> QED BY <1>2, <1>3, <1>4

\* A unit of time: what is held is older by it, and has that much less left.
LEMMA OlderFacts ==
    ASSUME NEW e
    PROVE  /\ DOMAIN Older(e) = DOMAIN e
           /\ \A x \in DOMAIN e : x \in {"age", "since", "ran"} => Older(e)[x] = e[x] + 1
           /\ "left" \in DOMAIN e => Older(e).left = e.left - 1
           /\ \A x \in DOMAIN e : x \notin {"age", "since", "ran", "left"} => Older(e)[x] = e[x]
BY DEF Older

LEMMA OlderCandles ==
    ASSUME NEW e, CandlesFresh(e)
    PROVE  CandlesFresh(StillHeld(e))
<1>1. CandlesFresh(Missing)
  BY DEF CandlesFresh, Missing
<1>2. ASSUME e.held, e.left > 0 PROVE CandlesFresh(Older(e))
  <2> DEFINE o == Older(e)
  <2>1. /\ {"age", "left"} \subseteq DOMAIN e /\ e.age \in Nat /\ e.left \in 0 .. KlineTTL
        /\ e.age <= MaxRun + (KlineTTL - e.left)
    BY <1>2 DEF CandlesFresh
  <2>2. {"age", "left"} \subseteq DOMAIN o /\ o.age = e.age + 1 /\ o.left = e.left - 1
    BY <2>1, OlderFacts
  <2> HIDE DEF o
  <2>3. o.age \in Nat /\ o.left \in 0 .. KlineTTL /\ o.age <= MaxRun + (KlineTTL - o.left)
    BY <1>2, <2>1, <2>2, PipelineAssumption
  <2>4. CandlesFresh(o)
    BY <2>2, <2>3 DEF CandlesFresh
  <2> QED BY <2>4 DEF o
<1> QED BY <1>1, <1>2 DEF StillHeld

LEMMA OlderAnswer ==
    ASSUME NEW e, AnswerFresh(e)
    PROVE  AnswerFresh(StillHeld(e))
<1>1. AnswerFresh(Missing)
  BY DEF AnswerFresh, Missing
<1>2. ASSUME e.held, e.left > 0 PROVE AnswerFresh(Older(e))
  <2> DEFINE o == Older(e)
  <2>1. /\ {"lag", "since", "left"} \subseteq DOMAIN e /\ e.lag \in Nat /\ e.since \in Nat
        /\ e.left \in 0 .. AnalysisTTL /\ e.lag <= KlineTTL + 2 * MaxRun
        /\ e.since <= MaxRun + (AnalysisTTL - e.left)
    BY <1>2 DEF AnswerFresh
  <2>2. /\ {"lag", "since", "left"} \subseteq DOMAIN o /\ o.lag = e.lag
        /\ o.since = e.since + 1 /\ o.left = e.left - 1
    BY <2>1, OlderFacts
  <2> HIDE DEF o
  <2>3. o.since \in Nat /\ o.left \in 0 .. AnalysisTTL /\ o.since <= MaxRun + (AnalysisTTL - o.left)
    BY <1>2, <2>1, <2>2, PipelineAssumption
  <2>4. AnswerFresh(o)
    BY <2>1, <2>2, <2>3 DEF AnswerFresh
  <2> QED BY <2>4 DEF o
<1> QED BY <1>1, <1>2 DEF StillHeld

LEMMA OlderRun ==
    ASSUME NEW x, RunFresh(x), Stage(x), x.ran < MaxRun
    PROVE  RunFresh(Older(x))
<1> DEFINE o == Older(x)
<1>1. {"at", "symbol", "key", "ran"} \subseteq DOMAIN x /\ x.symbol \in Symbol /\ x.ran \in 0 .. MaxRun
  BY DEF RunFresh
<1>2. /\ {"at", "symbol", "key", "ran"} \subseteq DOMAIN o
      /\ o.at = x.at /\ o.symbol = x.symbol /\ o.key = x.key /\ o.ran = x.ran + 1
      /\ "age" \in DOMAIN x => "age" \in DOMAIN o /\ o.age = x.age + 1
      /\ "since" \in DOMAIN x => "since" \in DOMAIN o /\ o.since = x.since + 1
      /\ "lag" \in DOMAIN x => "lag" \in DOMAIN o /\ o.lag = x.lag
  BY <1>1, OlderFacts
<1> HIDE DEF o
<1>3. o.ran \in 0 .. MaxRun
  BY <1>1, <1>2, PipelineAssumption
<1>4. o.at \in {"tradingview", "legacy"} => "age" \in DOMAIN o /\ o.age \in 0 .. o.ran
  BY <1>1, <1>2 DEF RunFresh
<1>5. o.at = "candles" => "age" \in DOMAIN o /\ o.age \in Nat /\ o.age <= KlineTTL + MaxRun + o.ran
  BY <1>1, <1>2, PipelineAssumption DEF RunFresh
<1>6. o.at \in {"detect", "interpret"} =>
         /\ {"lag", "since"} \subseteq DOMAIN o /\ o.lag \in Nat /\ o.lag <= KlineTTL + 2 * MaxRun
         /\ o.since \in 0 .. o.ran
  BY <1>1, <1>2 DEF RunFresh
<1>7. o.at \in Stages /\ o.at \notin {"answered"} /\ (o.at = "lookup" => o.key \in IdemKey)
  BY <1>2 DEF RunFresh, Stage, Stages
<1>8. RunFresh(o)
  BY <1>1, <1>2, <1>3, <1>4, <1>5, <1>6, <1>7 DEF RunFresh
<1> QED BY <1>8 DEF o

LEMMA TimePasses ==
    ASSUME PipeInv, Elapse
    PROVE  PipeInv'
<1>1. KlineInv'
  BY OlderCandles DEF Elapse, PipeInv, KlineInv
<1>2. AnswersInv'
  BY OlderAnswer DEF Elapse, PipeInv, AnswersInv
<1>3. RunsInv'
  <2>1. \A r \in Request : Busy(r) <=> Stage(run[r])
    BY DEF Busy, Stage, Stages, PipeInv, RunsInv, RunFresh
  <2>2. \A r \in Request : run'[r] = IF Busy(r) THEN Older(run[r]) ELSE run[r]
    BY DEF Elapse
  <2>3. \A r \in Request : RunFresh(run'[r])
    <3> TAKE r \in Request
    <3>1. RunFresh(run[r]) /\ (Busy(r) => run[r].ran < MaxRun)
      BY DEF PipeInv, RunsInv, Elapse
    <3>2. Busy(r) => RunFresh(Older(run[r]))
      BY <2>1, <3>1, OlderRun
    <3> QED BY <2>2, <3>1, <3>2
  <2>4. run' = [r \in Request |-> run'[r]]
    BY DEF Elapse
  <2> QED BY <2>3, <2>4 DEF RunsInv
<1> QED BY <1>1, <1>2, <1>3 DEF PipeInv

\* The price of an answer is not older, at its stamp, than the candles' time to live and
\* two runs, and a restored stamp not older than the answers' time to live and one run,
\* for any requests, symbols, keys and times: a slow request may overwrite newer candles
\* (KLineCache.set) and a cached answer repeats its stamp, but what they add never adds up.
THEOREM StalenessBounded == PipeSpec => []BoundedStaleness
<1>1. PipeInit => PipeInv
  BY PipeStarts
<1>2. PipeInv /\ [PipeNext]_pipeVars => PipeInv'
  <2> SUFFICES ASSUME PipeInv, [PipeNext]_pipeVars PROVE PipeInv'
    OBVIOUS
  <2>1. ASSUME NEW r \in Request,
               \/ Arrive(r) \/ Lookup(r) \/ FetchCached(r) \/ Ask(r) \/ TradingViewAnswers(r)
               \/ Receive(r) \/ FallBack(r) \/ SourceFails(r) \/ Price(r) \/ Detect(r)
               \/ DetectFails(r) \/ Answer(r) \/ Leave(r)
        PROVE  PipeInv'
    BY <2>1, RequestStarts, RequestLooks, RequestFetches, RequestAsks, RequestReceives,
       RequestPrices, RequestDetects, RequestAnswers
  <2>2. CASE UNCHANGED pipeVars
    BY <2>2 DEF pipeVars, PipeInv, KlineInv, AnswersInv, RunsInv
  <2> QED BY <2>1, <2>2, TimePasses DEF PipeNext
<1>3. PipeInv => BoundedStaleness
  BY DEF PipeInv, RunsInv, RunFresh, BoundedStaleness, Answered
<1> QED BY <1>1, <1>2, <1>3, PTL DEF PipeSpec

-----------------------------------------------------------------------------
(* The signal engine. *)

LEMMA LesserOfTwo ==
    ASSUME NEW a \in Int, NEW b \in Int
    PROVE  Min({a, b}) \in Int /\ Min({a, b}) <= a /\ Min({a, b}) <= b /\ Min({a, b}) \in {a, b}
<1>1. \E z \in {a, b} : \A y \in {a, b} : z <= y
  OBVIOUS
<1> QED BY <1>1 DEF Min

LEMMA GreaterOfTwo ==
    ASSUME NEW a \in Int, NEW b \in Int
    PROVE  Max({a, b}) \in Int /\ Max({a, b}) \in {a, b}
<1>1. \E z \in {a, b} : \A y \in {a, b} : z >= y
  OBVIOUS
<1> QED BY <1>1 DEF Max

\* trap_stop_multiplier never narrows the buffer.
LEMMA TrapWidens ==
    ASSUME NEW s \in Int
    PROVE  TrapStop(s) \in Int /\ TrapStop(s) >= 300
<1>1. CASE s < 60
  BY <1>1 DEF TrapStop
<1>2. CASE s >= 60 /\ s < 75
  BY <1>2 DEF TrapStop
<1>3. CASE s >= 75 /\ s < 85
  BY <1>3 DEF TrapStop
<1>4. CASE s >= 85
  <2>1. TrapStop(s) = Min({600, 540 + 12 * (s - 85)})
    BY <1>4 DEF TrapStop
  <2>2. 540 + 12 * (s - 85) \in Int /\ 540 + 12 * (s - 85) >= 540
    BY <1>4
  <2> DEFINE w == 540 + 12 * (s - 85)
  <2>3. w \in Int /\ w >= 540
    BY <2>2
  <2> HIDE DEF w
  <2>4. Min({600, w}) \in {600, w}
    BY <2>3, LesserOfTwo
  <2> QED BY <2>1, <2>3, <2>4 DEF w
<1> QED BY <1>1, <1>2, <1>3, <1>4

LEMMA TrapScoreInt ==
    ASSUME NEW c \in Candidates
    PROVE  TrapScore(c) \in Int
<1> DEFINE raw == 50 - (CASE c.breaks = "penalty" -> 20 [] c.breaks = "warn" -> 8 [] OTHER -> 0)
             - (IF c.hunts THEN 15 ELSE 0) - (IF c.climax THEN 15 ELSE 0)
<1>1. raw \in Int
  <2> DEFINE p == CASE c.breaks = "penalty" -> 20 [] c.breaks = "warn" -> 8 [] OTHER -> 0
             h == IF c.hunts THEN 15 ELSE 0
             k == IF c.climax THEN 15 ELSE 0
  <2>1. p \in Int
    OBVIOUS
  <2>2. h \in Int /\ k \in Int
    OBVIOUS
  <2> HIDE DEF p, h, k
  <2>3. 50 - p - h - k \in Int
    BY <2>1, <2>2
  <2> QED BY <2>3 DEF p, h, k
<1>2. TrapScore(c) = Min({90, Max({10, raw})})
  BY DEF TrapScore, Clamp
<1> HIDE DEF raw
<1> DEFINE low == Max({10, raw})
<1>3. low \in Int
  BY <1>1, GreaterOfTwo
<1> HIDE DEF low
<1>4. Min({90, low}) \in Int
  <2>1. 90 \in Int
    OBVIOUS
  <2> QED BY <1>3, <2>1, LesserOfTwo
<1> QED BY <1>2, <1>4 DEF low

\* The chain of the filter is 0.3 ATR, and no multiplier makes it less.
LEMMA Product ==
    ASSUME NEW r \in {10, 15}, NEW g \in {10, 15}, NEW t \in Int, t >= 300
    PROVE  /\ 30 * r * g * t \in Int
           /\ (30 * r * g * t) \div 300 \in Int
           /\ (30 * r * g * t) \div 300 >= 3000
<1>1. 30 * r * g \in Int /\ 30 * r * g >= 3000
  OBVIOUS
<1> DEFINE k == 30 * r * g
<1>2. k \in Int /\ k >= 3000
  BY <1>1
<1> HIDE DEF k
<1>3. k * t \in Int /\ k * t >= 900000
  <2>1. k * t >= k * 300 /\ k * t \in Int
    BY <1>2
  <2> QED BY <1>2, <2>1
<1> DEFINE p == k * t
<1>4. p \in Int /\ p >= 900000
  BY <1>3
<1> HIDE DEF p
<1>5. p \div 300 \in Int /\ p \div 300 >= 3000
  BY <1>4
<1> QED BY <1>4, <1>5 DEF p, k

LEMMA QuotientMonotone ==
    ASSUME NEW a \in Int, NEW b \in Int, a <= b
    PROVE  a \div 10000 \in Int /\ b \div 10000 \in Int /\ a \div 10000 <= b \div 10000
OBVIOUS

\* The stop buffer of a signal is never narrower than the one the freshness filter used.
LEMMA BufferWidens ==
    ASSUME NEW atr \in Nat, NEW trap \in Int, NEW regime, NEW grade
    PROVE  /\ Buffer(atr, 30, 0, "normal", "none") \in Nat
           /\ Buffer(atr, 30, trap, regime, grade) \in Int
           /\ Buffer(atr, 30, 0, "normal", "none") <= Buffer(atr, 30, trap, regime, grade)
<1> DEFINE t == TrapStop(trap)
           r == RegimeStop(regime)
           g == GradeStop(grade)
           chain == (30 * r * g * t) \div 300
           m == Min({chain, 20000})
<1>1. t \in Int /\ t >= 300 /\ r \in {10, 15} /\ g \in {10, 15}
  BY TrapWidens DEF RegimeStop, GradeStop
<1>2. Buffer(atr, 30, trap, regime, grade) = (m * atr) \div 10000
  BY DEF Buffer
<1>3. Buffer(atr, 30, 0, "normal", "none") = (3000 * atr) \div 10000
  <2>1. TrapStop(0) = 300 /\ RegimeStop("normal") = 10 /\ GradeStop("none") = 10
    BY DEF TrapStop, RegimeStop, GradeStop
  <2>2. (30 * 10 * 10 * 300) \div 300 = 3000
    OBVIOUS
  <2>3. Min({3000, 20000}) = 3000
    BY LesserOfTwo
  <2> QED BY <2>1, <2>2, <2>3 DEF Buffer
<1> HIDE DEF t, r, g
<1>4. chain \in Int /\ chain >= 3000
  BY <1>1, Product
<1> HIDE DEF chain
<1>5. m \in Int /\ m >= 3000
  BY <1>4, LesserOfTwo
<1> HIDE DEF m
<1>6. 3000 * atr \in Int /\ m * atr \in Int /\ 3000 * atr >= 0 /\ 3000 * atr <= m * atr
  BY <1>5
<1>7. (3000 * atr) \div 10000 \in Nat
  OBVIOUS
<1> QED BY <1>2, <1>3, <1>6, <1>7, QuotientMonotone

\* What the engine knows of a market and a candidate it scores.
LEMMA ScoringFacts ==
    ASSUME NEW m \in Markets, NEW c \in Candidates
    PROVE  /\ m.price \in Int /\ m.atr \in Nat /\ m.anchorLow \in Int /\ m.anchorHigh \in Int
           /\ m.anchorLow <= m.price
           /\ m.anchorHigh = 0 \/ m.price <= m.anchorHigh
           /\ c.bullish \in BOOLEAN /\ c.x \in Int /\ c.low \in Int /\ c.high \in Int
<1>1. /\ m.price \in Int /\ m.atr \in Nat /\ m.anchorLow \in Int /\ m.anchorHigh \in Int
      /\ m.anchorLow <= m.price
      /\ m.anchorHigh = 0 \/ m.price <= m.anchorHigh
  BY SignalAssumption
<1>2. c.bullish \in BOOLEAN /\ c.x \in Int /\ c.low \in Int /\ c.high \in Int
  BY SignalAssumption
<1> QED BY <1>1, <1>2

\* A candidate the filter let through gives a signal whose stop the price has not passed:
\* the swing anchor, when it replaces the structure, is an extreme of bars that include
\* the current one.
LEMMA StopBehindPrice ==
    ASSUME NEW k, k.market \in Markets, k.level = "standard", k.hatch = NoHatch,
           NEW c \in Candidates, NEW regime, NEW grade, ~Violated(k.market, c)
    PROVE  ~IsAhead(c, StopFor(k, c, regime, grade), k.market.price)
<1> DEFINE m == k.market
           price == m.price
           structure == StructureAnchor(c, "standard")
           anchor == SwingAnchor(m, c, "standard")
           narrow == Buffer(m.atr, 30, 0, "normal", "none")
           wide == Buffer(m.atr, 30, TrapScore(c), regime, grade)
<1>1. /\ price \in Int /\ m.atr \in Nat /\ m.anchorLow \in Int /\ m.anchorHigh \in Int
      /\ m.anchorLow <= price
      /\ m.anchorHigh = 0 \/ price <= m.anchorHigh
      /\ c.bullish \in BOOLEAN /\ c.x \in Int /\ c.low \in Int /\ c.high \in Int
  BY ScoringFacts
<1>2. narrow \in Nat /\ wide \in Int /\ narrow <= wide
  BY <1>1, TrapScoreInt, BufferWidens
<1>3. structure \in Int
  BY <1>1 DEF StructureAnchor, OuterEdge, IsAhead
<1>4. BaseBuffer("standard") = 30
  BY DEF BaseBuffer
<1>5. StopFor(k, c, regime, grade) = Away(c, anchor, wide)
  BY <1>4 DEF StopFor
<1>6. ~IsAhead(c, Away(c, structure, narrow), price)
  BY <1>4 DEF Violated, FilterStop
<1>7. \/ anchor = structure
      \/ c.bullish /\ anchor = m.anchorLow
      \/ ~c.bullish /\ anchor = m.anchorHigh /\ m.anchorHigh > 0
  BY DEF SwingAnchor
<1> HIDE DEF structure, anchor, narrow, wide, price
<1>8. ~IsAhead(c, Away(c, anchor, wide), price)
  <2>1. CASE anchor = structure
    BY <1>1, <1>2, <1>3, <1>6, <2>1 DEF IsAhead, Away
  <2>2. CASE c.bullish /\ anchor = m.anchorLow
    BY <1>1, <1>2, <2>2 DEF IsAhead, Away
  <2>3. CASE ~c.bullish /\ anchor = m.anchorHigh /\ m.anchorHigh > 0
    BY <1>1, <1>2, <2>3 DEF IsAhead, Away
  <2> QED BY <1>7, <2>1, <2>2, <2>3
<1> QED BY <1>5, <1>8 DEF price

\* The signals kept are those of candidates that came through the filter and the vetoes of
\* this very call.
KeptSignals(k) == {SignalFor(k, c) : c \in {d \in Candidates : Kept(k, d)}}
SignalInv ==
    /\ phase = "idle" => scored = <<>>
    /\ phase # "idle" => call.market \in Markets /\ scored \in Seq(KeptSignals(call))

\* No answered signal has a stop the price has already passed, for every market and every
\* sequence of candidates.
THEOREM StopsAreAhead == SignalSpec => []StopNotPassed
<1>1. SignalInit => SignalInv
  BY DEF SignalInit, SignalInv
<1>2. SignalInv /\ [SignalNext]_sigVars => SignalInv'
  <2> SUFFICES ASSUME SignalInv, [SignalNext]_sigVars PROVE SignalInv'
    OBVIOUS
  <2>1. ASSUME NEW m \in Markets, NEW l \in StopLevels, NEW h \in Hatches, NEW r \in BOOLEAN,
               Build(m, l, h, r)
        PROVE  SignalInv'
    <3>1. scored' = <<>> /\ phase' # "idle" /\ call'.market = m
      BY <2>1 DEF Build, SignalInv
    <3>2. scored' \in Seq(KeptSignals(call'))
      BY <3>1, EmptySeq
    <3> QED BY <3>1, <3>2 DEF SignalInv, KeptSignals
  <2>2. ASSUME NEW c \in Candidates, ScoreCandidate(c) PROVE SignalInv'
    <3>1. /\ phase # "idle" /\ phase' = phase /\ call' = call
          /\ scored' = IF Kept(call, c) THEN Append(scored, SignalFor(call, c)) ELSE scored
      BY <2>2 DEF ScoreCandidate
    <3>2. call.market \in Markets /\ scored \in Seq(KeptSignals(call))
      BY <3>1 DEF SignalInv
    <3>3. Kept(call, c) => SignalFor(call, c) \in KeptSignals(call)
      BY DEF KeptSignals
    <3>4. scored' \in Seq(KeptSignals(call))
      BY <3>1, <3>2, <3>3, AppendProperties
    <3>5. KeptSignals(call') = KeptSignals(call)
      BY <3>1
    <3> QED BY <3>1, <3>2, <3>4, <3>5 DEF SignalInv
  <2>3. CASE /\ phase # "idle" /\ phase' # "idle"
             /\ call' = call /\ scored' = scored
    <3>1. KeptSignals(call') = KeptSignals(call)
      BY <2>3
    <3> QED BY <2>3, <3>1 DEF SignalInv
  <2>4. ASSUME NEW c \in Candidates, ContractViolation(c) PROVE SignalInv'
    BY <2>3, <2>4 DEF ContractViolation
  <2>5. CASE Rank
    BY <2>3, <2>5 DEF Rank
  <2>6. CASE Unverified
    BY <2>3, <2>6 DEF Unverified
  <2>7. ASSUME NEW s1, NEW s2, Verify(s1, s2) PROVE SignalInv'
    BY <2>3, <2>7 DEF Verify
  <2>8. CASE UNCHANGED sigVars
    <3>1. phase' = phase /\ call' = call /\ scored' = scored
      BY <2>8 DEF sigVars
    <3>2. KeptSignals(call') = KeptSignals(call)
      BY <3>1
    <3> QED BY <3>1, <3>2 DEF SignalInv
  <2> QED BY <2>1, <2>2, <2>4, <2>5, <2>6, <2>7, <2>8 DEF SignalNext
<1>3. SignalInv => StopNotPassed
  <2> SUFFICES ASSUME SignalInv, phase # "idle", ~call.relaxed, Standard(call),
                      NEW i \in DOMAIN scored
               PROVE  ~IsAhead(scored[i].candidate, scored[i].stop, call.market.price)
    BY DEF StopNotPassed
  <2>1. call.market \in Markets /\ scored \in Seq(KeptSignals(call))
    BY DEF SignalInv
  <2>2. scored[i] \in KeptSignals(call)
    BY <2>1, ElementOfSeq
  <2>3. PICK c \in Candidates : Kept(call, c) /\ scored[i] = SignalFor(call, c)
    BY <2>2 DEF KeptSignals
  <2>4. ~Violated(call.market, c)
    BY <2>3 DEF Kept, Rejected
  <2>5. PICK grade :
           /\ scored[i].candidate = c
           /\ scored[i].stop = StopFor(call, c, call.market.regime, grade)
    BY <2>3 DEF SignalFor
  <2>6. call.level = "standard" /\ call.hatch = NoHatch
    BY DEF Standard
  <2> QED BY <2>1, <2>4, <2>5, <2>6, StopBehindPrice
<1> QED BY <1>1, <1>2, <1>3, PTL DEF SignalSpec

-----------------------------------------------------------------------------
(* The walk of the weights. *)

\* The whole context in every phase: while a window is relaxed, the scope of the defaults
\* lies on top of the candidate's.
WalkInv ==
    /\ wphase \in {"idle", "window", "relaxed", "built", "raised", "simulate", "skipped", "unwinding", "done"}
    /\ wphase \in {"idle", "done"} => scopes = <<>>
    /\ wphase \in {"window", "simulate", "skipped", "unwinding"} => scopes = <<Grid[gridPos]>>
    /\ wphase \in {"relaxed", "built", "raised"} => scopes = <<Grid[gridPos], DefaultWeights>>
    /\ wphase \notin {"relaxed", "built", "raised"} => filters = "live"

LEMMA Scopes ==
    ASSUME NEW a, NEW b
    PROVE  /\ Append(<<>>, a) = <<a>>
           /\ Append(<<a>>, b) = <<a, b>>
           /\ Front(<<a, b>>) = <<a>>
           /\ Front(<<a>>) = <<>>
<1> DEFINE S == {a, b}
<1>0. /\ <<>> \in Seq(S) /\ <<a>> \in Seq(S) /\ <<a, b>> \in Seq(S)
      /\ Len(<<>>) = 0 /\ Len(<<a>>) = 1 /\ Len(<<a, b>>) = 2
      /\ <<a>>[1] = a /\ <<a, b>>[1] = a /\ <<a, b>>[2] = b
  OBVIOUS
<1>1. Append(<<>>, a) = <<a>> /\ Append(<<a>>, b) = <<a, b>>
  <2>1. a \in S /\ b \in S
    OBVIOUS
  <2> DEFINE one == Append(<<>>, a)
             two == Append(<<a>>, b)
  <2>2. one \in Seq(S) /\ Len(one) = 1 /\ one[1] = a
    BY <1>0, <2>1, AppendProperties
  <2>3. two \in Seq(S) /\ Len(two) = 2 /\ two[1] = a /\ two[2] = b
    BY <1>0, <2>1, AppendProperties
  <2> HIDE DEF one, two, S
  <2>4. one = <<a>>
    BY <1>0, <2>2, SeqEqual
  <2>5. two = <<a, b>>
    BY <1>0, <2>3, SeqEqual
  <2> QED BY <2>4, <2>5 DEF one, two
<1>2. Len(<<a, b>>) - 1 = 1 /\ Len(<<a>>) - 1 = 0
  OBVIOUS
<1>3. SubSeq(<<a, b>>, 1, 1) = <<a>>
  <2> DEFINE w == SubSeq(<<a, b>>, 1, 1)
  <2>1. w \in Seq(S) /\ Len(w) = 1 /\ w[1] = a
    BY <1>0, SubSeqProperties
  <2> HIDE DEF w, S
  <2>2. w = <<a>>
    BY <1>0, <2>1, SeqEqual
  <2> QED BY <2>2 DEF w
<1>4. SubSeq(<<a>>, 1, 0) = <<>>
  OBVIOUS
<1> QED BY <1>1, <1>2, <1>3, <1>4 DEF Front

\* Every scope a window or a candidate opened is closed again, whatever build_signal does,
\* exceptions that end the search included.
THEOREM ScopesAreBalanced == WalkSpec => []ScopesBalanced
<1>1. WalkInit => WalkInv
  BY DEF WalkInit, WalkInv
<1>2. WalkInv /\ [WalkNext]_walkVars => WalkInv'
  <2> SUFFICES ASSUME WalkInv, [WalkNext]_walkVars PROVE WalkInv'
    OBVIOUS
  <2>1. CASE EnterCandidate
    BY <2>1, Scopes DEF EnterCandidate, WalkInv
  <2>2. CASE RelaxFilters
    BY <2>2, Scopes DEF RelaxFilters, WalkInv
  <2>3. CASE NothingDetected \/ DetectionRaises
    BY <2>3 DEF NothingDetected, DetectionRaises, WalkInv
  <2>4. CASE (\E s \in WalkSignals \cup {NoSignal} : BuildSignal(s)) \/ DropSignal \/ SignalRaises
    BY <2>4 DEF BuildSignal, DropSignal, SignalRaises, WalkInv
  <2>5. CASE RestoreFilters
    BY <2>5, Scopes DEF RestoreFilters, WalkInv
  <2>6. CASE SkipSignal \/ NextWindow
    BY <2>6 DEF SkipSignal, NextWindow, WalkInv
  <2>7. CASE \E b \in WalkBars : FollowBar(b)
    <3>1. wphase = "simulate" /\ wphase' \in {"window", "simulate"} /\ UNCHANGED <<gridPos, scopes, filters>>
      BY <2>7 DEF FollowBar
    <3> QED BY <3>1 DEF WalkInv
  <2>8. CASE LeaveCandidate \/ AbandonSearch
    BY <2>8, Scopes DEF LeaveCandidate, AbandonSearch, WalkInv
  <2>9. CASE UNCHANGED walkVars
    BY <2>9 DEF walkVars, WalkInv
  <2> QED BY <2>1, <2>2, <2>3, <2>4, <2>5, <2>6, <2>7, <2>8, <2>9 DEF WalkNext
<1>3. WalkInv => ScopesBalanced
  BY DEF WalkInv, ScopesBalanced
<1> QED BY <1>1, <1>2, <1>3, PTL DEF WalkSpec

-----------------------------------------------------------------------------
(* The harness of the strategy groups. *)

\* Both histories have the same length and the same bars up to the entry; every trade on
\* record is the one its group makes of its own history.
HarnessInv ==
    /\ picked \in [anchor : Anchors, cand : find_fresh_patterns, signal : {"built", "none", "raises"}]
    /\ frame \in [World -> Seq(HarnessBars)]
    /\ Len(frame["a"]) = Len(frame["b"])
    /\ \A i \in 1 .. Len(frame["a"]) : i <= entry_bar => frame["a"][i] = frame["b"][i]
    /\ turn # "data" => Len(frame["a"]) = FrameLength
    /\ DOMAIN trades = Range(Groups)
    /\ \A g \in Range(Groups) :
          \/ trades[g] = [w \in World |-> NoTrade]
          \/ turn # "data" /\ trades[g] = [w \in World |-> TradeIn(g, frame[w])]

LEMMA PickedFacts ==
    ASSUME HarnessInv
    PROVE  /\ picked.anchor \in Int /\ entry_bar \in 1 .. FrameLength - 1
           /\ FrameLength \in Nat
           /\ picked.cand \in FoundPatterns /\ picked.cand.formed
<1>1. picked.anchor \in Anchors /\ picked.cand \in find_fresh_patterns
  BY DEF HarnessInv
<1>2. picked.anchor \in 1 .. FrameLength - 2 /\ FrameLength \in Nat
  BY <1>1, HarnessAssumption
<1> QED BY <1>1, <1>2 DEF find_fresh_patterns, entry_bar

\* Whether a formed candidate is taken depends on the close of the entry bar alone.
LEMMA TakenByEntry ==
    ASSUME NEW g, NEW x, NEW y, picked.cand.formed, x[entry_bar] = y[entry_bar]
    PROVE  TradeIn(g, x).taken = TradeIn(g, y).taken
<1> DEFINE c == picked.cand
           v(z) == evaluate(z, c, z[entry_bar].close)
           ok(z) == g = "control" \/ ~v(z).past_tp2
           rejected(z) == picked.signal # "built" \/ ~ok(z)
<1>1. v(x).past_tp2 = v(y).past_tp2
  BY DEF evaluate
<1>2. rejected(x) = rejected(y)
  BY <1>1
<1>3. ASSUME NEW z, rejected(z) PROVE TradeIn(g, z).taken = FALSE
  <2>1. Accepts(g, c, v(z)) = ok(z)
    BY DEF Accepts
  <2>2. TradeIn(g, z) = NoTrade
    BY <1>3, <2>1 DEF TradeIn
  <2> QED BY <2>2 DEF NoTrade
<1>4. ASSUME NEW z, ~rejected(z) PROVE TradeIn(g, z).taken = TRUE
  <2>1. Accepts(g, c, v(z)) = ok(z)
    BY DEF Accepts
  <2> DEFINE end == _simulate_trade(z, c)
             macro == compute(daily_pt(z), c.bullish)
             rec == [outcome |-> end, taken |-> TRUE, discipline_passed |-> v(z).passed,
                     macro_size_mult |-> IF g = "experimental" THEN macro.size_mult ELSE 10,
                     macro_regime |-> macro.macro_dir]
  <2>2. TradeIn(g, z) = rec
    BY <1>4, <2>1 DEF TradeIn
  <2>3. rec.taken = TRUE
    OBVIOUS
  <2> HIDE DEF rec
  <2> QED BY <2>2, <2>3
<1> HIDE DEF rejected
<1> QED BY <1>2, <1>3, <1>4

\* A simulated trade ends at a level, or at the close of a bar that did not reach the stop.
LEMMA OutcomeBounded ==
    ASSUME HarnessInv, NEW bars \in Seq(HarnessBars), Len(bars) = FrameLength
    PROVE  LET o == _simulate_trade(bars, picked.cand) IN o.gain >= 0 - o.risk
<1> DEFINE c == picked.cand
           end == IF entry_bar + max_hold_bars < Len(bars) THEN entry_bar + max_hold_bars ELSE Len(bars)
           toward(x) == IF c.bullish THEN x - c.entry ELSE c.entry - x
           hits(i, level) == IF c.bullish THEN bars[i].high >= level ELSE bars[i].low <= level
           stops(i) == IF c.bullish THEN bars[i].low <= c.stop ELSE bars[i].high >= c.stop
           exits == {i \in entry_bar + 1 .. end : stops(i) \/ hits(i, c.tp1) \/ hits(i, c.tp2)}
           risk == 0 - toward(c.stop)
           Ends(i, gain, reason) == [taken |-> TRUE, exit_bar |-> i, gain |-> gain, risk |-> risk, reason |-> reason]
           o == _simulate_trade(bars, c)
<1>1. /\ entry_bar \in 1 .. FrameLength - 1 /\ FrameLength \in Nat /\ c \in FoundPatterns
      /\ max_hold_bars \in Nat /\ max_hold_bars > 0
  <2>1. max_hold_bars \in Nat \ {0}
    BY HarnessAssumption
  <2> QED BY <2>1, PickedFacts
<1>2. /\ c.entry \in Int /\ c.stop \in Int /\ c.tp1 \in Int /\ c.tp2 \in Int
      /\ c.bullish => c.stop <= c.entry /\ c.entry <= c.tp1 /\ c.tp1 <= c.tp2
      /\ ~c.bullish => c.stop >= c.entry /\ c.entry >= c.tp1 /\ c.tp1 >= c.tp2
  BY <1>1, HarnessAssumption
<1>3. end \in entry_bar + 1 .. Len(bars)
  BY <1>1
<1>4. /\ bars[end].low \in Int /\ bars[end].high \in Int /\ bars[end].close \in Int
      /\ bars[end].low <= bars[end].close /\ bars[end].close <= bars[end].high
  <2>1. end \in 1 .. Len(bars)
    BY <1>1, <1>3
  <2>2. bars[end] \in HarnessBars
    BY <2>1, ElementOfSeq
  <2> QED BY <2>2, HarnessAssumption
<1>5. o = CASE c.entry = c.stop -> Ends(entry_bar, 0, "degenerate_risk")
            [] c.entry # c.stop /\ exits = {} -> Ends(end, toward(bars[end].close), "end_of_data")
            [] c.entry # c.stop /\ exits # {} ->
                 LET i == Min(exits)
                 IN  IF stops(i) THEN Ends(i, 0 - risk, "stop_loss")
                     ELSE IF hits(i, c.tp1) THEN Ends(i, toward(c.tp1), "tp1")
                     ELSE Ends(i, toward(c.tp2), "tp2")
  BY DEF _simulate_trade
<1> SUFFICES o.gain >= 0 - o.risk
  OBVIOUS
<1> HIDE DEF o, end, c
<1>6. CASE c.entry = c.stop
  <2>1. o.gain = 0 /\ o.risk = 0 - toward(c.stop)
    BY <1>5, <1>6
  <2> QED BY <1>2, <1>6, <2>1
<1>7. CASE c.entry # c.stop /\ exits = {}
  <2>1. o.gain = toward(bars[end].close) /\ o.risk = 0 - toward(c.stop)
    <3> HIDE DEF exits, toward
    <3> QED BY <1>5, <1>7
  <2>2. ~stops(end)
    <3>1. end \in entry_bar + 1 .. end
      BY <1>1, <1>3
    <3> QED BY <1>7, <3>1
  <2> DEFINE close == bars[end].close
  <2>3. close \in Int /\ (IF c.bullish THEN close > c.stop ELSE close < c.stop)
    BY <1>2, <1>4, <2>2
  <2>4. o.gain = toward(close)
    BY <2>1
  <2> HIDE DEF close
  <2>5. CASE c.bullish
    <3>1. toward(c.stop) = c.stop - c.entry /\ toward(close) = close - c.entry
      BY <2>5
    <3> HIDE DEF toward
    <3> QED BY <1>2, <2>1, <2>3, <2>4, <2>5, <3>1
  <2>6. CASE ~c.bullish
    <3>1. toward(c.stop) = c.entry - c.stop /\ toward(close) = c.entry - close
      BY <2>6
    <3> HIDE DEF toward
    <3> QED BY <1>2, <2>1, <2>3, <2>4, <2>6, <3>1
  <2> QED BY <2>5, <2>6
<1>8. CASE c.entry # c.stop /\ exits # {}
  <2> DEFINE i == Min(exits)
  <2>1. /\ o.risk = 0 - toward(c.stop)
        /\ o.gain = 0 - (0 - toward(c.stop)) \/ o.gain = toward(c.tp1) \/ o.gain = toward(c.tp2)
    <3>1. \/ o = Ends(i, 0 - risk, "stop_loss")
          \/ o = Ends(i, toward(c.tp1), "tp1")
          \/ o = Ends(i, toward(c.tp2), "tp2")
      BY <1>5, <1>8
    <3> HIDE DEF i, exits, toward, stops, hits
    <3> QED BY <3>1
  <2> HIDE DEF i
  <2>2. CASE c.bullish
    <3>1. toward(c.stop) = c.stop - c.entry /\ toward(c.tp1) = c.tp1 - c.entry /\ toward(c.tp2) = c.tp2 - c.entry
      BY <2>2
    <3> HIDE DEF toward
    <3> QED BY <1>2, <2>1, <2>2, <3>1
  <2>3. CASE ~c.bullish
    <3>1. toward(c.stop) = c.entry - c.stop /\ toward(c.tp1) = c.entry - c.tp1 /\ toward(c.tp2) = c.entry - c.tp2
      BY <2>3
    <3> HIDE DEF toward
    <3> QED BY <1>2, <2>1, <2>3, <3>1
  <2> QED BY <2>2, <2>3
<1> QED BY <1>6, <1>7, <1>8

LEMMA GroupNames == Range(Groups) = {"control", "strict", "experimental"}
BY DEF Range, Groups

\* A trade on record decided on its entry bar and lost no more than its risk: for every
\* market, every pattern the search may find and all spans of the filters.
THEOREM DecisionsArePointInTime == HarnessSpec => []DecisionPointInTime
<1>1. HarnessInit => HarnessInv
  <2> SUFFICES ASSUME HarnessInit PROVE HarnessInv
    OBVIOUS
  <2>1. frame = [w \in World |-> <<>>] /\ turn = "data" /\ trades = [g \in Range(Groups) |-> [w \in World |-> NoTrade]]
        /\ picked \in [anchor : Anchors, cand : find_fresh_patterns, signal : {"built", "none", "raises"}]
    BY DEF HarnessInit
  <2>2. frame["a"] = <<>> /\ frame["b"] = <<>>
    BY <2>1 DEF World
  <2>3. frame \in [World -> Seq(HarnessBars)]
    BY <2>1, EmptySeq
  <2>4. \A i \in 1 .. Len(frame["a"]) : i <= entry_bar => frame["a"][i] = frame["b"][i]
    BY <2>2
  <2>5. /\ DOMAIN trades = Range(Groups)
        /\ \A g \in Range(Groups) : trades[g] = [w \in World |-> NoTrade]
    BY <2>1
  <2> QED BY <2>1, <2>2, <2>3, <2>4, <2>5 DEF HarnessInv
<1>2. HarnessInv /\ [HarnessNext]_harnessVars => HarnessInv'
  <2> SUFFICES ASSUME HarnessInv, [HarnessNext]_harnessVars PROVE HarnessInv'
    OBVIOUS
  <2>1. CASE Bar
    <3>1. PICK x \in HarnessBars, y \in HarnessBars :
              /\ Len(frame["a"]) < entry_bar => x = y
              /\ frame' = [w \in World |-> Append(frame[w], IF w = "a" THEN x ELSE y)]
      BY <2>1 DEF Bar
    <3>2. turn = "data" /\ turn' = turn /\ picked' = picked /\ trades' = trades
      BY <2>1 DEF Bar
    <3>3. /\ frame["a"] \in Seq(HarnessBars) /\ frame["b"] \in Seq(HarnessBars)
          /\ Len(frame["a"]) = Len(frame["b"])
          /\ \A i \in 1 .. Len(frame["a"]) : i <= entry_bar => frame["a"][i] = frame["b"][i]
      BY DEF HarnessInv, World
    <3>4. frame'["a"] = Append(frame["a"], x) /\ frame'["b"] = Append(frame["b"], y)
      BY <3>1 DEF World
    <3>5. entry_bar' = entry_bar /\ entry_bar \in Int
      BY <3>2, PickedFacts DEF entry_bar
    <3>6. frame' \in [World -> Seq(HarnessBars)]
      <4>1. \A w \in World : Append(frame[w], IF w = "a" THEN x ELSE y) \in Seq(HarnessBars)
        BY <3>3, AppendProperties DEF World
      <4> QED BY <3>1, <4>1
    <3> DEFINE n == Len(frame["a"])
    <3>7. /\ n \in Nat /\ Len(frame'["a"]) = n + 1 /\ Len(frame'["b"]) = n + 1
          /\ frame'["a"][n + 1] = x /\ frame'["b"][n + 1] = y
          /\ \A i \in 1 .. n : frame'["a"][i] = frame["a"][i] /\ frame'["b"][i] = frame["b"][i]
      BY <3>3, <3>4, AppendProperties, LenProperties
    <3>8. ASSUME NEW i \in 1 .. n + 1, i <= entry_bar PROVE frame'["a"][i] = frame'["b"][i]
      <4>1. CASE i \in 1 .. n
        BY <3>3, <3>7, <3>8, <4>1
      <4>2. CASE i = n + 1
        BY <3>1, <3>5, <3>7, <3>8, <4>2
      <4> QED BY <3>7, <4>1, <4>2
    <3>9. \A g \in Range(Groups) : trades[g] = [w \in World |-> NoTrade]
      BY <3>2 DEF HarnessInv
    <3> HIDE DEF n
    <3> QED BY <3>2, <3>5, <3>6, <3>7, <3>8, <3>9 DEF HarnessInv
  <2>2. CASE Load
    <3>1. /\ turn = "data" /\ turn' # "data" /\ frame' = frame /\ picked' = picked /\ trades' = trades
          /\ Len(frame["a"]) = FrameLength /\ entry_bar' = entry_bar
      BY <2>2, GroupNames DEF Load, Groups, entry_bar
    <3>2. \A g \in Range(Groups) : trades[g] = [w \in World |-> NoTrade]
      BY <3>1 DEF HarnessInv
    <3> QED BY <3>1, <3>2 DEF HarnessInv
  <2>3. CASE RunGroup
    <3>1. /\ turn \in Range(Groups) /\ turn # "data" /\ turn' # "data"
          /\ frame' = frame /\ picked' = picked /\ entry_bar' = entry_bar
      BY <2>3, GroupNames DEF RunGroup, After, entry_bar
    <3>2. \/ trades' = trades
          \/ trades' = [trades EXCEPT ![turn] = [w \in World |-> TradeIn(turn, frame[w])]]
      BY <2>3 DEF RunGroup
    <3>3. /\ frame' = frame /\ picked' = picked /\ DOMAIN trades' = Range(Groups)
      BY <3>1, <3>2 DEF HarnessInv
    <3>4. ASSUME NEW g \in Range(Groups)
          PROVE  \/ trades'[g] = [w \in World |-> NoTrade]
                 \/ trades'[g] = [w \in World |-> TradeIn(g, frame[w])]
      BY <3>1, <3>2 DEF HarnessInv
    <3>5. \A g \in Range(Groups) : [w \in World |-> TradeIn(g, frame[w])]' = [w \in World |-> TradeIn(g, frame[w])]
      BY <3>3 DEF TradeIn, _simulate_trade, daily_pt, entry_bar
    <3> QED BY <3>1, <3>3, <3>4, <3>5 DEF HarnessInv
  <2>4. CASE UNCHANGED harnessVars
    <3>1. frame' = frame /\ picked' = picked /\ turn' = turn /\ trades' = trades /\ entry_bar' = entry_bar
      BY <2>4 DEF harnessVars, entry_bar
    <3>2. \A g \in Range(Groups) : [w \in World |-> TradeIn(g, frame[w])]' = [w \in World |-> TradeIn(g, frame[w])]
      BY <3>1 DEF TradeIn, _simulate_trade, daily_pt, entry_bar
    <3> QED BY <3>1, <3>2 DEF HarnessInv
  <2> QED BY <2>1, <2>2, <2>3, <2>4 DEF HarnessNext
<1>3. HarnessInv => DecisionPointInTime
  <2> SUFFICES ASSUME HarnessInv, NEW g \in Range(Groups)
               PROVE  /\ trades[g]["a"].taken = trades[g]["b"].taken
                      /\ \A w \in World : trades[g][w].taken =>
                             trades[g][w].outcome.gain >= 0 - trades[g][w].outcome.risk
    BY DEF DecisionPointInTime
  <2>1. CASE trades[g] = [w \in World |-> NoTrade]
    <3>1. \A w \in World : trades[g][w] = NoTrade
      BY <2>1
    <3>2. "a" \in World /\ "b" \in World
      BY DEF World
    <3> QED BY <3>1, <3>2 DEF NoTrade
  <2>2. CASE turn # "data" /\ trades[g] = [w \in World |-> TradeIn(g, frame[w])]
    <3>1. /\ "a" \in World /\ "b" \in World /\ frame["a"] \in Seq(HarnessBars) /\ frame["b"] \in Seq(HarnessBars)
          /\ Len(frame["a"]) = FrameLength /\ Len(frame["b"]) = FrameLength
      BY <2>2 DEF HarnessInv, World
    <3>2. frame["a"][entry_bar] = frame["b"][entry_bar]
      <4>1. entry_bar \in 1 .. Len(frame["a"]) /\ entry_bar <= entry_bar
        BY <3>1, PickedFacts
      <4> QED BY <4>1 DEF HarnessInv
    <3>3. trades[g]["a"].taken = trades[g]["b"].taken
      BY <2>2, <3>1, <3>2, PickedFacts, TakenByEntry
    <3>4. ASSUME NEW w \in World, trades[g][w].taken
          PROVE  trades[g][w].outcome.gain >= 0 - trades[g][w].outcome.risk
      <4>1. frame[w] \in Seq(HarnessBars) /\ Len(frame[w]) = FrameLength
        BY <3>1 DEF World
      <4>2. trades[g][w] = TradeIn(g, frame[w])
        BY <2>2
      <4>3. TradeIn(g, frame[w]) # NoTrade
        BY <3>4, <4>2 DEF NoTrade
      <4>4. TradeIn(g, frame[w]).outcome = _simulate_trade(frame[w], picked.cand)
        BY <4>3 DEF TradeIn
      <4> QED BY <4>1, <4>2, <4>4, OutcomeBounded
    <3> QED BY <3>3, <3>4
  <2> QED BY <2>1, <2>2 DEF HarnessInv
<1> QED BY <1>1, <1>2, <1>3, PTL DEF HarnessSpec

-----------------------------------------------------------------------------
(* The candles of the legacy source (MarketData). *)

\* s holds the last elements of W, in order.
Top(s, W) ==
    /\ s \in Seq(Int) /\ Increasing(s)
    /\ \A i \in 1 .. Len(s) : s[i] \in W
    /\ \A t \in W : (\E i \in 1 .. Len(s) : s[i] <= t) => \E j \in 1 .. Len(s) : s[j] = t

\* s leaves nothing of W out.
All(s, W) == \A t \in W : \E j \in 1 .. Len(s) : s[j] = t

\* The greatest member is the one that Max chooses.
LEMMA GreatestIsMax ==
    ASSUME NEW S \in SUBSET Int, NEW m \in S, \A y \in S : m >= y
    PROVE  Max(S) = m
<1>1. \A x \in S : (\A y \in S : x >= y) => x = m
  OBVIOUS
<1> QED BY <1>1 DEF Max

\* What Latest takes.
LEMMA LatestEntries ==
    ASSUME NEW s \in Seq(Int), NEW n \in Nat \ {0}
    PROVE  LET k == IF Len(s) < n THEN 0 ELSE Len(s) - n
           IN  /\ k \in 0 .. Len(s) /\ k \in Nat
               /\ Latest(s, n) \in Seq(Int) /\ Len(Latest(s, n)) = Len(s) - k
               /\ \A i \in 1 .. Len(s) - k : Latest(s, n)[i] = s[k + i]
<1> DEFINE N == Len(s)
           k == IF N < n THEN 0 ELSE N - n
<1>1. N \in Nat
  BY LenProperties
<1>2. Max({1, N - n + 1}) = k + 1
  <2>1. k + 1 \in {1, N - n + 1} /\ \A y \in {1, N - n + 1} : k + 1 >= y
    BY <1>1
  <2>2. {1, N - n + 1} \in SUBSET Int
    BY <1>1
  <2> HIDE DEF k, N
  <2> QED BY <2>1, <2>2, GreatestIsMax
<1>3. Latest(s, n) = SubSeq(s, k + 1, N)
  BY <1>2 DEF Latest
<1>4. k \in 0 .. N /\ k \in Nat
  BY <1>1
<1> HIDE DEF k
<1>5. \A i \in (k + 1) .. N : s[i] \in Int
  BY <1>4, ElementOfSeq
<1>6. /\ SubSeq(s, k + 1, N) \in Seq(Int)
      /\ Len(SubSeq(s, k + 1, N)) = N - k
      /\ \A i \in 1 .. N - k : SubSeq(s, k + 1, N)[i] = s[k + i]
  <2>1. /\ SubSeq(s, k + 1, N) \in Seq(Int)
        /\ Len(SubSeq(s, k + 1, N)) = IF k + 1 <= N THEN N - (k + 1) + 1 ELSE 0
        /\ \A i \in 1 .. N - (k + 1) + 1 : SubSeq(s, k + 1, N)[i] = s[(k + 1) + i - 1]
    BY <1>1, <1>4, <1>5, SubSeqProperties
  <2>2. \A i \in 1 .. N - k : (k + 1) + i - 1 = k + i
    BY <1>1, <1>4
  <2>3. N - (k + 1) + 1 = N - k /\ (~(k + 1 <= N) => N - k = 0)
    BY <1>1, <1>4
  <2> QED BY <2>1, <2>2, <2>3
<1> QED BY <1>3, <1>4, <1>6 DEF k

\* What it takes of an ordered set is the top of the set, all of it if that is short.
LEMMA LatestIsTop ==
    ASSUME NEW W \in SUBSET Int, IsFiniteSet(W), NEW n \in Nat \ {0}
    PROVE  LET l == Latest(Ascending(W), n)
           IN  Top(l, W) /\ Len(l) \in 0 .. n /\ (Len(l) < n => All(l, W))
<1> DEFINE s == Ascending(W)
           N == Len(s)
           k == IF N < n THEN 0 ELSE N - n
           l == Latest(s, n)
<1>1. /\ s \in Seq(Int) /\ Increasing(s) /\ N \in Nat
      /\ \A i \in 1 .. N : s[i] \in W
      /\ \A t \in W : \E i \in 1 .. N : s[i] = t
  BY AscendingFacts
<1>2. /\ l \in Seq(Int) /\ Len(l) = N - k
      /\ \A i \in 1 .. N - k : l[i] = s[k + i]
  BY <1>1, LatestEntries
<1>3. k \in 0 .. N /\ (N - k < n => k = 0) /\ N - k \in 0 .. n
  BY <1>1
<1>4. \A i, j \in 1 .. N : i < j => s[i] < s[j]
  BY <1>1 DEF Increasing
<1>5. \A i \in 1 .. N : s[i] \in Int
  BY <1>1
<1> HIDE DEF s, N, k, l
<1>6. Increasing(l)
  BY <1>1, <1>2, <1>3, <1>4 DEF Increasing
<1>7. \A i \in 1 .. Len(l) : l[i] \in W
  <2> SUFFICES ASSUME NEW i \in 1 .. N - k PROVE l[i] \in W
    BY <1>2
  <2>1. k + i \in 1 .. N
    BY <1>1, <1>3
  <2> QED BY <1>1, <1>2, <2>1
<1>8. \A t \in W : (\E i \in 1 .. Len(l) : l[i] <= t) => \E j \in 1 .. Len(l) : l[j] = t
  <2> SUFFICES ASSUME NEW t \in W, NEW i \in 1 .. Len(l), l[i] <= t PROVE \E j \in 1 .. Len(l) : l[j] = t
    OBVIOUS
  <2>1. PICK m \in 1 .. N : s[m] = t
    BY <1>1
  <2>0. i \in 1 .. N - k
    BY <1>2
  <2>2. s[k + i] <= s[m] /\ k + i \in 1 .. N
    <3>1. k + i \in 1 .. N
      BY <1>1, <1>3, <2>0
    <3>2. l[i] = s[k + i]
      BY <1>2, <2>0
    <3> QED BY <2>1, <3>1, <3>2
  <2>3. k + i <= m
    BY <1>4, <1>5, <2>2
  <2>4. m - k \in 1 .. Len(l) /\ k + (m - k) = m
    BY <1>1, <1>2, <1>3, <2>3
  <2>5. l[m - k] = s[k + (m - k)]
    BY <1>2, <2>4
  <2> QED BY <2>1, <2>4, <2>5
<1>9. Len(l) < n => All(l, W)
  <2> SUFFICES ASSUME Len(l) < n, NEW t \in W PROVE \E j \in 1 .. Len(l) : l[j] = t
    BY DEF All
  <2>1. PICK m \in 1 .. N : s[m] = t
    BY <1>1
  <2>2. k = 0 /\ m \in 1 .. Len(l)
    BY <1>1, <1>2, <1>3
  <2>3. l[m] = s[k + m] /\ k + m = m
    BY <1>2, <2>2
  <2> QED BY <2>1, <2>2, <2>3
<1>10. Len(l) \in 0 .. n
  BY <1>2, <1>3
<1>11. Top(l, W)
  BY <1>2, <1>6, <1>7, <1>8 DEF Top
<1> QED BY <1>9, <1>10, <1>11 DEF l, s

\* The top of a set is the end of its order; if it is long enough, Latest asks no more.
LEMMA TopIsLatest ==
    ASSUME NEW W \in SUBSET Int, IsFiniteSet(W), NEW s, Top(s, W), NEW n \in Nat \ {0},
           Len(s) >= n \/ All(s, W)
    PROVE  Latest(s, n) = Latest(Ascending(W), n) /\ (All(s, W) => s = Ascending(W))
<1> DEFINE m == Len(s)
<1>1. /\ s \in Seq(Int) /\ Increasing(s) /\ m \in Nat
      /\ \A i \in 1 .. m : s[i] \in W /\ s[i] \in Int
      /\ \A t \in W : (\E i \in 1 .. m : s[i] <= t) => \E j \in 1 .. m : s[j] = t
  BY ElementOfSeq, LenProperties DEF Top
<1>2. All(s, W) => s = Ascending(W)
  BY <1>1, IncreasingIsAscending DEF All
<1>3. CASE All(s, W)
  BY <1>2, <1>3
<1>4. CASE m >= n
  <2> DEFINE L == {t \in W : \A i \in 1 .. m : t < s[i]}
             l == Ascending(L)
             M == Len(l)
             u == l \o s
  <2>1. L \in SUBSET Int /\ IsFiniteSet(L)
    BY FS_Subset
  <2>2. /\ l \in Seq(Int) /\ Increasing(l) /\ M \in Nat
        /\ \A i \in 1 .. M : l[i] \in L
        /\ \A t \in L : \E i \in 1 .. M : l[i] = t
    <3> HIDE DEF L
    <3> QED BY <2>1, AscendingFacts
  <2>3. \A i \in 1 .. M : \A j \in 1 .. m : l[i] < s[j]
    BY <2>2
  <2>4. Increasing(u)
    <3> HIDE DEF l, m
    <3> QED BY <1>1, <2>2, <2>3, IncreasingConcat DEF m
  <2>5. /\ u \in Seq(Int) /\ Len(u) = M + m
        /\ \A i \in 1 .. M + m : u[i] = IF i <= M THEN l[i] ELSE s[i - M]
    <3> HIDE DEF l
    <3> QED BY <1>1, <2>2, ConcatProperties
  <2>6. \A t \in L : t \in W
    OBVIOUS
  <2>7. \A t \in W : t \in L \/ \E j \in 1 .. m : s[j] = t
    <3> SUFFICES ASSUME NEW t \in W, t \notin L PROVE \E j \in 1 .. m : s[j] = t
      OBVIOUS
    <3>1. PICK i \in 1 .. m : ~(t < s[i])
      OBVIOUS
    <3>2. s[i] <= t
      BY <1>1, <3>1
    <3> QED BY <1>1, <3>2
  <2> HIDE DEF L, l, M, u, m
  <2>8. \A i \in 1 .. M + m : u[i] \in W
    <3> SUFFICES ASSUME NEW i \in 1 .. M + m PROVE u[i] \in W
      OBVIOUS
    <3>1. CASE i <= M
      BY <2>2, <2>5, <2>6, <3>1
    <3>2. CASE M < i
      <4>1. i - M \in 1 .. m
        BY <1>1, <2>2, <3>2
      <4>2. ~(i <= M)
        BY <2>2, <3>2
      <4>3. u[i] = s[i - M]
        BY <2>5, <4>2
      <4>4. \A j \in 1 .. m : s[j] \in W
        BY <1>1 DEF m
      <4> QED BY <4>1, <4>3, <4>4
    <3> QED BY <2>2, <3>1, <3>2
  <2>9. \A t \in W : \E i \in 1 .. M + m : u[i] = t
    <3> SUFFICES ASSUME NEW t \in W PROVE \E i \in 1 .. M + m : u[i] = t
      OBVIOUS
    <3>1. CASE t \in L
      <4>1. PICK i \in 1 .. M : l[i] = t
        BY <2>2, <3>1
      <4>2. i \in 1 .. M + m /\ i <= M
        BY <1>1, <2>2
      <4> QED BY <2>5, <4>1, <4>2
    <3>2. CASE t \notin L
      <4>1. PICK j \in 1 .. m : s[j] = t
        BY <2>7, <3>2
      <4>2. M + j \in 1 .. M + m /\ ~(M + j <= M) /\ (M + j) - M = j
        BY <1>1, <2>2
      <4> QED BY <2>5, <4>1, <4>2
    <3> QED BY <3>1, <3>2
  <2>10. u = Ascending(W)
    <3>1. u \in Seq(Int) /\ Increasing(u) /\ (\A i \in 1 .. Len(u) : u[i] \in W)
          /\ \A t \in W : \E i \in 1 .. Len(u) : u[i] = t
      BY <2>4, <2>5, <2>8, <2>9
    <3> QED BY <3>1, IncreasingIsAscending
  <2>11. /\ Latest(u, n) \in Seq(Int) /\ Len(Latest(u, n)) = n
         /\ \A i \in 1 .. n : Latest(u, n)[i] = s[m - n + i]
    <3> DEFINE a == M + m
    <3>1. ~(a < n) /\ a - (a - n) = n
      BY <1>1, <1>4, <2>2 DEF m
    <3>2. /\ Latest(u, n) \in Seq(Int) /\ Len(Latest(u, n)) = a - (a - n)
          /\ \A i \in 1 .. a - (a - n) : Latest(u, n)[i] = u[(a - n) + i]
      <4>1. Len(u) = a /\ u \in Seq(Int)
        BY <2>5
      <4> HIDE DEF a
      <4> QED BY <3>1, <4>1, LatestEntries
    <3>4. \A i \in 1 .. n : u[(a - n) + i] = s[m - n + i]
      <4> SUFFICES ASSUME NEW i \in 1 .. n PROVE u[(a - n) + i] = s[m - n + i]
        OBVIOUS
      <4> DEFINE p == (a - n) + i
      <4>1. p \in 1 .. M + m /\ ~(p <= M) /\ p - M = m - n + i
        BY <1>1, <1>4, <2>2 DEF m
      <4> HIDE DEF p, a
      <4>2. u[p] = s[p - M]
        BY <2>5, <4>1
      <4>3. u[p] = s[m - n + i]
        BY <4>1, <4>2
      <4> QED BY <4>3 DEF p
    <3> QED BY <3>1, <3>2, <3>4
  <2>12. /\ Latest(s, n) \in Seq(Int) /\ Len(Latest(s, n)) = n
         /\ \A i \in 1 .. n : Latest(s, n)[i] = s[m - n + i]
    <3>1. ~(m < n) /\ m - (m - n) = n
      BY <1>1, <1>4 DEF m
    <3>2. /\ Latest(s, n) \in Seq(Int) /\ Len(Latest(s, n)) = m - (m - n)
          /\ \A i \in 1 .. m - (m - n) : Latest(s, n)[i] = s[(m - n) + i]
      BY <1>1, <3>1, LatestEntries DEF m
    <3> QED BY <3>1, <3>2
  <2>13. Latest(u, n) = Latest(s, n)
    <3> DEFINE x == Latest(u, n)
               y == Latest(s, n)
    <3>1. x \in Seq(Int) /\ y \in Seq(Int) /\ Len(x) = n /\ Len(y) = n /\ \A i \in 1 .. n : x[i] = y[i]
      BY <2>11, <2>12
    <3> HIDE DEF x, y
    <3>2. x = y
      BY <3>1, SeqEqual
    <3> QED BY <3>2 DEF x, y
  <2> QED BY <1>2, <2>10, <2>13
<1> QED BY <1>3, <1>4

\* Putting the top of the rest before the top of a set.
LEMMA TopGrows ==
    ASSUME NEW W \in SUBSET Int, NEW s, Top(s, W), NEW b,
           Top(b, {t \in W : \A i \in 1 .. Len(s) : t < s[i]})
    PROVE  /\ Top(b \o s, W) /\ Len(b \o s) = Len(b) + Len(s)
           /\ All(b, {t \in W : \A i \in 1 .. Len(s) : t < s[i]}) => All(b \o s, W)
           /\ b # <<>> => (b \o s)[1] = b[1]
<1> DEFINE V == {t \in W : \A i \in 1 .. Len(s) : t < s[i]}
           M == Len(b)
           m == Len(s)
           u == b \o s
<1>1. /\ s \in Seq(Int) /\ Increasing(s) /\ m \in Nat
      /\ \A i \in 1 .. m : s[i] \in W /\ s[i] \in Int
      /\ \A t \in W : (\E i \in 1 .. m : s[i] <= t) => \E j \in 1 .. m : s[j] = t
  BY ElementOfSeq, LenProperties DEF Top
<1>2. /\ b \in Seq(Int) /\ Increasing(b) /\ M \in Nat
      /\ \A i \in 1 .. M : b[i] \in V /\ b[i] \in Int
      /\ \A t \in V : (\E i \in 1 .. M : b[i] <= t) => \E j \in 1 .. M : b[j] = t
  <2> HIDE DEF V
  <2> QED BY ElementOfSeq, LenProperties DEF Top, V
<1>3. \A i \in 1 .. M : \A j \in 1 .. m : b[i] < s[j]
  BY <1>2
<1>4. Increasing(u)
  <2> HIDE DEF V
  <2> QED BY <1>1, <1>2, <1>3, IncreasingConcat
<1>5. /\ u \in Seq(Int) /\ Len(u) = M + m
      /\ \A i \in 1 .. M + m : u[i] = IF i <= M THEN b[i] ELSE s[i - M]
  BY <1>1, <1>2, ConcatProperties
<1>6. \A t \in V : t \in W
  OBVIOUS
<1>7. \A t \in W : t \in V \/ \E j \in 1 .. m : s[j] = t
  <2> SUFFICES ASSUME NEW t \in W, t \notin V PROVE \E j \in 1 .. m : s[j] = t
    OBVIOUS
  <2>1. PICK i \in 1 .. m : ~(t < s[i])
    OBVIOUS
  <2>2. s[i] <= t
    BY <1>1, <2>1
  <2> QED BY <1>1, <2>2
<1>8. \A t \in V : \A j \in 1 .. m : t < s[j]
  OBVIOUS
<1>9. b # <<>> => 1 \in 1 .. M
  BY <1>2, EmptySeq
<1> HIDE DEF V, M, m, u
<1>10. \A i \in 1 .. m : M + i \in 1 .. M + m /\ u[M + i] = s[i]
  <2> SUFFICES ASSUME NEW i \in 1 .. m PROVE M + i \in 1 .. M + m /\ u[M + i] = s[i]
    OBVIOUS
  <2> DEFINE p == M + i
  <2>1. p \in 1 .. M + m /\ ~(p <= M) /\ p - M = i
    BY <1>1, <1>2
  <2> HIDE DEF p
  <2>2. u[p] = s[i]
    BY <1>5, <2>1
  <2> QED BY <2>1, <2>2 DEF p
<1>11. \A i \in 1 .. M : i \in 1 .. M + m /\ u[i] = b[i]
  <2> SUFFICES ASSUME NEW i \in 1 .. M PROVE i \in 1 .. M + m /\ u[i] = b[i]
    OBVIOUS
  <2>1. i \in 1 .. M + m /\ i <= M
    BY <1>1, <1>2
  <2> QED BY <1>5, <2>1
<1>12. \A i \in 1 .. M + m : (i \in 1 .. M /\ u[i] = b[i]) \/ \E j \in 1 .. m : u[i] = s[j]
  <2> SUFFICES ASSUME NEW i \in 1 .. M + m, i \notin 1 .. M PROVE \E j \in 1 .. m : u[i] = s[j]
    BY <1>11
  <2>1. i - M \in 1 .. m /\ M + (i - M) = i
    BY <1>1, <1>2
  <2>2. u[M + (i - M)] = s[i - M]
    BY <1>10, <2>1
  <2> QED BY <2>1, <2>2
<1>13. \A i \in 1 .. M + m : u[i] \in W
  BY <1>1, <1>2, <1>6, <1>12
<1>14. \A t \in W : (\E i \in 1 .. M + m : u[i] <= t) => \E j \in 1 .. M + m : u[j] = t
  <2> SUFFICES ASSUME NEW t \in W, NEW i \in 1 .. M + m, u[i] <= t PROVE \E j \in 1 .. M + m : u[j] = t
    OBVIOUS
  <2>1. CASE \E j \in 1 .. m : s[j] = t
    BY <1>10, <2>1
  <2>2. CASE ~\E j \in 1 .. m : s[j] = t
    <3>1. t \in V
      BY <1>7, <2>2
    <3>2. \A j \in 1 .. m : ~(s[j] <= t)
      BY <1>1, <2>2
    <3>3. i \in 1 .. M /\ b[i] <= t
      BY <1>12, <3>2
    <3>4. PICK j \in 1 .. M : b[j] = t
      BY <1>2, <3>1, <3>3
    <3> QED BY <1>11, <3>4
  <2> QED BY <2>1, <2>2
<1>15. All(b, V) => \A t \in W : \E j \in 1 .. M + m : u[j] = t
  <2> SUFFICES ASSUME All(b, V), NEW t \in W PROVE \E j \in 1 .. M + m : u[j] = t
    OBVIOUS
  <2>1. CASE \E j \in 1 .. m : s[j] = t
    BY <1>10, <2>1
  <2>2. CASE ~\E j \in 1 .. m : s[j] = t
    <3>1. PICK j \in 1 .. M : b[j] = t
      BY <1>7, <2>2 DEF All, M
    <3> QED BY <1>11, <3>1
  <2> QED BY <2>1, <2>2
<1>16. b # <<>> => u[1] = b[1]
  BY <1>9, <1>11
<1>17. Top(u, W) /\ (All(b, V) => All(u, W))
  BY <1>4, <1>5, <1>13, <1>14, <1>15 DEF Top, All
<1> QED BY <1>5, <1>16, <1>17 DEF u, V, M, m

-----------------------------------------------------------------------------
\* What start and end of a request may be.
Bound == Nat \cup {NoBound}

\* The candles between two bounds are finitely many.
LEMMA WithinFacts ==
    ASSUME NEW S \in SUBSET Nat, IsFiniteSet(S), NEW start, NEW end
    PROVE  Within(S, start, end) \in SUBSET Int /\ IsFiniteSet(Within(S, start, end))
<1> DEFINE V == Within(S, start, end)
<1>1. V \in SUBSET S
  BY DEF Within
<1> HIDE DEF V
<1>2. IsFiniteSet(V)
  BY <1>1, FS_Subset
<1>3. V \in SUBSET Int
  BY <1>1
<1> QED BY <1>2, <1>3 DEF V

\* A page without the rows before the start: the top of the candles asked for up to its
\* end, all of them if it is short.
LEMMA BatchIsTop ==
    ASSUME NEW S \in SUBSET Nat, IsFiniteSet(S), NEW start \in Bound, NEW end \in Int \cup {NoBound},
           NEW n \in Nat \ {0}
    PROVE  LET page == Latest(Ascending(Within(S, NoBound, end)), n)
               b == EntriesAt(page, {i \in DOMAIN page : start = NoBound \/ page[i] >= start})
           IN  /\ Top(b, Within(S, start, end)) /\ Len(b) \in 0 .. n
               /\ Len(b) < n => All(b, Within(S, start, end))
<1> DEFINE A == Within(S, NoBound, end)
           V == Within(S, start, end)
           page == Latest(Ascending(A), n)
           P == {i \in DOMAIN page : start = NoBound \/ page[i] >= start}
           b == EntriesAt(page, P)
           T == {page[i] : i \in P}
<1>1. A \in SUBSET Int /\ IsFiniteSet(A)
  BY WithinFacts
<1>2. /\ Top(page, A) /\ Len(page) \in 0 .. n /\ (Len(page) < n => All(page, A))
  <2> HIDE DEF A
  <2> QED BY <1>1, LatestIsTop
<1>3. /\ page \in Seq(Int) /\ Increasing(page) /\ DOMAIN page = 1 .. Len(page)
      /\ \A i \in 1 .. Len(page) : page[i] \in A /\ page[i] \in Int
      /\ \A t \in A : (\E i \in 1 .. Len(page) : page[i] <= t) => \E j \in 1 .. Len(page) : page[j] = t
      /\ Len(page) < n => \A t \in A : \E j \in 1 .. Len(page) : page[j] = t
  <2> HIDE DEF A, page
  <2> QED BY <1>2, ElementOfSeq, LenProperties DEF Top, All
<1>4. P \in SUBSET (1 .. Len(page))
  BY <1>3
<1>5. b = Ascending(T) /\ Len(b) = Cardinality(P) /\ IsFiniteSet(P) /\ Cardinality(P) \in 0 .. Len(page)
  <2> HIDE DEF page, P
  <2> QED BY <1>3, <1>4, EntriesAscending, EntriesFacts
<1>6. T \in SUBSET Int /\ IsFiniteSet(T)
  <2>1. T \in SUBSET A
    BY <1>3, <1>4
  <2> HIDE DEF T, A
  <2> QED BY <1>1, <2>1, FS_Subset
<1>7. /\ b \in Seq(Int) /\ Increasing(b) /\ Len(b) \in Nat
      /\ \A i \in 1 .. Len(b) : b[i] \in T
      /\ \A t \in T : \E i \in 1 .. Len(b) : b[i] = t
  <2> HIDE DEF T, b
  <2>1. LET a == Ascending(T)
        IN  /\ a \in Seq(Int) /\ Increasing(a) /\ Len(a) \in Nat
            /\ \A i \in 1 .. Len(a) : a[i] \in T
            /\ \A t \in T : \E i \in 1 .. Len(a) : a[i] = t
    BY <1>6, AscendingFacts
  <2> QED BY <1>5, <2>1
<1>8. \A t : t \in V <=> t \in A /\ (start = NoBound \/ t >= start)
  BY DEF Within
<1>9. \A t : t \in T <=> (\E i \in 1 .. Len(page) : page[i] = t) /\ (start = NoBound \/ t >= start)
  BY <1>3
<1>10. Len(b) < n => \A t \in V : t \in T
  <2> SUFFICES ASSUME Len(b) < n, NEW t \in V PROVE t \in T
    OBVIOUS
  <2>1. t \in A /\ (start = NoBound \/ t >= start) /\ t \in Int
    BY <1>1, <1>8
  <2>2. CASE Len(page) < n
    <3> HIDE DEF A, V, page, T
    <3> QED BY <1>3, <1>9, <2>1, <2>2
  <2>3. CASE Len(page) = n
    <3>1. PICK i \in 1 .. Len(page) : i \notin P
      <4> SUFFICES ASSUME P = 1 .. Len(page) PROVE FALSE
        BY <1>4
      <4>0. \A k \in Int : k >= 1 => Cardinality(1 .. k) = k - 1 + 1
        BY FS_Interval
      <4>1. Cardinality(P) = n
        <5> HIDE DEF P, page
        <5> QED BY <2>3, <4>0
      <4> QED BY <4>1, <1>5
    <3>2. ~(start = NoBound) /\ ~(page[i] >= start)
      BY <1>3, <3>1
    <3>3. page[i] <= t
      BY <1>3, <2>1, <3>2 DEF Bound
    <3> HIDE DEF A, V, page, T
    <3> QED BY <1>3, <1>9, <2>1, <3>3
  <2>4. Len(page) < n \/ Len(page) = n
    <3> HIDE DEF page
    <3> QED BY <1>2
  <2> QED BY <2>2, <2>3, <2>4
<1>11. Len(b) \in 0 .. n
  <2> HIDE DEF b, page, P
  <2> QED BY <1>2, <1>5
<1> HIDE DEF A, V, page, P, b, T
<1>12. \A i \in 1 .. Len(b) : b[i] \in V
  BY <1>3, <1>7, <1>8, <1>9
<1>13. \A t \in V : (\E i \in 1 .. Len(b) : b[i] <= t) => \E j \in 1 .. Len(b) : b[j] = t
  <2> SUFFICES ASSUME NEW t \in V, NEW i \in 1 .. Len(b), b[i] <= t PROVE \E j \in 1 .. Len(b) : b[j] = t
    OBVIOUS
  <2>1. b[i] \in T
    BY <1>7
  <2>2. PICK k \in 1 .. Len(page) : page[k] = b[i]
    BY <1>9, <2>1
  <2>3. t \in T
    BY <1>3, <1>8, <1>9, <2>2
  <2> QED BY <1>7, <2>3
<1>14. Top(b, V) /\ (Len(b) < n => All(b, V))
  BY <1>7, <1>10, <1>12, <1>13 DEF Top, All
<1> QED BY <1>11, <1>14 DEF b, V, page, P, A

-----------------------------------------------------------------------------
\* What a fetch that asked for W holds while it goes on: nothing yet, or the top of W.
Holds(f, F) ==
    LET W == Within(F, f.start, f.end)
    IN  IF f.first THEN f.rows = <<>> /\ f.endTime = f.end
        ELSE /\ Top(f.rows, W) /\ f.rows # <<>>
             /\ f.endTime = f.rows[1] - 1

Truth == BOOLEAN
PageType == [at : {"page"}, n : Nat \ {0}, start : Bound, end : Bound, rows : Seq(Int),
             endTime : Int \cup {NoBound}, attempt : Nat, first : Truth]

\* The inductive invariant: what opened after the first page opened after all of it.
MarketInv ==
    /\ listed \in SUBSET Nat /\ IsFiniteSet(listed)
    /\ firstSeen \in SUBSET listed /\ \A t \in listed \ firstSeen : \A u \in firstSeen : u < t
    /\ fetch.at = "page" => fetch \in PageType /\ Holds(fetch, firstSeen) /\ Len(fetch.rows) < fetch.n
    /\ PaginationExact

\* A fetch after a page or a failed request.
Advanced(f, rows, t, a, b) == [f EXCEPT !.rows = rows, !.endTime = t, !.attempt = a, !.first = b]

\* It is still the same fetch.
LEMMA PageRecord ==
    ASSUME NEW f \in PageType, NEW rows \in Seq(Int), NEW t \in Int \cup {NoBound}, NEW a \in Nat, NEW b \in Truth,
           NEW g, g = Advanced(f, rows, t, a, b)
    PROVE  /\ g \in PageType /\ g.at = "page" /\ g.rows = rows /\ g.endTime = t /\ g.first = b
           /\ g.start = f.start /\ g.end = f.end /\ g.n = f.n
<1> DEFINE C == Nat \ {0}
           T == Int \cup {NoBound}
           R == Seq(Int)
<1>1. f \in [at : {"page"}, n : C, start : Bound, end : Bound, rows : R, endTime : T, attempt : Nat, first : Truth]
  BY DEF PageType
<1>2. rows \in R /\ t \in T
  OBVIOUS
<1> HIDE DEF C, T, R
<1>3. g \in [at : {"page"}, n : C, start : Bound, end : Bound, rows : R, endTime : T, attempt : Nat, first : Truth]
  BY <1>1, <1>2 DEF Advanced
<1>4. /\ g.at = "page" /\ g.rows = rows /\ g.endTime = t /\ g.first = b
      /\ g.start = f.start /\ g.end = f.end /\ g.n = f.n
  BY <1>1 DEF Advanced
<1> QED BY <1>3, <1>4 DEF PageType, C, T, R

\* The candles asked for beyond what a fetch has are those of its next request.
LEMMA RestIsAsked ==
    ASSUME MarketInv, fetch.at = "page",
           NEW F, F = IF fetch.first THEN listed ELSE firstSeen
    PROVE  /\ F \in SUBSET Nat /\ IsFiniteSet(F) /\ Top(fetch.rows, Within(F, fetch.start, fetch.end))
           /\ {t \in Within(F, fetch.start, fetch.end) : \A i \in 1 .. Len(fetch.rows) : t < fetch.rows[i]}
                = Within(listed, fetch.start, fetch.endTime)
<1> DEFINE start == fetch.start
           end == fetch.end
           rows == fetch.rows
           W == Within(F, start, end)
           cursor == fetch.endTime
<1>1. fetch \in PageType /\ Holds(fetch, firstSeen)
  BY DEF MarketInv
<1>2. F \in SUBSET Nat /\ IsFiniteSet(F)
  BY FS_Subset DEF MarketInv
<1>3. CASE fetch.first
  <2>1. rows = <<>> /\ cursor = end /\ F = listed
    BY <1>1, <1>3 DEF Holds
  <2>2. Len(rows) = 0 /\ rows \in Seq(Int)
    BY <2>1, EmptySeq
  <2>3. Top(rows, W)
    <3> HIDE DEF W, rows
    <3> QED BY <2>2 DEF Top, Increasing
  <2>4. {t \in W : \A i \in 1 .. Len(rows) : t < rows[i]} = W
    <3> HIDE DEF W, rows
    <3> QED BY <2>2
  <2> QED BY <1>2, <2>1, <2>3, <2>4
<1>4. CASE ~fetch.first
  <2>1. F = firstSeen /\ Top(rows, W) /\ rows # <<>> /\ cursor = rows[1] - 1
    BY <1>1, <1>4 DEF Holds
  <2>2. rows \in Seq(Int) /\ Len(rows) \in Nat \ {0} /\ 1 \in 1 .. Len(rows)
    BY <1>1, <2>1, EmptySeq DEF PageType
  <2>3. \A i \in 1 .. Len(rows) : rows[i] \in Int /\ rows[1] <= rows[i]
    BY <2>1, <2>2, ElementOfSeq DEF Top, Increasing
  <2>4. rows[1] \in W /\ rows[1] \in F /\ (end = NoBound \/ rows[1] <= end)
    BY <2>1, <2>2 DEF Top, Within
  <2>5. \A t \in listed : t <= cursor => t \in F
    <3> SUFFICES ASSUME NEW t \in listed, t <= cursor, t \notin F PROVE FALSE
      OBVIOUS
    <3>1. t \in Nat /\ \A u \in F : u < t
      BY <2>1 DEF MarketInv
    <3>2. rows[1] < t /\ rows[1] \in Int
      BY <2>2, <2>3, <2>4, <3>1
    <3>3. t <= rows[1] - 1
      BY <2>1
    <3> HIDE DEF rows, cursor
    <3> QED BY <3>1, <3>2, <3>3
  <2>6. \A t \in F : t \in listed /\ t \in Int
    BY <2>1 DEF MarketInv
  <2>7. start \in Bound /\ end \in Bound
    BY <1>1 DEF PageType
  <2>8. NoBound \notin Int
    BY MarketDataAssumption
  <2> HIDE DEF W, rows, cursor, start, end
  <2>9. \A t \in Int : (\A i \in 1 .. Len(rows) : t < rows[i]) <=> t <= cursor
    BY <2>1, <2>2, <2>3
  <2>10. cursor # NoBound /\ (end = NoBound \/ cursor <= end) /\ cursor \in Int
    BY <2>1, <2>2, <2>3, <2>4, <2>7, <2>8 DEF Bound
  <2>11. \A t \in listed : t <= cursor => end = NoBound \/ t <= end
    BY <2>7, <2>10 DEF Bound, MarketInv
  <2>12. \A t : t \in W <=> t \in F /\ (start = NoBound \/ t >= start) /\ (end = NoBound \/ t <= end)
    BY DEF W, Within, start, end
  <2>13. \A t : t \in Within(listed, start, cursor) <=> t \in listed /\ (start = NoBound \/ t >= start) /\ t <= cursor
    BY <2>10 DEF Within
  <2>14. {t \in W : \A i \in 1 .. Len(rows) : t < rows[i]} = Within(listed, start, cursor)
    BY <2>5, <2>6, <2>9, <2>11, <2>12, <2>13
  <2> QED BY <1>2, <2>1, <2>14 DEF W, rows, cursor, start, end
<1> QED BY <1>3, <1>4

\* A page leaves a fetch with more of what it asked for, or with the answer.
LEMMA TurnKeeps ==
    ASSUME MarketInv, fetch.at = "page",
           NEW F, F = IF fetch.first THEN listed ELSE firstSeen,
           NEW g, g = Turn(fetch, Page(BatchSize(fetch), fetch.endTime))
    PROVE  LET asked == Ascending(Within(F, fetch.start, fetch.end))
           IN  \/ g.at = "nodata" /\ g.start = fetch.start /\ g.end = fetch.end /\ asked = <<>>
               \/ /\ g.at = "done" /\ g.start = fetch.start /\ g.end = fetch.end /\ g.n = fetch.n
                  /\ g.rows = Latest(asked, fetch.n)
               \/ g \in PageType /\ Holds(g, F) /\ Len(g.rows) < g.n
<1> DEFINE start == fetch.start
           end == fetch.end
           n == fetch.n
           W == Within(F, start, end)
           V == Within(listed, start, fetch.endTime)
           B == BatchSize(fetch)
           page == Page(B, fetch.endTime)
           batch == EntriesAt(page, {i \in DOMAIN page : start = NoBound \/ page[i] >= start})
           rows == batch \o fetch.rows
<1>1. fetch \in PageType /\ Len(fetch.rows) < n /\ listed \in SUBSET Nat /\ IsFiniteSet(listed)
  BY DEF MarketInv
<1>2. /\ start \in Bound /\ end \in Bound /\ n \in Nat \ {0} /\ fetch.rows \in Seq(Int)
      /\ fetch.endTime \in Int \cup {NoBound} /\ Len(fetch.rows) \in Nat
  BY <1>1, LenProperties DEF PageType
<1>3. B \in Nat \ {0}
  BY <1>1, <1>2, MarketDataAssumption DEF BatchSize
<1>4. /\ F \in SUBSET Nat /\ IsFiniteSet(F) /\ Top(fetch.rows, W)
      /\ {t \in W : \A i \in 1 .. Len(fetch.rows) : t < fetch.rows[i]} = V
  BY RestIsAsked
<1>5. Top(batch, V) /\ Len(batch) \in 0 .. B /\ (Len(batch) < B => All(batch, V))
  <2> HIDE DEF B, start
  <2> QED BY <1>1, <1>2, <1>3, BatchIsTop DEF Page
<1>6. W \in SUBSET Int /\ IsFiniteSet(W)
  BY <1>4, WithinFacts
<1>7. /\ Top(rows, W) /\ Len(rows) = Len(batch) + Len(fetch.rows)
      /\ Len(batch) < B => All(rows, W)
      /\ batch # <<>> => rows[1] = batch[1]
  <2> DEFINE past == fetch.rows
             R == {t \in W : \A i \in 1 .. Len(past) : t < past[i]}
  <2>1. R = V
    BY <1>4
  <2> HIDE DEF W, V, batch, B
  <2>2. Top(past, W) /\ Top(batch, R) /\ (Len(batch) < B => All(batch, R))
    <3> HIDE DEF R
    <3> QED BY <1>4, <1>5, <2>1
  <2> HIDE DEF past
  <2>3. /\ Top(batch \o past, W) /\ Len(batch \o past) = Len(batch) + Len(past)
        /\ All(batch, R) => All(batch \o past, W)
        /\ batch # <<>> => (batch \o past)[1] = batch[1]
    BY <1>6, <2>2, TopGrows
  <2> HIDE DEF R
  <2> QED BY <2>2, <2>3 DEF past
<1> DEFINE last == \/ Len(batch) < B
                   \/ Len(rows) >= n
                   \/ start # NoBound /\ batch[1] - 1 < start
<1>8. g = IF last
          THEN IF rows = <<>> THEN [at |-> "nodata", n |-> n, start |-> start, end |-> end]
               ELSE [at |-> "done", n |-> n, start |-> start, end |-> end, rows |-> Latest(rows, n)]
          ELSE [fetch EXCEPT !.rows = rows, !.endTime = batch[1] - 1, !.attempt = 0, !.first = FALSE]
  BY DEF Turn, EndBefore
<1> HIDE DEF batch, page, B, V
<1>9. batch = <<>> => Len(batch) < B
  BY <1>3, EmptySeq
<1>10. batch \in Seq(Int) /\ Len(batch) \in Nat /\ (batch # <<>> => Len(batch) # 0 /\ batch[1] \in Int /\ batch[1] \in V)
  <2>1. batch \in Seq(Int) /\ Len(batch) \in Nat
    BY <1>5, LenProperties DEF Top
  <2>2. batch # <<>> => 1 \in 1 .. Len(batch)
    BY <2>1, EmptySeq
  <2> QED BY <1>5, <2>1, <2>2, ElementOfSeq DEF Top
<1>11. rows \in Seq(Int) /\ Len(rows) \in Nat /\ (rows = <<>> => Len(rows) = 0)
  <2> HIDE DEF rows
  <2> QED BY <1>7, LenProperties, EmptySeq DEF Top
<1>12. CASE last
  <2>1. Len(rows) >= n \/ All(rows, W)
    <3>1. CASE Len(batch) < B \/ Len(rows) >= n
      BY <1>7, <3>1
    <3>2. CASE start # NoBound /\ batch[1] - 1 < start /\ batch # <<>>
      <4>1. start \in Nat /\ batch[1] \in Int /\ batch[1] >= start
        <5>1. \A t \in V : start = NoBound \/ t >= start
          BY DEF V, Within
        <5> QED BY <1>2, <1>10, <3>2, <5>1 DEF Bound
      <4>2. \A t \in W : t >= start /\ t \in Int
        BY <1>6, <3>2 DEF Within
      <4>3. rows[1] = start /\ 1 \in 1 .. Len(rows)
        <5>1. rows[1] = batch[1]
          BY <1>7, <3>2
        <5>2. Len(rows) # 0
          BY <1>2, <1>7, <1>10, <3>2
        <5> HIDE DEF rows
        <5> QED BY <1>11, <3>2, <4>1, <5>1, <5>2
      <4> HIDE DEF W, rows
      <4>4. \A t \in W : rows[1] <= t
        BY <4>1, <4>2, <4>3
      <4> QED BY <1>7, <4>3, <4>4 DEF Top, All
    <3> QED BY <1>9, <1>12, <3>1, <3>2
  <2> DEFINE asked == Ascending(W)
  <2>2. Latest(rows, n) = Latest(asked, n) /\ (All(rows, W) => rows = asked)
    <3> HIDE DEF rows, W, n
    <3> QED BY <1>2, <1>6, <1>7, <2>1, TopIsLatest
  <2>3. CASE rows = <<>>
    <3>1. ~(Len(rows) >= n)
      BY <1>2, <1>11, <2>3
    <3>2. asked = <<>>
      BY <2>1, <2>2, <2>3, <3>1
    <3>3. g = [at |-> "nodata", n |-> n, start |-> start, end |-> end]
      BY <1>8, <1>12, <2>3
    <3> HIDE DEF asked
    <3>4. g.at = "nodata" /\ g.start = start /\ g.end = end
      BY <3>3
    <3> QED BY <3>2, <3>4 DEF asked
  <2>4. CASE rows # <<>>
    <3> DEFINE answer == Latest(rows, n)
    <3>3. g = [at |-> "done", n |-> n, start |-> start, end |-> end, rows |-> answer]
      BY <1>8, <1>12, <2>4
    <3> HIDE DEF answer
    <3>4. g.at = "done" /\ g.start = start /\ g.end = end /\ g.n = n /\ g.rows = answer
      BY <3>3
    <3> QED BY <2>2, <3>4 DEF answer
  <2> QED BY <2>3, <2>4
<1>13. CASE ~last
  <2>1. batch # <<>> /\ Len(rows) < n
    BY <1>2, <1>9, <1>11, <1>13
  <2>2. rows # <<>> /\ rows[1] = batch[1] /\ batch[1] \in Int
    <3>1. Len(rows) # 0
      BY <1>2, <1>7, <1>10, <2>1
    <3> QED BY <1>7, <1>10, <1>11, <2>1, <3>1
  <2> DEFINE edge == batch[1] - 1
  <2>3. edge \in Int /\ edge = rows[1] - 1
    BY <2>2
  <2>4. g = [fetch EXCEPT !.rows = rows, !.endTime = edge, !.attempt = 0, !.first = FALSE]
    BY <1>8, <1>13
  <2> HIDE DEF rows, edge, last
  <2>5. /\ g \in PageType /\ g.rows = rows /\ g.endTime = edge /\ g.first = FALSE
        /\ g.start = start /\ g.end = end /\ g.n = n
    <3>0. rows \in Seq(Int) /\ edge \in Int \cup {NoBound} /\ FALSE \in Truth /\ fetch \in PageType
      BY <1>1, <1>11, <2>3 DEF Truth
    <3>1. PICK f \in PageType, r \in Seq(Int), t \in Int \cup {NoBound} : f = fetch /\ r = rows /\ t = edge
      BY <3>0
    <3>2. PICK a \in Nat, b \in Truth : g = Advanced(f, r, t, a, b)
      <4>1. g = Advanced(f, r, t, 0, FALSE)
        BY <2>4, <3>1 DEF Advanced
      <4> QED BY <4>1 DEF Truth
    <3>3. /\ g \in PageType /\ g.rows = r /\ g.endTime = t
          /\ g.start = f.start /\ g.end = f.end /\ g.n = f.n
      BY <3>2, PageRecord
    <3>4. g.first = FALSE
      BY <1>1, <2>4 DEF PageType
    <3> QED BY <3>1, <3>3, <3>4
  <2>6. Holds(g, F)
    <3> HIDE DEF W
    <3>1. Within(F, g.start, g.end) = W
      BY <2>5 DEF W
    <3> HIDE DEF start, end
    <3> QED BY <1>7, <2>2, <2>3, <2>5, <3>1 DEF Holds
  <2> QED BY <2>1, <2>5, <2>6
<1> QED BY <1>12, <1>13

\* A candle that opens, a failure, a retry and a page preserve it.
LEMMA MarketKeeps == MarketInv /\ [MarketNext]_marketVars => MarketInv'
<1> SUFFICES ASSUME MarketInv, [MarketNext]_marketVars PROVE MarketInv'
  OBVIOUS
<1>0. /\ listed \in SUBSET Nat /\ IsFiniteSet(listed) /\ firstSeen \in SUBSET listed
      /\ \A t \in listed \ firstSeen : \A u \in firstSeen : u < t
      /\ fetch.at = "page" => fetch \in PageType /\ Holds(fetch, firstSeen) /\ Len(fetch.rows) < fetch.n
  BY DEF MarketInv
<1>1. CASE UNCHANGED marketVars
  BY <1>1 DEF marketVars, MarketInv, PaginationExact
<1>2. CASE Open
  <2>1. PICK t \in OpenTimes : (\A u \in listed : u < t) /\ listed' = listed \cup {t}
    BY <1>2 DEF Open
  <2>2. fetch' = fetch /\ firstSeen' = firstSeen
    BY <1>2 DEF Open
  <2>3. t \in Nat
    BY MarketDataAssumption
  <2>4. IsFiniteSet(listed')
    BY <1>0, <2>1, FS_AddElement
  <2>5. listed' \in SUBSET Nat /\ firstSeen' \in SUBSET listed'
        /\ \A s \in listed' \ firstSeen' : \A u \in firstSeen' : u < s
    BY <1>0, <2>1, <2>2, <2>3
  <2> QED BY <2>2, <2>4, <2>5 DEF MarketInv, PaginationExact
<1>3. CASE get_candles
  <2>1. listed' = listed /\ firstSeen' = firstSeen
    BY <1>3 DEF get_candles
  <2>2. CASE fetch' = [at |-> "invalid"]
    <3>1. fetch'.at = "invalid"
      BY <2>2
    <3> QED BY <1>0, <2>1, <3>1 DEF MarketInv, PaginationExact
  <2>3. ASSUME NEW n \in Counts, NEW start \in Bounds \cup {NoBound}, NEW end \in Bounds \cup {NoBound},
               fetch' = [at |-> "page", n |-> n, start |-> start, end |-> end, rows |-> <<>>,
                         endTime |-> end, attempt |-> 0, first |-> TRUE]
        PROVE  MarketInv'
    <3> DEFINE e == <<>>
    <3>1. /\ n \in Nat \ {0} /\ start \in Bound /\ end \in Bound /\ end \in Int \cup {NoBound}
          /\ e \in Seq(Int) /\ Len(e) = 0
      BY MarketDataAssumption, EmptySeq DEF Bound
    <3>2. e = <<>> /\ Len(e) < n
      BY <3>1
    <3>3. fetch' = [at |-> "page", n |-> n, start |-> start, end |-> end, rows |-> e,
                    endTime |-> end, attempt |-> 0, first |-> TRUE]
      BY <2>3
    <3> HIDE DEF e
    <3>4. fetch' \in PageType /\ fetch'.first = TRUE /\ fetch'.rows = e /\ fetch'.endTime = fetch'.end
          /\ fetch'.at = "page" /\ fetch'.n = n
      BY <3>1, <3>3 DEF PageType, Truth
    <3>5. Holds(fetch', firstSeen')
      BY <3>2, <3>4 DEF Holds
    <3>6. Len(fetch'.rows) < fetch'.n
      BY <3>2, <3>4
    <3>7. PaginationExact'
      BY <3>4 DEF PaginationExact
    <3> QED BY <1>0, <2>1, <3>4, <3>5, <3>6, <3>7 DEF MarketInv
  <2> QED BY <1>3, <2>2, <2>3 DEF get_candles
<1>4. CASE RequestFails
  <2>1. listed' = listed /\ firstSeen' = firstSeen /\ fetch.at = "page"
    BY <1>4 DEF RequestFails
  <2>2. CASE fetch' = [at |-> "failed"]
    <3>1. fetch'.at = "failed"
      BY <2>2
    <3> QED BY <1>0, <2>1, <3>1 DEF MarketInv, PaginationExact
  <2>3. CASE fetch' = [fetch EXCEPT !.attempt = @ + 1]
    <3>1. /\ fetch' \in PageType /\ fetch'.at = "page" /\ fetch'.rows = fetch.rows /\ fetch'.n = fetch.n
          /\ fetch'.start = fetch.start /\ fetch'.end = fetch.end /\ fetch'.first = fetch.first
          /\ fetch'.endTime = fetch.endTime
      <4>1. fetch \in PageType /\ fetch.attempt + 1 \in Nat /\ fetch.rows \in Seq(Int)
            /\ fetch.endTime \in Int \cup {NoBound} /\ fetch.first \in Truth
        BY <1>0, <2>1 DEF PageType
      <4>2. PICK f \in PageType, r \in Seq(Int), t \in Int \cup {NoBound}, a \in Nat, b \in Truth :
              f = fetch /\ r = f.rows /\ t = f.endTime /\ a = f.attempt + 1 /\ b = f.first
        BY <4>1
      <4>3. PICK g : g = Advanced(f, r, t, a, b)
        OBVIOUS
      <4>4. fetch' = g
        BY <2>3, <4>2, <4>3 DEF PageType, Advanced
      <4>5. /\ g \in PageType /\ g.at = "page" /\ g.rows = r /\ g.endTime = t /\ g.first = b
            /\ g.start = f.start /\ g.end = f.end /\ g.n = f.n
        BY <4>3, PageRecord
      <4> QED BY <4>2, <4>4, <4>5
    <3>2. Holds(fetch', firstSeen')
      BY <1>0, <2>1, <3>1 DEF Holds
    <3>3. Len(fetch'.rows) < fetch'.n
      BY <1>0, <2>1, <3>1
    <3>4. PaginationExact'
      BY <3>1 DEF PaginationExact
    <3> QED BY <1>0, <2>1, <3>1, <3>2, <3>3, <3>4 DEF MarketInv
  <2> QED BY <1>4, <2>2, <2>3 DEF RequestFails
<1>5. CASE PageArrives
  <2>1. fetch.at = "page" /\ listed' = listed /\ firstSeen' = IF fetch.first THEN listed ELSE firstSeen
    BY <1>5 DEF PageArrives
  <2>2. PICK g : g = Turn(fetch, Page(BatchSize(fetch), fetch.endTime))
    OBVIOUS
  <2>3. fetch' = g
    BY <1>5, <2>2 DEF PageArrives
  <2>4. PICK F : F = firstSeen'
    OBVIOUS
  <2> DEFINE asked == Ascending(Within(F, fetch.start, fetch.end))
  <2>5. \/ g.at = "nodata" /\ g.start = fetch.start /\ g.end = fetch.end /\ asked = <<>>
        \/ /\ g.at = "done" /\ g.start = fetch.start /\ g.end = fetch.end /\ g.n = fetch.n
           /\ g.rows = Latest(asked, fetch.n)
        \/ g \in PageType /\ Holds(g, F) /\ Len(g.rows) < g.n
    BY <2>1, <2>2, <2>4, TurnKeeps
  <2>6. firstSeen' \in SUBSET listed' /\ \A t \in listed' \ firstSeen' : \A u \in firstSeen' : u < t
    BY <1>0, <2>1
  <2>7. CASE g \in PageType /\ Holds(g, F) /\ Len(g.rows) < g.n
    <3>1. g.at = "page"
      BY <2>7 DEF PageType
    <3> QED BY <1>0, <2>1, <2>3, <2>4, <2>6, <2>7, <3>1 DEF MarketInv, PaginationExact
  <2>8. CASE g.at = "nodata" /\ g.start = fetch.start /\ g.end = fetch.end /\ asked = <<>>
    <3>1. Within(F, g.start, g.end) = Within(F, fetch.start, fetch.end)
      BY <2>8
    <3>2. PaginationExact'
      BY <2>3, <2>4, <2>8, <3>1 DEF PaginationExact
    <3> QED BY <1>0, <2>1, <2>3, <2>6, <2>8, <3>2 DEF MarketInv
  <2>9. CASE /\ g.at = "done" /\ g.start = fetch.start /\ g.end = fetch.end /\ g.n = fetch.n
             /\ g.rows = Latest(asked, fetch.n)
    <3>1. Within(F, g.start, g.end) = Within(F, fetch.start, fetch.end)
      BY <2>9
    <3>2. PaginationExact'
      BY <2>3, <2>4, <2>9, <3>1 DEF PaginationExact
    <3> QED BY <1>0, <2>1, <2>3, <2>6, <2>9, <3>2 DEF MarketInv
  <2> QED BY <2>5, <2>7, <2>8, <2>9
<1> QED BY <1>1, <1>2, <1>3, <1>4, <1>5 DEF MarketNext

\* Pages end to end: for any candles and gaps, any candles that open meanwhile, any page
\* size, bounds and retries, a fetch answers with exactly the latest of the candles asked
\* for that the exchange had at its first page.
THEOREM FetchesAreExact == MarketSpec => []PaginationExact
<1>1. MarketInit => MarketInv
  <2> SUFFICES ASSUME MarketInit PROVE MarketInv
    OBVIOUS
  <2>1. listed \in SUBSET Nat /\ IsFiniteSet(listed) /\ firstSeen = {} /\ fetch.at = "idle"
    BY MarketDataAssumption DEF MarketInit
  <2> QED BY <2>1 DEF MarketInv, PaginationExact
<1>2. MarketInv => PaginationExact
  BY DEF MarketInv
<1> QED BY <1>1, <1>2, MarketKeeps, PTL DEF MarketSpec
=============================================================================
