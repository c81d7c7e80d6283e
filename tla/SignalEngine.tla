---------------------------- MODULE SignalEngine ----------------------------
(***************************************************************************)
(* app/services/signal_engine.py with the mathematics of                   *)
(* app/domain/signals.py and app/domain/validation.py: build_signal        *)
(* filters the detected patterns, scores the survivors, ranks the signals  *)
(* and verifies the best one on two shifted windows.                       *)
(*                                                                         *)
(* A market is what the candles say (price, the last bar, ATR, swings,     *)
(* indicators), a candidate is a detected pattern.  Prices are integers on *)
(* a grid on which every price the code computes is exact; ratios are in   *)
(* hundredths, R multiples in 1/10000 (the code rounds to four decimals)   *)
(* and confluence points in halves.  The tuning is TUNING's default.       *)
(***************************************************************************)
EXTENDS Integers, Sequences, SequencesExt

CONSTANTS
    Markets,        \* what the candles can say
    Candidates,     \* the patterns a detection can return
    StopLevels,     \* the values of stop_level
    Hatches,        \* the values of stop_buffer_atr in hundredths, NoHatch for None
    NoHatch,
    MaxCandidates   \* bound on the patterns of one detection

VARIABLES
    phase,      \* "idle", "scoring", "ranked", "done" or "raised"
    call,       \* the arguments of build_signal
    tried,      \* how many candidates the loop has passed
    scored,     \* the signals kept so far
    out         \* the answer, None until there is one

sigVars == <<phase, call, tried, scored, out>>

None == [grade |-> "none"]
NoCall == [none |-> TRUE]

\* The swing extremes are taken over the last bars, the current one included; they are 0
\* when the frame is too short for one.
ASSUME SignalAssumption ==
    /\ StopLevels \subseteq {"conservative", "standard", "aggressive"}
    /\ MaxCandidates \in Nat
    /\ \A m \in Markets :
          /\ m.price \in Int /\ m.atr \in Nat /\ m.anchorLow \in Int /\ m.anchorHigh \in Int
          /\ m.anchorLow <= m.price
          /\ m.anchorHigh = 0 \/ m.price <= m.anchorHigh
    /\ \A c \in Candidates :
          /\ c.bullish \in BOOLEAN /\ c.hunts \in BOOLEAN /\ c.climax \in BOOLEAN
          /\ c.x \in Int /\ c.low \in Int /\ c.high \in Int
-----------------------------------------------------------------------------
(* Geometry.  Away goes to the side of the stop, IsAhead is nearer the targets. *)

AbsDiff(p, q) == IF p >= q THEN p - q ELSE q - p
Clamp(v, low, high) == Min({high, Max({low, v})})
RoundHalfUp(n, d) == (2 * n + d) \div (2 * d)

Away(c, p, d) == IF c.bullish THEN p - d ELSE p + d
IsAhead(c, p, q) == IF c.bullish THEN p > q ELSE p < q

OuterEdge(c) == IF c.bullish THEN c.low ELSE c.high
InnerEdge(c) == IF c.bullish THEN c.high ELSE c.low
InZone(m, c) == c.low <= m.price /\ m.price <= c.high
TwiceMid(c) == c.low + c.high

IsSwept(m, c) == InZone(m, c) /\ (m.low < c.low \/ m.high > c.high)
IsReversal(m, c) == m.reversal = IF c.bullish THEN "bull" ELSE "bear"

SignalStatus(m, c) ==
    CASE ~InZone(m, c)    -> "approaching"
      [] IsReversal(m, c) -> "confirmed"
      [] IsSwept(m, c)    -> "swept"
      [] OTHER            -> "in_prz"

\* The price a trade would start from: now, or the edge price comes to first.
EntryOf(m, c) == IF SignalStatus(m, c) = "approaching" THEN InnerEdge(c) ELSE m.price

\* Where the structure is broken, for each of the three stop levels.
StructureAnchor(c, level) ==
    LET edge == OuterEdge(c)
        far == IF IsAhead(c, c.x, edge) THEN edge ELSE c.x
    IN  IF level = "conservative" \/ (level = "standard" /\ c.extended) THEN edge ELSE far

\* A recent swing on the stop's side of the entry replaces a wider anchor.
SwingAnchor(m, c, level) ==
    LET swing == IF c.bullish THEN m.anchorLow ELSE m.anchorHigh
        structure == StructureAnchor(c, level)
    IN  IF swing > 0 /\ IsAhead(c, EntryOf(m, c), swing) /\ IsAhead(c, swing, structure)
        THEN swing ELSE structure

BaseBuffer(level) ==
    CASE level = "conservative" -> 100 [] level = "standard" -> 30 [] level = "aggressive" -> 25
RegimeStop(regime) == IF regime = "high_quant" THEN 15 ELSE 10
GradeStop(grade) == IF grade = "C(ref)" THEN 15 ELSE 10

\* trap_stop_multiplier in 1/300.
TrapStop(score) ==
    CASE score < 60 -> 300
      [] score >= 60 /\ score < 75 -> 300 + 10 * (score - 60)
      [] score >= 75 /\ score < 85 -> 450 + 9 * (score - 75)
      [] OTHER -> Min({600, 540 + 12 * (score - 85)})

\* base x trap x regime x grade x ATR, at most two ATR.
Buffer(atr, base, trap, regime, grade) ==
    LET chain == (base * RegimeStop(regime) * GradeStop(grade) * TrapStop(trap)) \div 300
    IN  (Min({chain, 20000}) * atr) \div 10000

Target(c, from2, ratio) ==
    LET span2 == AbsDiff(2 * c.a, from2)
    IN  IF c.bullish THEN (1000 * from2 + ratio * span2) \div 2000
                     ELSE (1000 * from2 - ratio * span2) \div 2000
TP1 == 382
TP2 == 618
TP3 == 1272

NoRR == -1
\* Net of fees and slippage on both sides; NoRR when nothing is left to win.
NetRR(entry, stop, target) ==
    LET risk == AbsDiff(entry, stop)
        cost == (3 * entry) \div 1000
        reward == AbsDiff(target, entry) - cost
    IN  IF risk = 0 \/ reward <= 0 THEN NoRR ELSE RoundHalfUp(10000 * reward, risk + cost)
-----------------------------------------------------------------------------
(* The freshness filter. *)

Distant(m, c) == AbsDiff(2 * m.price, TwiceMid(c)) > 6 * m.atr
Degenerate(m, c) == ~c.formed /\ (c.high - c.low <= 0 \/ c.high - c.low > m.atr)
Stale(m, c) == Distant(m, c) \/ c.age > 20 \/ Degenerate(m, c)
\* compute_stop(candidate, atr): no swing, no multiplier, the standard level.
FilterStop(m, c) ==
    Away(c, StructureAnchor(c, "standard"), Buffer(m.atr, BaseBuffer("standard"), 0, "normal", "none"))
Violated(m, c) == IsAhead(c, FilterStop(m, c), m.price)
Completed(m, c) == IsAhead(c, m.price, Target(c, TwiceMid(c), TP2))
\* Mutant: a pattern the price has already broken is let through.
RejectedUnbroken(m, c) == Stale(m, c) \/ Completed(m, c)
Rejected(m, c) == Stale(m, c) \/ Violated(m, c) \/ Completed(m, c)
-----------------------------------------------------------------------------
(* Vetoes. *)

Inauthentic(m, c) == m.authenticity < IF c.formed THEN 25 ELSE 40
TrapScore(c) ==
    Clamp(50 - (CASE c.breaks = "penalty" -> 20 [] c.breaks = "warn" -> 8 [] OTHER -> 0)
             - (IF c.hunts THEN 15 ELSE 0) - (IF c.climax THEN 15 ELSE 0), 10, 90)
Trapped(c) == c.breaks = "veto" \/ c.zoneFailed
Adverse(m, c) == IF c.bullish THEN m.sharpe < -1 ELSE m.sharpe > 1
DirectionOK(c, entry, stop) ==
    LET tp(r) == Target(c, 2 * entry, r)
    IN  /\ IsAhead(c, entry, stop)
        /\ ~IsAhead(c, entry, tp(TP1))
        /\ IsAhead(c, tp(TP2), tp(TP1)) /\ IsAhead(c, tp(TP3), tp(TP2))
-----------------------------------------------------------------------------
(* The confluence score, in half points. *)

Aligned(m, c) == m.trend = IF c.bullish THEN "bullish" ELSE "bearish"
Counter(m, c) == m.trend = IF c.bullish THEN "bearish" ELSE "bullish"

Divergent(divs, name, bullish) == [name |-> name, bullish |-> bullish] \in divs
DivergenceScore(divs, bullish, regular) ==
    CASE Divergent(divs, "Regular", bullish) -> regular
      [] ~Divergent(divs, "Regular", bullish) /\ Divergent(divs, "Hidden", bullish) -> -5
      [] OTHER -> 0

\* The zone of the RSI and, if it scores, its direction over five bars.
RsiZone(o, bullish) ==
    LET zone == IF bullish
                THEN CASE o.rsi <= 30 -> 7 [] o.rsi \in 31 .. 40 -> 5 [] o.rsi \in 41 .. 50 -> 2 [] OTHER -> 0
                ELSE CASE o.rsi >= 70 -> 7 [] o.rsi \in 60 .. 69 -> 5 [] o.rsi \in 50 .. 59 -> 2 [] OTHER -> 0
        confirms == IF bullish THEN o.moving = "up" ELSE o.moving # "up"
        opposed == IF bullish THEN o.rsi >= 60 ELSE o.rsi <= 40
    IN  zone + (IF zone > 0 /\ confirms THEN 3 ELSE 0) - (IF opposed THEN 3 ELSE 0)

MacdZero(o, bullish) == IF (IF bullish THEN o.macd < 0 ELSE o.macd > 0) THEN 8 ELSE -4
Histogram(o, bullish) ==
    IF (IF bullish THEN o.hist > 0 /\ o.hist > o.histPrev ELSE o.hist < 0 /\ o.hist < o.histPrev)
    THEN 5 ELSE 0
DualConfirm(o, bullish) ==
    LET r == Divergent(o.rsiDivs, "Regular", bullish)
        d == Divergent(o.macdDivs, "Regular", bullish)
    IN  IF r /\ d THEN 8 ELSE IF r \/ d THEN 3 ELSE 0

OscillatorScore(o, bullish) ==
    LET rsi == Clamp(DivergenceScore(o.rsiDivs, bullish, 8) + RsiZone(o, bullish), -15, 15)
        macd == Clamp(DivergenceScore(o.macdDivs, bullish, 10), -10, 10)
        funding == 5
    IN  rsi + macd + MacdZero(o, bullish) + DualConfirm(o, bullish) + Histogram(o, bullish) + funding

PriceAction(m, c) ==
    (IF IsReversal(m, c) THEN 15 + (IF m.expansion THEN 10 ELSE 0) ELSE 0)
        * (IF m.authenticity < 40 THEN 1 ELSE 2)
TrendScore(m, c) == IF Aligned(m, c) THEN 50 ELSE IF m.trend = "unknown" THEN 20 ELSE 0
StructureScore(m, c) ==
    LET swing == IF c.bullish THEN m.swingLow ELSE m.swingHigh
    IN  IF 5 * AbsDiff(TwiceMid(c), 2 * swing) <= 3 * m.atr THEN 30 ELSE 0

ConfluenceScore(m, c) ==
    Clamp(PriceAction(m, c) + TrendScore(m, c) + StructureScore(m, c)
            + 2 * OscillatorScore(m.osc, c.bullish) + 2 * c.bump, 0, 200)

Grade(score, rr1, rr2, aligned, counter, aMin, wide) ==
    LET reference == IF score >= 90 THEN "C(ref)" ELSE "none"
    IN  CASE rr1 = NoRR \/ rr2 = NoRR -> "none"
          [] OTHER -> IF wide \/ counter \/ rr1 < 10000 \/ rr2 < 15000 THEN reference
                      ELSE IF score >= 2 * aMin /\ rr2 >= 20000 /\ aligned THEN "A"
                      ELSE IF score >= 120 THEN "B" ELSE reference
-----------------------------------------------------------------------------
(* score_candidate. *)

WidePRZ(c) == 50 * (c.high - c.low) >= TwiceMid(c)
AGradeMin(regime) == IF regime = "high_quant" THEN 85 ELSE 70

FirstStop(k, c) ==
    Away(c, SwingAnchor(k.market, c, k.level), Buffer(k.market.atr, BaseBuffer(k.level), 0, "normal", "none"))
StopFor(k, c, regime, grade) ==
    Away(c, SwingAnchor(k.market, c, k.level),
         Buffer(k.market.atr, IF k.hatch = NoHatch THEN BaseBuffer(k.level) ELSE k.hatch,
                TrapScore(c), regime, grade))

RR(k, c, stop, ratio) ==
    LET entry == EntryOf(k.market, c) IN NetRR(entry, stop, Target(c, 2 * entry, ratio))

\* The grade is given for the first stop, before the multipliers widen it.
GradeOf(k, c) ==
    LET m == k.market stop == FirstStop(k, c)
    IN  Grade(ConfluenceScore(m, c), RR(k, c, stop, TP1), RR(k, c, stop, TP2),
              Aligned(m, c), Counter(m, c), AGradeMin(m.regime), WidePRZ(c))

\* volatility_multiplier and the position multiplier of the regime, in 1/10000.
VolatilityMult(m) == Clamp(RoundHalfUp(250 * m.price, m.atr), 5000, 15000)
PositionMult(m, regime) ==
    IF regime = "high_quant" THEN RoundHalfUp(6 * VolatilityMult(m), 10) ELSE VolatilityMult(m)

SignalFor(k, c) ==
    LET m == k.market
        g == GradeOf(k, c)
        stop == StopFor(k, c, m.regime, g)
        half == ConfluenceScore(m, c)
    IN  [grade |-> g, bullish |-> c.bullish, formed |-> c.formed, candidate |-> c,
         entry |-> EntryOf(m, c), stop |-> stop,
         tp1 |-> Target(c, 2 * EntryOf(m, c), TP1),
         rr1 |-> RR(k, c, stop, TP1), rr2 |-> RR(k, c, stop, TP2),
         \* int(round(score)): halves go to the even neighbour
         score |-> IF half % 2 = 0 THEN half \div 2 ELSE 2 * ((half + 1) \div 4),
         mult |-> PositionMult(m, m.regime), tradable |-> g # "C(ref)"]

Gated(k, c) == Trapped(c) \/ Adverse(k.market, c) \/ ~DirectionOK(c, EntryOf(k.market, c), FirstStop(k, c))

\* The icontract guards of compute_stop and net_rr, in the order they are met.
BadLevels(k, c, stop) ==
    LET entry == EntryOf(k.market, c)
    IN  \E ratio \in {TP1, TP2} : Target(c, 2 * entry, ratio) <= 0 \/ RR(k, c, stop, ratio) = 0
Raises(k, c) ==
    LET m == k.market
        first == FirstStop(k, c)
        grade == GradeOf(k, c)
        final == StopFor(k, c, m.regime, grade)
    IN  \/ ~k.relaxed /\ ~Stale(m, c) /\ FilterStop(m, c) <= 0
        \/ /\ k.relaxed \/ ~Rejected(m, c)
           /\ ~Inauthentic(m, c)
           /\ \/ first <= 0
              \/ /\ ~Gated(k, c)
                 /\ \/ BadLevels(k, c, first)
                    \/ grade # "none" /\ (final <= 0 \/ BadLevels(k, c, final))

Kept(k, c) ==
    /\ k.relaxed \/ ~Rejected(k.market, c)
    /\ ~Inauthentic(k.market, c) /\ ~Gated(k, c) /\ GradeOf(k, c) # "none"
-----------------------------------------------------------------------------
(* build_signal. *)

SignalInit ==
    /\ phase = "idle" /\ call = NoCall /\ tried = 0 /\ scored = <<>> /\ out = None

\* relaxed: the backtests replace rejection_reason by a function that accepts all.
Build(m, level, hatch, relaxed) ==
    /\ phase = "idle"
    /\ call' = [market |-> m, level |-> level, hatch |-> hatch, relaxed |-> relaxed]
    /\ phase' = IF m.atr > 0 THEN "scoring" ELSE "done"
    /\ UNCHANGED <<tried, scored, out>>

ScoreCandidate(c) ==
    /\ phase = "scoring" /\ tried < MaxCandidates
    /\ ~Raises(call, c)
    /\ tried' = tried + 1
    /\ scored' = IF Kept(call, c) THEN Append(scored, SignalFor(call, c)) ELSE scored
    /\ UNCHANGED <<phase, call, out>>

\* A broken contract leaves build_signal as an exception.
ContractViolation(c) ==
    /\ phase = "scoring" /\ tried < MaxCandidates
    /\ Raises(call, c)
    /\ phase' = "raised"
    /\ UNCHANGED <<call, tried, scored, out>>

GradeRank(s) == CASE s.grade = "A" -> 3 [] s.grade = "B" -> 2 [] OTHER -> 0
Outranks(s, t) ==
    \/ GradeRank(s) > GradeRank(t)
    \/ GradeRank(s) = GradeRank(t) /\ s.score > t.score
    \/ GradeRank(s) = GradeRank(t) /\ s.score = t.score /\ s.formed /\ ~t.formed

\* The first signal that no other outranks.
RankSignals(signals) ==
    signals[CHOOSE i \in DOMAIN signals :
        /\ \A j \in DOMAIN signals : ~Outranks(signals[j], signals[i])
        /\ \A j \in 1 .. i - 1 : Outranks(signals[i], signals[j])]

Rank ==
    /\ phase = "scoring"
    /\ out' = IF scored = <<>> THEN None ELSE RankSignals(scored)
    /\ phase' = IF scored # <<>> /\ out'.grade \in {"A", "B"} THEN "ranked" ELSE "done"
    /\ UNCHANGED <<call, tried, scored>>

\* apply_stability without a detector.
Unverified ==
    /\ phase = "ranked"
    /\ phase' = "done"
    /\ UNCHANGED <<call, tried, scored, out>>

\* With one: what the two shifted windows show, nothing at all when it fails.
Verify(sub1, sub2) ==
    /\ phase = "ranked"
    /\ phase' = "done"
    /\ out' = IF sub1 = "nothing" /\ sub2 = "nothing" THEN None ELSE out
    /\ UNCHANGED <<call, tried, scored>>

SignalNext ==
    \/ \E m \in Markets, l \in StopLevels, h \in Hatches, r \in BOOLEAN : Build(m, l, h, r)
    \/ \E c \in Candidates : ScoreCandidate(c) \/ ContractViolation(c)
    \/ Rank
    \/ Unverified
    \/ \E s1, s2 \in {"pattern", "other", "nothing"} : Verify(s1, s2)

SignalSpec == SignalInit /\ [][SignalNext]_sigVars
-----------------------------------------------------------------------------
(* Properties. *)

\* What the live callers ask for: the standard level and no literal buffer.
Standard(k) == k.level = "standard" /\ k.hatch = NoHatch

\* No signal is handed out whose stop the price has already passed.  The filter
\* measures with the structural anchor and no multiplier, the signal with the
\* swing anchor and all of them, and while price approaches the zone the entry is
\* not the price.
StopNotPassed ==
    phase # "idle" /\ ~call.relaxed /\ Standard(call) =>
        \A i \in DOMAIN scored :
            ~IsAhead(scored[i].candidate, scored[i].stop, call.market.price)

\* "1.5R x 0.6 = 0.9R": the wider stop and the smaller position of a high-quant
\* market together never put more at risk on a tradable signal than the same setup
\* in a normal market.
RiskBudget ==
    \A i \in DOMAIN scored :
        LET s == scored[i]
            normal == StopFor(call, s.candidate, "normal", s.grade)
        IN  s.tradable =>
              s.mult * AbsDiff(s.entry, s.stop)
                <= VolatilityMult(call.market) * AbsDiff(s.entry, normal)

\* A reference zone is answered only when no candidate gave a tradable signal,
\* whatever the scores.
ReferenceIsLastResort ==
    phase = "done" /\ out.grade = "C(ref)" => \A i \in DOMAIN scored : ~scored[i].tradable

\* Long and short are scored alike: a market turned upside down gives a bearish
\* pattern the oscillator points the bullish one had, provided the RSI moves.
Upturned(o) ==
    [rsi |-> 100 - o.rsi, moving |-> IF o.moving = "up" THEN "down" ELSE "up",
     rsiDivs |-> {[d EXCEPT !.bullish = ~d.bullish] : d \in o.rsiDivs},
     macdDivs |-> {[d EXCEPT !.bullish = ~d.bullish] : d \in o.macdDivs},
     macd |-> -o.macd, hist |-> -o.hist, histPrev |-> -o.histPrev]
MirrorScore ==
    phase # "idle" =>
        LET o == call.market.osc
        IN  o.moving # "flat" => OscillatorScore(o, TRUE) = OscillatorScore(Upturned(o), FALSE)

\* Claim of grade's docstring: without 1.0 R at TP1 and 1.5 R at TP2 a signal is
\* for observation only.
GatesKept ==
    \A i \in DOMAIN scored : scored[i].tradable => scored[i].rr1 >= 10000 /\ scored[i].rr2 >= 15000
=============================================================================
