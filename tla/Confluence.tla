----------------------------- MODULE Confluence -----------------------------
(***************************************************************************)
(* The scores of CALL and PUT: ConfluenceService.evaluate                  *)
(* (app/services/confluence_service.py) adds up the readings one after the *)
(* other, and SignalService.choose (app/services/signal_service.py) makes  *)
(* a direction of them.                                                    *)
(*                                                                         *)
(* A reading is reduced to the signs and comparisons that evaluate makes.  *)
(* Those of an ADX come from the signs of the last three spreads, as       *)
(* calculate_adx (app/indicators/adx.py) derives them.  Any combination of *)
(* readings may appear.  The scores of their mirror image, in which buyers *)
(* and sellers change places, are added up beside them: a history.  It is  *)
(* about readings and not about markets, because calculate_supertrend      *)
(* begins with an upward trend whatever the market (supertrend.py:11).     *)
(***************************************************************************)
EXTENDS Integers, FiniteSets, Sequences

CONSTANTS Minimum,    \* values of cfg.min_signal_score
          Difference  \* settings.min_direction_score_difference

ASSUME ConfluenceAssumption ==
    /\ Minimum \subseteq Nat
    /\ Difference \in Nat

VARIABLES
    scored,   \* how many of the readings are in the score
    score,    \* call_score and put_score
    mirror,   \* history: those of the mirror image
    buyers,   \* history: how many spreads were positive
    flats,    \* history: how many were neither positive nor negative
    minimum   \* cfg.min_signal_score

scoreVars == <<scored, score, mirror, buyers, flats, minimum>>

-----------------------------------------------------------------------------
\* Readings

\* The signs of the last three spreads.  "none" is one without a value, as long
\* as the candles were flat from the first on; it counts as zero in the last row
\* and as nothing where the next row is compared with it.
Sign  == {"up", "down", "zero", "none"}
Trail == {t \in Sign \X Sign \X Sign : \A i \in {2, 3} : t[i] = "none" => t[i - 1] = "none"}

Spread(trail) == trail[3]

Crosses(trail) ==
    CASE Spread(trail) = "up"   /\ trail[2] \in {"down", "zero"} -> "up"
      [] Spread(trail) = "down" /\ trail[2] \in {"up", "zero"}   -> "down"
      [] OTHER -> "no"

Persistence(trail) ==
    Cardinality({i \in 1..3 : trail[i] = "up"}) - Cardinality({i \in 1..3 : trail[i] = "down"})

\* What grows: the absolute spread, the ADX, its slope.  They are compared with
\* one or two rows before; a spread of zero has a dx of zero, which raises neither
\* of the first two.
Growing == {"expansion", "slope", "acceleration"}
Adx == {a \in [trail : Trail, growing : SUBSET Growing] :
            /\ Spread(a.trail) = "zero" => a.growing \subseteq {"acceleration"}
            /\ a.trail[2] = "none" => a.growing = {}
            /\ a.trail[1] = "none" => "acceleration" \notin a.growing}

Bollinger == {"contraction", "up", "down", "neutral"}
Momentum  == [sign : {"up", "down", "zero"}, slope : {"up", "down", "zero"}]
Trend     == {"up", "down"}
Structure == SUBSET {"higher low", "break high", "lower high", "break low"}

\* The same reading in the mirror image.
Flip(s) == CASE s = "up" -> "down" [] s = "down" -> "up" [] OTHER -> s
FlipAdx(a) == [a EXCEPT !.trail = <<Flip(a.trail[1]), Flip(a.trail[2]), Flip(a.trail[3])>>]
FlipMomentum(m) == [sign |-> Flip(m.sign), slope |-> Flip(m.slope)]
FlipStructure(s) ==
    {CASE x = "higher low" -> "lower high" [] x = "lower high" -> "higher low"
       [] x = "break high" -> "break low"  [] x = "break low" -> "break high" : x \in s}

-----------------------------------------------------------------------------
\* Points

Bit(b) == IF b THEN 1 ELSE 0
Points(call, put) == [call |-> call, put |-> put]
Plus(a, b) == Points(a.call + b.call, a.put + b.put)

Weight == <<1, 2, 2>>   \* adx_fast, adx_mid, adx_slow

\* Mutant: a spread of zero goes to the buyers.
DominantOrZero(trail) == IF Spread(trail) = "down" THEN "down" ELSE "up"

Dominant(trail) == IF Spread(trail) = "up" THEN "up" ELSE "down"

AdxPoints(a, weight) ==
    LET side   == Dominant(a.trail)
        points == weight
                  + 2 * Bit(Crosses(a.trail) = side)
                  + 2 * Bit("expansion" \in a.growing)
                  + Cardinality(a.growing \ {"expansion"})
                  + Bit(Persistence(a.trail) \in {-3, -2, 2, 3})
    IN  IF side = "up" THEN Points(points, 0) ELSE Points(0, points)

BollingerPoints(b) ==
    CASE b = "contraction" -> Points(-3, -3)
      [] b = "up"          -> Points(3, 0)
      [] b = "down"        -> Points(0, 3)
      [] b = "neutral"     -> Points(0, 0)

MomentumPoints(m) ==
    CASE m.sign = "up"   -> Points(1 + Bit(m.slope = "up"), -2)
      [] m.sign = "down" -> Points(-2, 1 + Bit(m.slope = "down"))
      [] m.sign = "zero" -> Points(0, 0)

TrendPoints(t) == Points(Bit(t = "up"), Bit(t = "down"))

\* Mutant: a break is worth more than the trend's readings.
StructurePointsHeavy(s) ==
    Points(Bit("higher low" \in s) + 8 * Bit("break high" \in s),
           Bit("lower high" \in s) + 8 * Bit("break low" \in s))

StructurePoints(s) ==
    Points(Bit("higher low" \in s) + 2 * Bit("break high" \in s),
           Bit("lower high" \in s) + 2 * Bit("break low" \in s))

\* Mutant: the scores are not cut off at zero.
ClosedBelowZero(p) == Points(p.call - 1, p.put - 1)

\* The last row of the zigzag is always provisional; no score is negative.
Closed(p) ==
    LET AtLeast0(n) == IF n < 0 THEN 0 ELSE n
    IN  Points(AtLeast0(p.call - 1), AtLeast0(p.put - 1))

-----------------------------------------------------------------------------
Last == 8

ScoreInit ==
    /\ scored = 0
    /\ score = Points(0, 0) /\ mirror = Points(0, 0)
    /\ buyers = 0 /\ flats = 0
    /\ minimum \in Minimum

Scores(points, mirrored) ==
    /\ scored' = scored + 1
    /\ score' = Plus(score, points)
    /\ mirror' = Plus(mirror, mirrored)
    /\ UNCHANGED minimum

ScoresAdx(a) ==
    /\ scored < 3
    /\ LET w == Weight[scored + 1] IN Scores(AdxPoints(a, w), AdxPoints(FlipAdx(a), w))
    /\ buyers' = buyers + Bit(Spread(a.trail) = "up")
    /\ flats' = flats + Bit(Spread(a.trail) \in {"zero", "none"})

ScoresBollinger(b) ==
    /\ scored = 3
    /\ Scores(BollingerPoints(b), BollingerPoints(Flip(b)))
    /\ UNCHANGED <<buyers, flats>>

ScoresMomentum(m) ==
    /\ scored = 4
    /\ Scores(MomentumPoints(m), MomentumPoints(FlipMomentum(m)))
    /\ UNCHANGED <<buyers, flats>>

ScoresTrend(t) ==
    /\ scored = 5
    /\ Scores(TrendPoints(t), TrendPoints(Flip(t)))
    /\ UNCHANGED <<buyers, flats>>

ScoresStructure(s) ==
    /\ scored = 6
    /\ Scores(StructurePoints(s), StructurePoints(FlipStructure(s)))
    /\ UNCHANGED <<buyers, flats>>

Closes ==
    /\ scored = 7
    /\ scored' = Last
    /\ score' = Closed(score) /\ mirror' = Closed(mirror)
    /\ UNCHANGED <<buyers, flats, minimum>>

ScoreNext ==
    \/ \E a \in Adx : ScoresAdx(a)
    \/ \E b \in Bollinger : ScoresBollinger(b)
    \/ \E m \in Momentum : ScoresMomentum(m)
    \/ \E t \in Trend : ScoresTrend(t)
    \/ \E s \in Structure : ScoresStructure(s)
    \/ Closes

ScoreSpec == ScoreInit /\ [][ScoreNext]_scoreVars

-----------------------------------------------------------------------------
\* Mutant: the difference is not asked for.
ChooseHigher(p) ==
    LET best == IF p.call > p.put THEN p.call ELSE p.put
    IN  IF best < minimum THEN "none" ELSE IF p.call > p.put THEN "CALL" ELSE "PUT"

\* SignalService.choose
Choose(p) ==
    LET best == IF p.call > p.put THEN p.call ELSE p.put
    IN  IF p.call - p.put \in (1 - Difference)..(Difference - 1) \/ best < minimum
        THEN "none"
        ELSE IF p.call > p.put THEN "CALL" ELSE "PUT"

-----------------------------------------------------------------------------
\* The types; the final scores are not negative (confluence_service.py:47).
ScoreTypeOK ==
    /\ scored \in 0..Last
    /\ score \in [call : Int, put : Int] /\ mirror \in [call : Int, put : Int]
    /\ scored = Last => score.call >= 0 /\ score.put >= 0
    /\ buyers \in 0..3 /\ flats \in 0..3 /\ buyers + flats <= 3
    /\ minimum \in Minimum

\* CALL and PUT are scored by the same rules: the mirror image has the scores
\* the other way round.  Only a spread of zero breaks the symmetry, always in
\* favour of PUT (confluence_service.py:19-44).
MirrorImage ==
    scored = Last =>
        /\ mirror.put >= score.call /\ score.put >= mirror.call
        /\ flats = 0 => mirror.put = score.call /\ mirror.call = score.put

\* No readings are so ambiguous that they and their mirror image give one signal:
\* a difference that is asked for rules it out where no spread is zero, and a
\* minimum as high as that of the conservative profile everywhere
\* (signal_service.py:10-15).  With the minimum of the other profiles a spread of
\* zero can make it PUT and PUT.
MirrorIsNoSignalToo ==
    /\ scored = Last
    /\ (flats = 0 /\ Difference > 0) \/ minimum >= 18
    /\ Choose(score) = Choose(mirror)
    => Choose(score) = "none"

\* The readings other than the ADX are worth 8 points, and each ADX that shows
\* buyers at most 9: a minimum of 9 or more makes no CALL without buyers, and that
\* of the conservative profile, 18, none with a single one
\* (confluence_service.py:21-46, engine_manager.py:81).
CallNeedsBuyers ==
    scored = Last /\ Choose(score) = "CALL" => minimum <= 8 + 9 * buyers

=============================================================================
