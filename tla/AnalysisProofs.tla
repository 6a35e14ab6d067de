--------------------------- MODULE AnalysisProofs ---------------------------
(***************************************************************************)
(* Theorems about the two stages of an analysis: SwingStructure, for every *)
(* set of prices, size of the window, depth, backstep and deviation, and   *)
(* Confluence, for every minimum and difference.                           *)
(***************************************************************************)
EXTENDS SwingStructure, Confluence, FiniteSetTheorems, WellFoundedInduction, TLAPS

-----------------------------------------------------------------------------
\* Of two numbers Max and Min are the higher and the lower.
LEMMA TwoNumbers ==
    ASSUME NEW a \in Int, NEW b \in Int
    PROVE  /\ Max({a, b}) \in {a, b} /\ Max({a, b}) >= a /\ Max({a, b}) >= b
           /\ Min({a, b}) \in {a, b} /\ Min({a, b}) <= a /\ Min({a, b}) <= b
<1>1. \E x \in {a, b} : \A y \in {a, b} : x >= y
  OBVIOUS
<1>2. \E x \in {a, b} : \A y \in {a, b} : x <= y
  OBVIOUS
<1>3. Max({a, b}) \in {a, b} /\ \A y \in {a, b} : Max({a, b}) >= y
  BY <1>1, Zenon DEF Max
<1>4. Min({a, b}) \in {a, b} /\ \A y \in {a, b} : Min({a, b}) <= y
  BY <1>2, Zenon DEF Min
<1> QED
  BY <1>3, <1>4

\* Each step keeps the types: the high and the low of the newest candle follow
\* its close.
LEMMA TypesStay ==
    ASSUME TypeOK, [Next]_vars
    PROVE  TypeOK'
<1> USE SwingAssumption DEF TypeOK
<1>1. CASE Moves
  <2> DEFINE n == Len(frame)
             c == frame[n]
             d == [high |-> Max({c.high, close'}), low |-> Min({c.low, close'})]
  <2>1. n \in 1..Count /\ n \in DOMAIN frame
    OBVIOUS
  <2>2. c \in Candle
    BY <2>1
  <2>3. close' \in Price /\ frame' = [frame EXCEPT ![n] = d] /\ dropped' = 0
    BY <1>1 DEF Moves
  <2>4. /\ c.high \in Price /\ c.low \in Price /\ c.low <= c.high
        /\ c.high \in Int /\ c.low \in Int /\ close' \in Int
    <3> HIDE DEF c
    <3>1. c \in [high : Price, low : Price] /\ c.low <= c.high
      BY <2>2 DEF Candle
    <3>2. Price \subseteq Int
      OBVIOUS
    <3> QED
      BY <2>3, <3>1, <3>2
  <2>5. /\ d.high \in {c.high, close'} /\ d.high >= c.high /\ d.high >= close'
        /\ d.low \in {c.low, close'} /\ d.low <= c.low /\ d.low <= close'
    BY <2>4, TwoNumbers
  <2>6. d \in Candle
    <3>1. d.high \in Price /\ d.low \in Price /\ d.low <= d.high
      BY <2>3, <2>4, <2>5
    <3> QED
      BY <3>1 DEF Candle
  <2>7. frame' \in Seq(Candle) /\ Len(frame') = n /\ frame'[n] = d
    <3> HIDE DEF d
    <3> QED
      BY <2>1, <2>3, <2>6
  <2>8. close' \in d.low..d.high
    BY <2>3, <2>4, <2>5
  <2> HIDE DEF d
  <2> QED
    BY <2>1, <2>3, <2>7, <2>8
<1>2. CASE Begins
  <2> DEFINE c == [high |-> close', low |-> close']
             all == Append(frame, c)
  <2>1. close' \in Price /\ close' \in Int /\ c \in Candle
    BY <1>2 DEF Begins, Candle
  <2>2. all \in Seq(Candle) /\ Len(all) = Len(frame) + 1 /\ all[Len(all)] = c
    BY <2>1
  <2>3. CASE Len(frame) < Count
    <3>1. frame' = all /\ dropped' = 0
      BY <1>2, <2>3 DEF Begins
    <3> HIDE DEF all
    <3> QED
      BY <2>1, <2>2, <2>3, <3>1
  <2>4. CASE ~(Len(frame) < Count)
    <3>1. frame' = Tail(all) /\ dropped' = 1
      BY <1>2, <2>4 DEF Begins
    <3> HIDE DEF all
    <3>2. Len(frame) = Count
      BY <2>4
    <3>3. frame' \in Seq(Candle) /\ Len(frame') = Count /\ frame'[Count] = all[Count + 1]
      BY <2>2, <3>1, <3>2
    <3> QED
      BY <2>1, <2>2, <3>1, <3>2, <3>3
  <2> QED
    BY <2>3, <2>4
<1>3. CASE UNCHANGED vars
  BY <1>3 DEF vars
<1> QED
  BY <1>1, <1>2, <1>3 DEF Next

\* The types of SwingStructure hold, and the close of the newest candle lies
\* between its low and its high whatever the prices do (market_data_service.py
\* hands the candles on as they are, zigzag.py:6 reads high and low).
THEOREM SwingTypes == Spec => []TypeOK
<1>1. Init => TypeOK
  <2> SUFFICES ASSUME Init PROVE TypeOK
    OBVIOUS
  <2>1. PICK c \in Candle : frame = <<c>>
    BY DEF Init
  <2>2. frame \in Seq(Candle) /\ Len(frame) = 1 /\ 1 \in 1..Count
    BY <2>1, SwingAssumption
  <2>3. /\ close \in Price /\ close \in frame[1].low..frame[1].high
        /\ dropped = 0
    BY DEF Init
  <2> QED
    BY <2>2, <2>3 DEF TypeOK
<1>2. TypeOK /\ [Next]_vars => TypeOK'
  BY TypesStay
<1> QED
  BY <1>1, <1>2, PTL DEF Spec

-----------------------------------------------------------------------------
\* Every candle but the newest keeps its values, and moves down by one place
\* when the oldest leaves.
LEMMA OldCandlesStay ==
    ASSUME TypeOK, Next
    PROVE  /\ dropped' \in {0, 1}
           /\ Len(frame') >= Len(frame)
           /\ \A j \in 1..(Len(frame) - 1) :
                 j - dropped' >= 1 => frame'[j - dropped'] = frame[j]
<1> USE DEF TypeOK
<1>1. CASE Moves
  <2>1. /\ Len(frame') = Len(frame) /\ dropped' = 0
        /\ \A j \in 1..(Len(frame) - 1) : frame'[j] = frame[j]
    BY <1>1 DEF Moves
  <2> QED
    BY <2>1
<1>2. CASE Begins
  <2> DEFINE all == Append(frame, [high |-> close', low |-> close'])
  <2>1. /\ Len(all) = Len(frame) + 1
        /\ \A j \in 1..Len(frame) : all[j] = frame[j]
    OBVIOUS
  <2>2. \/ frame' = all /\ dropped' = 0
        \/ frame' = Tail(all) /\ dropped' = 1
    BY <1>2 DEF Begins
  <2>3. /\ Len(Tail(all)) = Len(frame)
        /\ \A j \in 1..Len(frame) : Tail(all)[j] = all[j + 1]
    OBVIOUS
  <2> HIDE DEF all
  <2>4. CASE frame' = all /\ dropped' = 0
    BY <2>1, <2>4
  <2>5. CASE frame' = Tail(all) /\ dropped' = 1
    BY <2>1, <2>3, <2>5
  <2> QED
    BY <2>2, <2>4, <2>5
<1> QED
  BY <1>1, <1>2 DEF Next

\* What is said of a candle depends on the candles of its window alone, and none
\* of these is the newest.
LEMMA WindowStays ==
    ASSUME TypeOK, TypeOK', Len(frame') >= Len(frame),
           NEW i \in LookedAt, NEW d \in {0, 1}, i - d > Depth,
           \A j \in 1..(Len(frame) - 1) : j - d >= 1 => frame'[j - d] = frame[j]
    PROVE  Pivot(i - d)' = Pivot(i)
<1> USE SwingAssumption
<1>1. i \in Int /\ i - Depth >= 1 /\ i <= Len(frame) - Backstep /\ Len(frame) \in Nat
  BY DEF LookedAt, TypeOK
<1>2. PICK n \in Nat : n = Len(frame')
  BY DEF TypeOK
<1>3. n >= Len(frame)
  BY <1>2
<1>4. \A j \in Window(i) : frame'[j - d] = frame[j]
  <2>1. ASSUME NEW j \in Window(i)
        PROVE  j \in 1..(Len(frame) - 1) /\ j - d >= 1
    BY <1>1, <1>3, <2>1 DEF Window
  <2> QED
    BY <2>1
<1>5. /\ \A j \in Window(i - d) : j + d \in Window(i) /\ (j + d) - d = j
      /\ \A j \in Window(i) : j - d \in Window(i - d)
  BY <1>1 DEF Window
<1>6. {frame'[j].high : j \in Window(i - d)} = {frame[j].high : j \in Window(i)}
  BY <1>4, <1>5
<1>7. {frame'[j].low : j \in Window(i - d)} = {frame[j].low : j \in Window(i)}
  BY <1>4, <1>5
<1>8. Highest(i - d)' = Highest(i) /\ Lowest(i - d)' = Lowest(i) /\ frame'[i - d] = frame[i]
  <2>1. i \in Window(i)
    BY <1>1 DEF Window
  <2> QED
    BY <1>4, <1>6, <1>7, <2>1 DEF Highest, Lowest
<1>9. IsHigh(i - d)' = IsHigh(i) /\ IsLow(i - d)' = IsLow(i)
  BY <1>8 DEF IsHigh, IsLow
<1>10. i - d \in LookedAt'
  <2>1. i - d \in (Depth + 1)..(n - Backstep)
    BY <1>1, <1>3
  <2> QED
    BY <1>2, <2>1 DEF LookedAt
<1> QED
  BY <1>9, <1>10 DEF Pivot

\* For any window, depth, backstep and deviation, a pivot that calculate_zigzag
\* reported stays one, and a candle it looked at becomes none later, as long as
\* the candles it was compared with are in the window (zigzag.py:9-14).
THEOREM PivotsStayPut == Spec => PivotsStay
<1>1. ASSUME TypeOK, [Next]_vars
      PROVE  [\A i \in DOMAIN frame, k \in 1..Count :
                 /\ k = i - dropped' /\ k > Depth
                 /\ Pivot(i) # "none" \/ i \in LookedAt
                 => Pivot(k)' = Pivot(i)]_vars
  <2> SUFFICES ASSUME Next,
                      NEW i \in DOMAIN frame, NEW k \in 1..Count,
                      k = i - dropped', k > Depth, Pivot(i) # "none" \/ i \in LookedAt
               PROVE  Pivot(k)' = Pivot(i)
    BY <1>1
  <2>1. i \in LookedAt
    BY DEF Pivot
  <2>2. PICK d \in {0, 1} :
          /\ d = dropped'
          /\ \A j \in 1..(Len(frame) - 1) : j - d >= 1 => frame'[j - d] = frame[j]
    BY <1>1, OldCandlesStay
  <2>3. k = i - d /\ i - d > Depth
    BY <2>2
  <2>4. Pivot(i - d)' = Pivot(i)
    BY <1>1, <2>1, <2>2, <2>3, TypesStay, OldCandlesStay, WindowStays
  <2> QED
    BY <2>3, <2>4
<1> QED
  BY <1>1, SwingTypes, PTL DEF Spec, PivotsStay

-----------------------------------------------------------------------------
\* A set of positions that is not empty has a last one.
LEMMA LastPosition ==
    ASSUME NEW n \in Nat, NEW T \in SUBSET (1..n), T # {}
    PROVE  Max(T) \in T
<1> DEFINE D == {n - x : x \in T}
<1>1. D \subseteq Nat /\ D # {}
  <2>1. \A x \in T : x \in Int /\ n - x \in Nat
    OBVIOUS
  <2> QED
    BY <2>1
<1>2. PICK d \in D : \A e \in D : ~(<<e, d>> \in OpToRel(<, Nat))
  BY <1>1, NatLessThanWellFounded, WFMin
<1>3. \A e \in D : ~(e < d)
  BY <1>1, <1>2 DEF OpToRel
<1>4. PICK x \in T : d = n - x
  BY <1>2
<1>5. \A y \in T : x >= y
  <2>1. ASSUME NEW y \in T
        PROVE  x >= y
    <3>1. x \in Int /\ y \in Int
      OBVIOUS
    <3>2. ~(n - y < n - x)
      BY <1>3, <1>4
    <3> QED
      BY <3>1, <3>2
  <2> QED
    BY <2>1
<1> QED
  BY <1>4, <1>5, Zenon DEF Max

\* A set of at least two positions has one before its last.
LEMMA LastButOne ==
    ASSUME NEW n \in Nat, NEW T \in SUBSET (1..n), Cardinality(T) >= 2
    PROVE  Max(T) \in T /\ Max(T \ {Max(T)}) \in T
<1>1. T # {}
  BY FS_EmptySet
<1>2. Max(T) \in T
  BY <1>1, LastPosition
<1>3. T # {Max(T)}
  <2>1. Cardinality({Max(T)}) = 1
    BY FS_Singleton
  <2> QED
    BY <2>1
<1>4. T \ {Max(T)} # {} /\ T \ {Max(T)} \in SUBSET (1..n)
  BY <1>2, <1>3
<1>5. Max(T \ {Max(T)}) \in T \ {Max(T)}
  BY <1>4, LastPosition
<1> QED
  BY <1>2, <1>5

\* The pivots stay where they are while the newest candle moves, and none of
\* them is this candle.
LEMMA PivotsWait ==
    ASSUME TypeOK, Moves, NEW kind \in {"high", "low"}
    PROVE  /\ Pivots(kind)' = Pivots(kind)
           /\ Pivots(kind) \in SUBSET (1..(Len(frame) - 1))
           /\ \A i \in 1..(Len(frame) - 1) : frame'[i] = frame[i]
<1>1. Len(frame) \in Nat /\ DOMAIN frame = 1..Len(frame)
  BY DEF TypeOK
<1>2. /\ Len(frame') = Len(frame) /\ DOMAIN frame' = DOMAIN frame
      /\ \A i \in 1..(Len(frame) - 1) : frame'[i] = frame[i]
  BY DEF TypeOK, Moves
<1>3. LookedAt' = LookedAt /\ LookedAt \subseteq 1..(Len(frame) - 1)
  BY <1>1, <1>2, SwingAssumption DEF LookedAt
<1>4. \A i \in LookedAt : Pivot(i)' = Pivot(i)
  <2>1. TypeOK'
    BY TypesStay DEF Next
  <2>2. ASSUME NEW i \in LookedAt
        PROVE  Pivot(i)' = Pivot(i)
    <3>1. i \in Int /\ i > Depth /\ i - 0 = i /\ Len(frame') >= Len(frame)
      BY <1>1, <1>2, <1>3, <2>2, SwingAssumption DEF LookedAt
    <3>2. \A j \in 1..(Len(frame) - 1) : j - 0 >= 1 => frame'[j - 0] = frame[j]
      BY <1>1, <1>2
    <3>3. Pivot(i - 0)' = Pivot(i)
      BY <2>1, <2>2, <3>1, <3>2, WindowStays
    <3> QED
      BY <3>1, <3>3
  <2> QED
    BY <2>2
<1>5. \A i : i \notin LookedAt => Pivot(i)' = "none" /\ Pivot(i) = "none"
  BY <1>3 DEF Pivot
<1>6. Pivots(kind)' = Pivots(kind)
  BY <1>2, <1>4, <1>5 DEF Pivots
<1>7. Pivots(kind) \subseteq LookedAt
  BY <1>5 DEF Pivots
<1> QED
  BY <1>2, <1>3, <1>6, <1>7

\* For any window, depth, backstep and deviation, while the newest candle moves
\* higher_low, lower_high and the pivot of the signature stay as they are, and a
\* break begins only with a close that moved its way (market_structure.py:5-19).
THEOREM StructureWaitsForCandles == Spec => StructureWaits
<1>1. ASSUME TypeOK, [Next]_vars
      PROVE  [Moves => /\ HigherLow' <=> HigherLow
                       /\ LowerHigh' <=> LowerHigh
                       /\ LastPivot' = LastPivot
                       /\ BreakHigh' /\ ~BreakHigh => close' > close
                       /\ BreakLow' /\ ~BreakLow => close' < close]_vars
  <2> SUFFICES ASSUME Moves
               PROVE  /\ HigherLow' <=> HigherLow
                      /\ LowerHigh' <=> LowerHigh
                      /\ LastPivot' = LastPivot
                      /\ BreakHigh' /\ ~BreakHigh => close' > close
                      /\ BreakLow' /\ ~BreakLow => close' < close
    OBVIOUS
  <2> DEFINE n == Len(frame) - 1
             high == Pivots("high")
             low == Pivots("low")
  <2>1. /\ Pivots("high")' = high /\ high \in SUBSET (1..n)
        /\ Pivots("low")' = low /\ low \in SUBSET (1..n)
        /\ \A i \in 1..n : frame'[i] = frame[i]
    BY <1>1, PivotsWait
  <2>2. n \in Nat
    BY <1>1 DEF TypeOK
  <2>3. close \in Int /\ close' \in Int
    BY <1>1, TypesStay, SwingAssumption DEF TypeOK
  <2>4. \A i \in 1..n : frame[i].high \in Int /\ frame[i].low \in Int
    <3>1. \A i \in 1..n : frame[i] \in Candle
      BY <1>1 DEF TypeOK
    <3>2. \A c \in Candle : c.high \in Price /\ c.low \in Price
      BY DEF Candle
    <3>3. Price \subseteq Int
      BY SwingAssumption
    <3> QED
      BY <3>1, <3>2, <3>3
  <2> HIDE DEF n
  <2>5. HigherLow' <=> HigherLow
    <3>1. Cardinality(low) >= 2 => Max(low) \in low /\ Max(low \ {Max(low)}) \in low
      BY <2>1, <2>2, LastButOne
    <3> QED
      BY <2>1, <3>1 DEF HigherLow, LastTwo
  <2>6. LowerHigh' <=> LowerHigh
    <3>1. Cardinality(high) >= 2 => Max(high) \in high /\ Max(high \ {Max(high)}) \in high
      BY <2>1, <2>2, LastButOne
    <3> QED
      BY <2>1, <3>1 DEF LowerHigh, LastTwo
  <2>7. LastPivot' = LastPivot
    BY <2>1 DEF LastPivot
  <2>8. BreakHigh' /\ ~BreakHigh => close' > close
    <3>1. high # {} => Max(high) \in 1..n /\ LastHigh' = LastHigh /\ LastHigh \in Int
      BY <2>1, <2>2, <2>4, LastPosition DEF LastHigh
    <3> QED
      BY <2>1, <2>3, <3>1 DEF BreakHigh
  <2>9. BreakLow' /\ ~BreakLow => close' < close
    <3>1. low # {} => Max(low) \in 1..n /\ LastLow' = LastLow /\ LastLow \in Int
      BY <2>1, <2>2, <2>4, LastPosition DEF LastLow
    <3> QED
      BY <2>1, <2>3, <3>1 DEF BreakLow
  <2> QED
    BY <2>5, <2>6, <2>7, <2>8, <2>9
<1> QED
  BY <1>1, SwingTypes, PTL DEF Spec, StructureWaits

-----------------------------------------------------------------------------
\* At most this much is in the two put_scores together once n readings are in,
\* and in call_score besides 9 points for each ADX that shows buyers.
MostPuts  == <<0, 8, 17, 26, 29, 29, 30, 36>>
MostOther == <<0, 0, 0, 0, 3, 5, 6, 9>>

\* Each ADX that was read shows at most one of the two.
CountInv == buyers + flats <= scored

\* The mirror image has the scores the other way round, with PUT at least as high.
PairInv ==
    /\ mirror.put >= score.call /\ score.put >= mirror.call
    /\ flats = 0 => mirror.put = score.call /\ mirror.call = score.put

\* The two scores of PUT have at most MostPuts together; the last point is taken
\* from each unless it has none.
PutsInv ==
    IF scored < Last
    THEN score.put + mirror.put <= MostPuts[scored + 1]
    ELSE score.put + mirror.put <= 34 \/ score.put = 0 \/ mirror.put = 0

\* No more than 9 points come to CALL from each ADX that shows buyers.
CallsInv ==
    score.call <= 9 * buyers + IF scored < Last THEN MostOther[scored + 1] ELSE 8

ScoreInv == ScoreTypeOK /\ CountInv /\ PairInv /\ PutsInv /\ CallsInv

-----------------------------------------------------------------------------
\* Of the ADX and its slope none, one or both may grow.
LEMMA GrowingPoints ==
    ASSUME NEW growing \in SUBSET Growing
    PROVE  Cardinality(growing \ {"expansion"}) \in 0..2
<1> DEFINE g == growing \ {"expansion"}
<1>1. g \in SUBSET {"slope", "acceleration"}
  BY DEF Growing
<1>2. /\ IsFiniteSet({"slope", "acceleration"})
      /\ Cardinality({"slope", "acceleration"}) = 2
  <2>1. IsFiniteSet({"slope"}) /\ Cardinality({"slope"}) = 1
    BY FS_Singleton
  <2>2. {"slope"} \union {"acceleration"} = {"slope", "acceleration"}
    OBVIOUS
  <2> QED
    BY <2>1, <2>2, FS_AddElement
<1>3. IsFiniteSet(g) /\ Cardinality(g) <= 2
  BY <1>1, <1>2, FS_Subset
<1>4. Cardinality(g) \in Nat
  BY <1>3, FS_CardinalityType
<1> QED
  BY <1>3, <1>4

\* In the mirror image a trail persists the other way.
LEMMA FlippedPersistence ==
    ASSUME NEW t \in Trail
    PROVE  LET u == <<Flip(t[1]), Flip(t[2]), Flip(t[3])>>
           IN  Persistence(u) = -Persistence(t) /\ Persistence(t) \in Int
<1> DEFINE u == <<Flip(t[1]), Flip(t[2]), Flip(t[3])>>
           Rows(s, sign) == {i \in 1..3 : s[i] = sign}
<1>1. \A i \in 1..3 : t[i] \in Sign /\ u[i] = Flip(t[i])
  BY DEF Trail
<1>2. \A s \in Sign : /\ Flip(s) = "up" <=> s = "down"
                      /\ Flip(s) = "down" <=> s = "up"
  BY DEF Flip, Sign
<1>3. Rows(u, "up") = Rows(t, "down") /\ Rows(u, "down") = Rows(t, "up")
  BY <1>1, <1>2
<1>4. Cardinality(Rows(t, "up")) \in Nat /\ Cardinality(Rows(t, "down")) \in Nat
  <2>1. IsFiniteSet(1..3)
    <3>1. 1 \in Int /\ 3 \in Int
      OBVIOUS
    <3> QED
      BY <3>1, FS_Interval
  <2>2. Rows(t, "up") \in SUBSET (1..3) /\ Rows(t, "down") \in SUBSET (1..3)
    OBVIOUS
  <2> QED
    BY <2>1, <2>2, FS_Subset, FS_CardinalityType
<1> HIDE DEF Rows
<1>5. /\ Persistence(u) = Cardinality(Rows(u, "up")) - Cardinality(Rows(u, "down"))
      /\ Persistence(t) = Cardinality(Rows(t, "up")) - Cardinality(Rows(t, "down"))
  BY DEF Persistence, Rows
<1> QED
  BY <1>3, <1>4, <1>5

\* An ADX gives at most 7 points beside its weight, all to the side it shows, and
\* its mirror image gives as many to the other side; a spread of zero gives both
\* times to PUT, but at most 2 beside the weight.
LEMMA AdxFacts ==
    ASSUME NEW a \in Adx, NEW w \in {1, 2}
    PROVE  \E n \in 0..(w + 7) :
             \/ /\ Spread(a.trail) = "up"
                /\ AdxPoints(a, w) = Points(n, 0) /\ AdxPoints(FlipAdx(a), w) = Points(0, n)
             \/ /\ Spread(a.trail) = "down"
                /\ AdxPoints(a, w) = Points(0, n) /\ AdxPoints(FlipAdx(a), w) = Points(n, 0)
             \/ /\ Spread(a.trail) \in {"zero", "none"}
                /\ AdxPoints(a, w) = Points(0, n) /\ AdxPoints(FlipAdx(a), w) = Points(0, n)
                /\ n <= w + 2
<1> DEFINE t == a.trail
           u == <<Flip(t[1]), Flip(t[2]), Flip(t[3])>>
           b == FlipAdx(a)
           grow == Cardinality(a.growing \ {"expansion"})
           expand == Bit("expansion" \in a.growing)
           persist == Bit(Persistence(t) \in {-3, -2, 2, 3})
           cross == Bit(Crosses(t) = Dominant(t))
           crossed == Bit(Crosses(u) = Dominant(u))
           n == w + 2 * cross + 2 * expand + grow + persist
<1>1. /\ t \in Trail /\ a.growing \in SUBSET Growing
      /\ t[1] \in Sign /\ t[2] \in Sign /\ t[3] \in Sign
      /\ t[3] = "zero" => a.growing \subseteq {"acceleration"}
      /\ t[3] = "none" => t[2] = "none"
      /\ t[2] = "none" => a.growing = {}
  BY DEF Adx, Trail, Spread
<1>2. b.trail = u /\ b.growing = a.growing
  BY DEF FlipAdx, Adx
<1>3. grow \in 0..2
  BY <1>1, GrowingPoints
<1>4. expand \in 0..1 /\ persist \in 0..1 /\ cross \in 0..1
  BY DEF Bit
<1>5. Persistence(u) \in {-3, -2, 2, 3} <=> Persistence(t) \in {-3, -2, 2, 3}
  BY <1>1, FlippedPersistence
<1>6. /\ Dominant(t) = IF t[3] = "up" THEN "up" ELSE "down"
      /\ Dominant(u) = IF t[3] = "down" THEN "up" ELSE "down"
  BY <1>1 DEF Dominant, Spread, Flip, Sign
<1>7. /\ t[3] \in {"up", "down"} => crossed = cross
      /\ t[3] \in {"zero", "none"} => crossed = 0 /\ cross = 0
  <2>1. CASE t[3] = "up"
    BY <1>1, <1>6, <2>1 DEF Crosses, Spread, Flip, Sign, Bit
  <2>2. CASE t[3] = "down"
    BY <1>1, <1>6, <2>2 DEF Crosses, Spread, Flip, Sign, Bit
  <2>3. CASE t[3] \in {"zero", "none"}
    BY <1>1, <1>6, <2>3 DEF Crosses, Spread, Flip, Sign, Bit
  <2> QED
    BY <1>1, <2>1, <2>2, <2>3 DEF Sign
<1>8. t[3] \in {"zero", "none"} => expand = 0 /\ grow <= 1
  <2>1. ASSUME t[3] \in {"zero", "none"}
        PROVE  a.growing \ {"expansion"} \in SUBSET {"acceleration"} /\ "expansion" \notin a.growing
    BY <1>1, <2>1
  <2>2. IsFiniteSet({"acceleration"}) /\ Cardinality({"acceleration"}) = 1
    BY FS_Singleton
  <2> QED
    BY <2>1, <2>2, FS_Subset DEF Bit
<1>9. AdxPoints(a, w) = IF Dominant(t) = "up" THEN Points(n, 0) ELSE Points(0, n)
  BY DEF AdxPoints
<1>10. AdxPoints(b, w) =
         LET m == w + 2 * crossed + 2 * expand + grow + persist
         IN  IF Dominant(u) = "up" THEN Points(m, 0) ELSE Points(0, m)
  BY <1>2, <1>5 DEF AdxPoints, Bit
<1> HIDE DEF t, u, b, grow, expand, persist, cross, crossed
<1>11. n \in 0..(w + 7) /\ (t[3] \in {"zero", "none"} => n <= w + 2)
  BY <1>3, <1>4, <1>7, <1>8
<1>12. t[3] = Spread(a.trail)
  BY DEF Spread, t
<1>13. AdxPoints(FlipAdx(a), w) = AdxPoints(b, w)
  BY DEF b
<1> HIDE DEF n
<1>14. CASE t[3] = "up"
  <2>1. AdxPoints(b, w) = Points(0, n)
    BY <1>6, <1>7, <1>10, <1>14 DEF n
  <2> QED
    BY <1>6, <1>9, <1>11, <1>12, <1>13, <1>14, <2>1
<1>15. CASE t[3] = "down"
  <2>1. AdxPoints(b, w) = Points(n, 0)
    BY <1>6, <1>7, <1>10, <1>15 DEF n
  <2> QED
    BY <1>6, <1>9, <1>11, <1>12, <1>13, <1>15, <2>1
<1>16. CASE t[3] \in {"zero", "none"}
  <2>1. AdxPoints(b, w) = Points(0, n)
    BY <1>6, <1>7, <1>10, <1>16 DEF n
  <2> QED
    BY <1>6, <1>9, <1>11, <1>12, <1>13, <1>16, <2>1
<1> QED
  BY <1>1, <1>14, <1>15, <1>16 DEF Sign
-----------------------------------------------------------------------------
\* What the other readings and their mirror images are worth.
LEMMA OtherPoints ==
    /\ \A b \in Bollinger :
          LET p == BollingerPoints(b)  q == BollingerPoints(Flip(b))
          IN  /\ p \in [call : Int, put : Int] /\ q = Points(p.put, p.call)
              /\ p.call <= 3 /\ p.put + q.put <= 3
    /\ \A m \in Momentum :
          LET p == MomentumPoints(m)  q == MomentumPoints(FlipMomentum(m))
          IN  /\ p \in [call : Int, put : Int] /\ q = Points(p.put, p.call)
              /\ p.call <= 2 /\ p.put + q.put <= 0
    /\ \A t \in Trend :
          LET p == TrendPoints(t)  q == TrendPoints(Flip(t))
          IN  /\ p \in [call : Int, put : Int] /\ q = Points(p.put, p.call)
              /\ p.call <= 1 /\ p.put + q.put <= 1
    /\ \A s \in Structure :
          LET p == StructurePoints(s)  q == StructurePoints(FlipStructure(s))
          IN  /\ p \in [call : Int, put : Int] /\ q = Points(p.put, p.call)
              /\ p.call <= 3 /\ p.put + q.put <= 6
<1> USE DEF Points, Bit
<1>1. ASSUME NEW b \in Bollinger
      PROVE  LET p == BollingerPoints(b)  q == BollingerPoints(Flip(b))
             IN  /\ p \in [call : Int, put : Int] /\ q = Points(p.put, p.call)
                 /\ p.call <= 3 /\ p.put + q.put <= 3
  BY DEF Bollinger, BollingerPoints, Flip
<1>2. ASSUME NEW m \in Momentum
      PROVE  LET p == MomentumPoints(m)  q == MomentumPoints(FlipMomentum(m))
             IN  /\ p \in [call : Int, put : Int] /\ q = Points(p.put, p.call)
                 /\ p.call <= 2 /\ p.put + q.put <= 0
  BY DEF Momentum, MomentumPoints, FlipMomentum, Flip
<1>3. ASSUME NEW t \in Trend
      PROVE  LET p == TrendPoints(t)  q == TrendPoints(Flip(t))
             IN  /\ p \in [call : Int, put : Int] /\ q = Points(p.put, p.call)
                 /\ p.call <= 1 /\ p.put + q.put <= 1
  BY DEF Trend, TrendPoints, Flip
<1>4. ASSUME NEW s \in Structure
      PROVE  LET p == StructurePoints(s)  q == StructurePoints(FlipStructure(s))
             IN  /\ p \in [call : Int, put : Int] /\ q = Points(p.put, p.call)
                 /\ p.call <= 3 /\ p.put + q.put <= 6
  <2>1. /\ "higher low" \in FlipStructure(s) <=> "lower high" \in s
        /\ "lower high" \in FlipStructure(s) <=> "higher low" \in s
        /\ "break high" \in FlipStructure(s) <=> "break low" \in s
        /\ "break low" \in FlipStructure(s) <=> "break high" \in s
    BY DEF Structure, FlipStructure
  <2> DEFINE low  == Bit("higher low" \in s)   brokeHigh == Bit("break high" \in s)
             high == Bit("lower high" \in s)   brokeLow  == Bit("break low" \in s)
             c == low + 2 * brokeHigh
             d == high + 2 * brokeLow
  <2>2. StructurePoints(s) = Points(c, d) /\ StructurePoints(FlipStructure(s)) = Points(d, c)
    BY <2>1 DEF StructurePoints
  <2>3. low \in 0..1 /\ high \in 0..1 /\ brokeHigh \in 0..1 /\ brokeLow \in 0..1
    OBVIOUS
  <2> HIDE DEF low, high, brokeHigh, brokeLow
  <2>4. c \in 0..3 /\ d \in 0..3
    BY <2>3
  <2> HIDE DEF c, d
  <2> QED
    BY <2>2, <2>4
<1> QED
  BY <1>1, <1>2, <1>3, <1>4

\* A reading that is worth as much to either side in the mirror image keeps the
\* scores mirrored, with the bounds moved by what it is worth.
LEMMA ReadingKeepsScores ==
    ASSUME ScoreInv, scored \in 3..6,
           NEW p \in [call : Int, put : Int], Scores(p, Points(p.put, p.call)),
           p.call <= MostOther[scored + 2] - MostOther[scored + 1],
           p.put + p.call <= MostPuts[scored + 2] - MostPuts[scored + 1],
           UNCHANGED <<buyers, flats>>
    PROVE  ScoreInv'
<1> USE DEF ScoreInv, ScoreTypeOK
<1>1. /\ scored' = scored + 1 /\ scored' \in 4..7 /\ scored' < Last /\ scored < Last
      /\ score' = Points(score.call + p.call, score.put + p.put)
      /\ mirror' = Points(mirror.call + p.put, mirror.put + p.call)
      /\ minimum' = minimum
  BY DEF Scores, Plus, Points, Last
<1>2. ScoreTypeOK'
  BY <1>1 DEF Points, Last
<1>3. CountInv' /\ PairInv'
  BY <1>1 DEF CountInv, PairInv, Points
<1>4. MostPuts[scored + 1] \in Int /\ MostPuts[scored + 2] \in Int
      /\ MostOther[scored + 1] \in Int /\ MostOther[scored + 2] \in Int
  BY DEF MostPuts, MostOther
<1>5. PutsInv' /\ CallsInv'
  <2>1. scored' + 1 = scored + 2
    BY <1>1
  <2> QED
    BY <1>1, <1>4, <2>1 DEF PutsInv, CallsInv, Points
<1> QED
  BY <1>2, <1>3, <1>5

\* The readings of an ADX and of its mirror image keep the scores mirrored: one side
\* each, or PUT in both where the spread is zero.
LEMMA AdxKeepsScores ==
    ASSUME ScoreInv, NEW a \in Adx, ScoresAdx(a)
    PROVE  ScoreInv'
<1> DEFINE w == Weight[scored + 1]
<1>1. /\ scored \in 0..2 /\ scored' = scored + 1 /\ scored' < Last /\ scored < Last
      /\ minimum' = minimum
      /\ score' = Plus(score, AdxPoints(a, w)) /\ mirror' = Plus(mirror, AdxPoints(FlipAdx(a), w))
  BY DEF ScoreInv, ScoreTypeOK, ScoresAdx, Scores, Last
<1>2. /\ w \in {1, 2}
      /\ MostPuts[scored + 2] = MostPuts[scored + 1] + w + 7 /\ MostPuts[scored + 1] \in Int
      /\ MostOther[scored + 2] = 0 /\ MostOther[scored + 1] = 0
      /\ scored' + 1 = scored + 2
  BY <1>1 DEF Weight, MostPuts, MostOther
<1>3. PICK n \in 0..(w + 7) :
        \/ /\ Spread(a.trail) = "up"
           /\ AdxPoints(a, w) = Points(n, 0) /\ AdxPoints(FlipAdx(a), w) = Points(0, n)
        \/ /\ Spread(a.trail) = "down"
           /\ AdxPoints(a, w) = Points(0, n) /\ AdxPoints(FlipAdx(a), w) = Points(n, 0)
        \/ /\ Spread(a.trail) \in {"zero", "none"}
           /\ AdxPoints(a, w) = Points(0, n) /\ AdxPoints(FlipAdx(a), w) = Points(0, n)
           /\ n <= w + 2
  BY <1>2, AdxFacts
<1> HIDE DEF w
<1> USE DEF ScoreInv, ScoreTypeOK, CountInv, PairInv, PutsInv, CallsInv, Plus, Points
<1>4. CASE /\ Spread(a.trail) = "up"
           /\ AdxPoints(a, w) = Points(n, 0) /\ AdxPoints(FlipAdx(a), w) = Points(0, n)
  <2>1. buyers' = buyers + 1 /\ flats' = flats
    BY <1>4 DEF ScoresAdx, Bit
  <2>2. /\ score' = [call |-> score.call + n, put |-> score.put]
        /\ mirror' = [call |-> mirror.call, put |-> mirror.put + n]
    BY <1>1, <1>3, <1>4
  <2> QED
    BY <1>1, <1>2, <2>1, <2>2 DEF Last
<1>5. CASE /\ Spread(a.trail) = "down"
           /\ AdxPoints(a, w) = Points(0, n) /\ AdxPoints(FlipAdx(a), w) = Points(n, 0)
  <2>1. buyers' = buyers /\ flats' = flats
    BY <1>5 DEF ScoresAdx, Bit
  <2>2. /\ score' = [call |-> score.call, put |-> score.put + n]
        /\ mirror' = [call |-> mirror.call + n, put |-> mirror.put]
    BY <1>1, <1>3, <1>5
  <2> QED
    BY <1>1, <1>2, <2>1, <2>2 DEF Last
<1>6. CASE /\ Spread(a.trail) \in {"zero", "none"}
           /\ AdxPoints(a, w) = Points(0, n) /\ AdxPoints(FlipAdx(a), w) = Points(0, n)
           /\ n <= w + 2
  <2>1. buyers' = buyers /\ flats' = flats + 1
    BY <1>6 DEF ScoresAdx, Bit
  <2>2. /\ score' = [call |-> score.call, put |-> score.put + n]
        /\ mirror' = [call |-> mirror.call, put |-> mirror.put + n]
    BY <1>1, <1>3, <1>6
  <2> QED
    BY <1>1, <1>2, <1>6, <2>1, <2>2 DEF Last
<1> QED
  BY <1>3, <1>4, <1>5, <1>6

\* The last point is taken from both sides, and what falls below zero is cut off.
LEMMA ClosesKeepsScores ==
    ASSUME ScoreInv, Closes
    PROVE  ScoreInv'
<1> DEFINE Cut(n) == IF n - 1 < 0 THEN 0 ELSE n - 1
<1>1. /\ scored = 7 /\ scored' = Last /\ scored < Last
      /\ score' = Points(Cut(score.call), Cut(score.put))
      /\ mirror' = Points(Cut(mirror.call), Cut(mirror.put))
      /\ UNCHANGED <<buyers, flats, minimum>>
  BY DEF Closes, Closed, Points, Last
<1>2. MostPuts[scored + 1] = 36 /\ MostOther[scored + 1] = 9
  BY <1>1 DEF MostPuts, MostOther
<1> QED
  BY <1>1, <1>2 DEF ScoreInv, ScoreTypeOK, CountInv, PairInv, PutsInv, CallsInv, Points, Last

\* What is known of the scores and their mirror image holds after every reading.
LEMMA ScoreInvHolds == ScoreSpec => []ScoreInv
<1>1. ScoreInit => ScoreInv
  BY DEF ScoreInit, ScoreInv, ScoreTypeOK, CountInv, PairInv, PutsInv, CallsInv, Points, Last,
         MostPuts, MostOther
<1>2. ScoreInv /\ [ScoreNext]_scoreVars => ScoreInv'
  <2> SUFFICES ASSUME ScoreInv, [ScoreNext]_scoreVars
               PROVE  ScoreInv'
    OBVIOUS
  <2>1. ASSUME NEW a \in Adx, ScoresAdx(a) PROVE ScoreInv'
    BY <2>1, AdxKeepsScores
  <2>2. ASSUME NEW b \in Bollinger, ScoresBollinger(b) PROVE ScoreInv'
    <3> DEFINE p == BollingerPoints(b)
    <3>1. /\ scored = 3 /\ Scores(p, Points(p.put, p.call)) /\ UNCHANGED <<buyers, flats>>
          /\ p \in [call : Int, put : Int] /\ p.call <= 3 /\ p.put + p.call <= 3
      BY <2>2, OtherPoints DEF ScoresBollinger, Points
    <3> QED
      BY <3>1, ReadingKeepsScores DEF MostPuts, MostOther
  <2>3. ASSUME NEW m \in Momentum, ScoresMomentum(m) PROVE ScoreInv'
    <3> DEFINE p == MomentumPoints(m)
    <3>1. /\ scored = 4 /\ Scores(p, Points(p.put, p.call)) /\ UNCHANGED <<buyers, flats>>
          /\ p \in [call : Int, put : Int] /\ p.call <= 2 /\ p.put + p.call <= 0
      BY <2>3, OtherPoints DEF ScoresMomentum, Points
    <3> QED
      BY <3>1, ReadingKeepsScores DEF MostPuts, MostOther
  <2>4. ASSUME NEW t \in Trend, ScoresTrend(t) PROVE ScoreInv'
    <3> DEFINE p == TrendPoints(t)
    <3>1. /\ scored = 5 /\ Scores(p, Points(p.put, p.call)) /\ UNCHANGED <<buyers, flats>>
          /\ p \in [call : Int, put : Int] /\ p.call <= 1 /\ p.put + p.call <= 1
      BY <2>4, OtherPoints DEF ScoresTrend, Points
    <3> QED
      BY <3>1, ReadingKeepsScores DEF MostPuts, MostOther
  <2>5. ASSUME NEW s \in Structure, ScoresStructure(s) PROVE ScoreInv'
    <3> DEFINE p == StructurePoints(s)
    <3>1. /\ scored = 6 /\ Scores(p, Points(p.put, p.call)) /\ UNCHANGED <<buyers, flats>>
          /\ p \in [call : Int, put : Int] /\ p.call <= 3 /\ p.put + p.call <= 6
      BY <2>5, OtherPoints DEF ScoresStructure, Points
    <3> QED
      BY <3>1, ReadingKeepsScores DEF MostPuts, MostOther
  <2>6. ASSUME Closes PROVE ScoreInv'
    BY <2>6, ClosesKeepsScores
  <2>7. CASE UNCHANGED scoreVars
    BY <2>7 DEF scoreVars, ScoreInv, ScoreTypeOK, CountInv, PairInv, PutsInv, CallsInv
  <2> QED
    BY <2>1, <2>2, <2>3, <2>4, <2>5, <2>6, <2>7 DEF ScoreNext
<1> QED
  BY <1>1, <1>2, PTL DEF ScoreSpec

\* The types of Confluence hold, and no final score is negative
\* (confluence_service.py:47).
THEOREM ScoreTypes == ScoreSpec => []ScoreTypeOK
<1>1. ScoreInv => ScoreTypeOK
  BY DEF ScoreInv
<1> QED
  BY <1>1, ScoreInvHolds, PTL

\* Whatever the readings, the mirror image has the scores of CALL and PUT the other
\* way round, and spreads of zero favour PUT (confluence_service.py:19-44).
THEOREM ScoresAreMirrored == ScoreSpec => []MirrorImage
<1>1. ScoreInv => MirrorImage
  BY DEF ScoreInv, PairInv, MirrorImage
<1> QED
  BY <1>1, ScoreInvHolds, PTL

\* For every minimum and difference, no readings and their mirror image give one
\* signal where no spread is zero and a difference is asked for, nor anywhere with
\* a minimum of 18 or more (signal_service.py:10-15).
THEOREM MirrorsDisagree == ScoreSpec => []MirrorIsNoSignalToo
<1>1. ASSUME ScoreInv
      PROVE  MirrorIsNoSignalToo
  <2> SUFFICES ASSUME scored = Last,
                      (flats = 0 /\ Difference > 0) \/ minimum >= 18,
                      Choose(score) = Choose(mirror), Choose(score) # "none"
               PROVE  FALSE
    BY DEF MirrorIsNoSignalToo
  <2>1. /\ score.call \in Int /\ score.put \in Int /\ mirror.call \in Int /\ mirror.put \in Int
        /\ minimum \in Int /\ Difference \in Int
    BY <1>1, ConfluenceAssumption DEF ScoreInv, ScoreTypeOK
  <2>2. \/ score.call > score.put /\ mirror.call > mirror.put
        \/ /\ score.put >= minimum /\ mirror.put >= minimum
           /\ score.put >= score.call /\ mirror.put >= mirror.call
           /\ score.call - score.put \notin (1 - Difference)..(Difference - 1)
    BY <2>1 DEF Choose
  <2> QED
    BY <1>1, <2>1, <2>2 DEF ScoreInv, PairInv, PutsInv, Last
<1> QED
  BY <1>1, ScoreInvHolds, PTL

\* For every minimum and difference, a CALL of minimum 9 or more has an ADX with
\* buyers behind it, and one of minimum 18 or more has two
\* (confluence_service.py:21-46).
THEOREM CallsHaveBuyers == ScoreSpec => []CallNeedsBuyers
<1>1. ASSUME ScoreInv
      PROVE  CallNeedsBuyers
  <2> SUFFICES ASSUME scored = Last, Choose(score) = "CALL"
               PROVE  minimum <= 8 + 9 * buyers
    BY DEF CallNeedsBuyers
  <2>1. score.call \in Int /\ score.put \in Int /\ minimum \in Int /\ buyers \in Int
    BY <1>1, ConfluenceAssumption DEF ScoreInv, ScoreTypeOK
  <2>2. score.call >= minimum
    BY <2>1 DEF Choose
  <2> QED
    BY <1>1, <2>1, <2>2 DEF ScoreInv, CallsInv, Last
<1> QED
  BY <1>1, ScoreInvHolds, PTL

=============================================================================
