--------------------------- MODULE SwingStructure ---------------------------
(***************************************************************************)
(* Pivots and market structure: calculate_zigzag                           *)
(* (app/indicators/zigzag.py) and detect_market_structure                  *)
(* (app/indicators/market_structure.py) over the candles of one asset, as  *)
(* the worker asks for them again and again while the newest candle is     *)
(* still moving and old ones leave the window.                             *)
(*                                                                         *)
(* Prices are natural numbers.  The close is read of the newest candle     *)
(* alone.  Positions count from 1 (from 0 in the code).  The program       *)
(* calculates nothing from fewer than 30 candles; the model begins with    *)
(* the first, which adds states in which the same properties hold.         *)
(***************************************************************************)
EXTENDS Integers, Sequences, FiniteSetsExt

CONSTANTS Price,     \* prices that appear
          Count,     \* candles in a full window
          Depth,     \* depth of calculate_zigzag
          Backstep,  \* its backstep
          Deviation  \* its deviation, in percent

ASSUME SwingAssumption ==
    /\ Price \subseteq Nat \ {0}
    /\ Count \in Nat \ {0} /\ Depth \in Nat /\ Deviation \in Nat
    /\ Backstep \in Nat \ {0}

VARIABLES
    frame,   \* the candles: high and low
    close,   \* close of the newest one
    dropped  \* history: how many candles left the window in the last step

vars == <<frame, close, dropped>>

-----------------------------------------------------------------------------
Candle == {c \in [high : Price, low : Price] : c.low <= c.high}

\* calculate_zigzag

Window(i) == (i - Depth)..i
Highest(i) == Max({frame[k].high : k \in Window(i)})
Lowest(i)  == Min({frame[k].low : k \in Window(i)})

IsHigh(i) ==
    /\ frame[i].high >= Highest(i)
    /\ (frame[i].high - Lowest(i)) * 100 >= Deviation * Lowest(i)

IsLow(i) ==
    /\ frame[i].low <= Lowest(i)
    /\ (Highest(i) - frame[i].low) * 100 >= Deviation * Highest(i)

\* Mutant: the newest candles are looked at as well.
LookedAtAll == (Depth + 1)..Len(frame)

\* The positions that are looked at.
LookedAt == (Depth + 1)..(Len(frame) - Backstep)

Pivot(i) ==
    IF i \notin LookedAt THEN "none"
    ELSE IF IsHigh(i) THEN "high" ELSE IF IsLow(i) THEN "low" ELSE "none"

\* detect_market_structure

Pivots(kind) == {i \in DOMAIN frame : Pivot(i) = kind}

LastHigh == frame[Max(Pivots("high"))].high
LastLow  == frame[Max(Pivots("low"))].low

BreakHigh == Pivots("high") # {} /\ close > LastHigh
BreakLow  == Pivots("low") # {} /\ close < LastLow

\* The last two pivots of a kind.
LastTwo(kind) ==
    LET last == Max(Pivots(kind)) IN <<Max(Pivots(kind) \ {last}), last>>

\* Mutant: the close stands in for the last low.
HigherLowOfClose == Pivots("low") # {} /\ close > LastLow

HigherLow ==
    /\ Cardinality(Pivots("low")) >= 2
    /\ frame[LastTwo("low")[2]].low > frame[LastTwo("low")[1]].low

LowerHigh ==
    /\ Cardinality(Pivots("high")) >= 2
    /\ frame[LastTwo("high")[2]].high < frame[LastTwo("high")[1]].high

\* last_pivot_timestamp, which goes into the signature: the number of its row.
LastPivot ==
    LET all == Pivots("high") \union Pivots("low") IN IF all = {} THEN 0 ELSE Max(all)

-----------------------------------------------------------------------------
Init ==
    /\ \E c \in Candle : frame = <<c>>
    /\ close \in Price \intersect (frame[1].low..frame[1].high)
    /\ dropped = 0

\* The newest candle moves on: its close, and with it perhaps high or low.
Moves ==
    /\ close' \in Price
    /\ LET n == Len(frame) IN
       frame' = [frame EXCEPT ![n] = [high |-> Max({@.high, close'}), low |-> Min({@.low, close'})]]
    /\ dropped' = 0

\* A new candle begins, and the oldest leaves a full window.
Begins ==
    /\ close' \in Price
    /\ LET all == Append(frame, [high |-> close', low |-> close']) IN
       IF Len(frame) < Count
       THEN frame' = all /\ dropped' = 0
       ELSE frame' = Tail(all) /\ dropped' = 1

Next == Moves \/ Begins

Spec == Init /\ [][Next]_vars

-----------------------------------------------------------------------------
\* The types; the close lies between the low and the high of the newest candle.
TypeOK ==
    /\ frame \in Seq(Candle) /\ Len(frame) \in 1..Count
    /\ close \in Price
    /\ dropped \in {0, 1}
    /\ close \in frame[Len(frame)].low..frame[Len(frame)].high

\* What was said of a candle stands: a pivot that is reported stays one, and a
\* candle that was looked at does not become one later, although the newest
\* candle moves and the window slides, until the candles it was compared with
\* leave the window (zigzag.py:9-14).
PivotsStay ==
    [][\A i \in DOMAIN frame, k \in 1..Count :
          /\ k = i - dropped' /\ k > Depth
          /\ Pivot(i) # "none" \/ i \in LookedAt
          => Pivot(k)' = Pivot(i)]_vars

\* While the newest candle moves only the breaks follow it, in the direction of
\* the close: higher_low, lower_high and the pivot of the signature wait for
\* candles to end, so that they count once for a candle and not with every poll
\* (market_structure.py:5-19, signal_service.py:19-21).
StructureWaits ==
    [][Moves => /\ HigherLow' <=> HigherLow
                /\ LowerHigh' <=> LowerHigh
                /\ LastPivot' = LastPivot
                /\ BreakHigh' /\ ~BreakHigh => close' > close
                /\ BreakLow' /\ ~BreakLow => close' < close]_vars

=============================================================================
