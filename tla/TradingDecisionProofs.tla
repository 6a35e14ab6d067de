------------------------ MODULE TradingDecisionProofs ------------------------
(***************************************************************************)
(* Proofs about TradingDecision, for any assets, modes, patched fields and *)
(* numbers of candles: an order has the readings in a row that the engine  *)
(* was started with, a signature is ordered once, and turning execution    *)
(* off lets at most one order through.                                     *)
(***************************************************************************)
EXTENDS TradingDecision, TLAPS

\* What confirmations count: the last readings.  While the payouts are awaited the
\* newest reading is not counted yet.
CountInv ==
    /\ pc # "checking" =>
          \A d \in Direction, i \in 1..3 : i <= confirmations[d] =>
              i <= Len(readings) /\ readings[Len(readings) + 1 - i] = d
    /\ pc = "checking" =>
          /\ Len(readings) >= 1 /\ readings[Len(readings)] = direction
          /\ direction # "none" => confirmations[direction] < MaxReadings
          /\ \A d \in Direction, i \in 1..2 : i <= confirmations[d] =>
                i + 1 <= Len(readings) /\ readings[Len(readings) - i] = d

\* What an iteration has established that is about to order.
SignedInv ==
    /\ pc \in {"rechecking", "placing"} => signed \in Signature
    /\ pc = "rechecking" =>
          /\ signed \notin memory
          /\ confirmations[signed.direction] >= cfg.required
          /\ ~cfg.auto => autoOff = 0

\* The engine remembers what it ordered, but for the order under way.
OrderedInv == ordered \subseteq memory \union (IF pc = "placing" THEN {signed} ELSE {})

Inv ==
    /\ TypeOK /\ CountInv /\ SignedInv /\ OrderedInv
    /\ OrdersAreConfirmed /\ OneOrderAfterAutoOff
    /\ cfg.amount = "within" /\ OrdersWithinLimit

-----------------------------------------------------------------------------
\* The readings with a new one at the end, at most three.
Push(r, d) == LET all == Append(r, d) IN IF Len(all) > 3 THEN Tail(all) ELSE all

\* Sequence p ends with d, and before it with what r, of length n, ends with.
Follows(p, S, r, n, d) ==
    \E m \in 1..3 :
        /\ p \in Seq(S) /\ Len(p) = m /\ p[m] = d
        /\ \A i \in 1..2 : i <= n => i + 1 <= m /\ p[m - i] = r[n + 1 - i]

\* The new reading is the last one, and the ones before it move up.
LEMMA PushShifts ==
    ASSUME NEW S, NEW r \in Seq(S), NEW n \in 0..3, Len(r) = n, NEW d \in S
    PROVE  Follows(Push(r, d), S, r, n, d)
<1> USE DEF Follows
<1> DEFINE all  == Append(r, d)
           tail == Tail(all)
<1>1. /\ all \in Seq(S) /\ Len(all) = n + 1 /\ all[n + 1] = d
      /\ \A i \in 1..n : all[i] = r[i]
  OBVIOUS
<1>2. Push(r, d) = IF n + 1 > 3 THEN tail ELSE all
  BY <1>1 DEF Push
<1>3. CASE n = 3
  <2>1. Push(r, d) = tail
    BY <1>2, <1>3
  <2>2. tail \in Seq(S) /\ Len(tail) = n /\ \A i \in 1..n : tail[i] = all[i + 1]
    BY <1>3, SMTT(30)
  <2> HIDE DEF all, tail
  <2>3. tail[3] = d /\ tail[2] = r[3] /\ tail[1] = r[2]
    BY <1>1, <1>3, <2>2
  <2> QED
    BY <1>3, <2>1, <2>2, <2>3
<1> HIDE DEF all, tail
<1>4. CASE n < 3
  <2>1. Push(r, d) = all /\ n + 1 \in 1..3
    BY <1>2, <1>4
  <2>2. \A i \in 1..2 : i <= n => n + 1 - i \in 1..n
    OBVIOUS
  <2> QED
    BY <1>1, <1>4, <2>1, <2>2
<1> QED
  BY <1>3, <1>4

\* An engine starts with the readings of its profile and nothing counted.
LEMMA InitInv == Init => Inv
<1> SUFFICES ASSUME Init PROVE Inv
  OBVIOUS
<1> USE DecisionAssumption DEF Init
<1>1. cfg \in Config /\ cfg.amount = "within"
  BY DEF Started, Accepted, Config, Confirmations, Profile, Amount
<1>2. TypeOK
  <2>1. confirmations \in [Direction -> 0..MaxReadings] /\ readings \in Seq(Direction \union {"none"})
    BY DEF Direction
  <2>2. autoOff \in Nat /\ candle \in 0..MaxCandle /\ Len(readings) <= 3
    OBVIOUS
  <2>3. blocked \in BOOLEAN
    OBVIOUS
  <2> QED
    BY <1>1, <2>1, <2>2, <2>3 DEF TypeOK
<1>3. CountInv
  BY DEF CountInv, Direction
<1> QED
  BY <1>1, <1>2, <1>3
  DEF Inv, SignedInv, OrderedInv, OrdersAreConfirmed, OneOrderAfterAutoOff, OrdersWithinLimit

-----------------------------------------------------------------------------
\* Clients do not touch what the iteration has established, but for the fields it
\* reads again; the readings demanded are no field of EngineConfigPatch.
LEMMA PatchKeepsInv == Inv /\ PatchStep => Inv'
<1> SUFFICES ASSUME Inv, PatchStep PROVE Inv'
  OBVIOUS
<1>1. /\ cfg' \in Config /\ cfg'.required = cfg.required /\ cfg'.amount = "within"
      /\ autoOff' \in {0, autoOff} /\ (~cfg'.auto => autoOff' = 0 \/ ~cfg.auto)
      /\ UNCHANGED <<pc, confirmations, memory, localVars, readings, order, ordered>>
  BY DEF PatchStep, Patch, Inv, TypeOK, Config, Amount
<1>2. UNCHANGED <<pc, confirmations, memory, candle, direction, blocked, signed, readings, order, ordered>>
  BY <1>1 DEF localVars
<1>3. TypeOK'
  BY <1>1, <1>2 DEF Inv, TypeOK
<1>4. CountInv' /\ OrderedInv'
  BY <1>2 DEF Inv, CountInv, OrderedInv
<1>5. SignedInv'
  BY <1>1, <1>2 DEF Inv, SignedInv
<1>6. OrdersAreConfirmed' /\ OneOrderAfterAutoOff' /\ OrdersWithinLimit'
  BY <1>1, <1>2 DEF Inv, OrdersAreConfirmed, OneOrderAfterAutoOff, OrdersWithinLimit
<1> QED
  BY <1>1, <1>3, <1>4, <1>5, <1>6 DEF Inv

\* The code from the confirmations on counts the newest reading, once.
LEMMA DecideKeepsInv ==
    ASSUME Inv, NEW d \in Direction \union {"none"}, NEW k \in 0..MaxCandle,
           NEW blocks \in BOOLEAN,
           Decide(d, k, blocks), candle' = k, direction' \in Direction \union {"none"},
           blocked' \in BOOLEAN,
           readings' \in Seq(Direction \union {"none"}),
           NEW m \in 1..3, Len(readings') = m, readings'[m] = d,
           d # "none" => confirmations[d] < MaxReadings,
           \A x \in Direction, i \in 1..2 : i <= confirmations[x] =>
               i + 1 <= m /\ readings'[m - i] = x,
           UNCHANGED <<cfg, memory, order, ordered, autoOff>>, pc # "placing"
    PROVE  Inv'
<1>1. pc' \in {"recording", "rechecking"}
  BY DEF Decide
<1>2. confirmations' \in [Direction -> 0..MaxReadings]
  <2>1. CASE d = "none"
    BY <2>1, DecisionAssumption DEF Decide, Direction
  <2>2. CASE d # "none"
    BY <2>2, DecisionAssumption DEF Inv, TypeOK, Decide, Direction, Other
  <2> QED
    BY <2>1, <2>2
<1>3. signed' \in Signature \union {NoSignature} /\ (pc' = "rechecking" => signed' \in Signature)
  BY DEF Inv, TypeOK, Decide, Signature, Config
<1>4. TypeOK'
  BY <1>1, <1>2, <1>3 DEF Inv, TypeOK
<1>5. CountInv'
  <2>1. ASSUME NEW x \in Direction, NEW i \in 1..3, i <= confirmations'[x]
        PROVE  i <= m /\ readings'[m + 1 - i] = x
    <3>1. d = x /\ confirmations'[x] = confirmations[x] + 1 /\ confirmations[x] \in Nat
      BY <2>1, DecisionAssumption DEF Inv, TypeOK, Decide, Direction, Other
    <3>2. CASE i = 1
      BY <3>1, <3>2
    <3>3. CASE i # 1
      <4>1. i - 1 \in 1..2 /\ i - 1 <= confirmations[x] /\ m - (i - 1) = m + 1 - i
        BY <2>1, <3>1, <3>3
      <4> QED
        BY <4>1
    <3> QED
      BY <3>2, <3>3
  <2> QED
    BY <1>1, <2>1 DEF CountInv
<1>6. SignedInv'
  <2>1. ASSUME pc' = "rechecking"
        PROVE  /\ signed' \notin memory /\ cfg.auto
               /\ confirmations'[signed'.direction] >= cfg.required
    <3>1. d # "none"
      BY <2>1 DEF Decide
    <3>2. signed'.direction = d /\ signed' \notin memory /\ cfg.auto
      BY <2>1, <3>1 DEF Decide
    <3>3. confirmations'[d] >= cfg.required
      BY <2>1, <3>1 DEF Decide
    <3> QED
      BY <3>2, <3>3
  <2> QED
    BY <1>1, <1>3, <2>1 DEF SignedInv
<1>7. OrderedInv' /\ OrdersAreConfirmed' /\ OneOrderAfterAutoOff' /\ OrdersWithinLimit' /\ cfg'.amount = "within"
  BY <1>1 DEF Inv, OrderedInv, OrdersAreConfirmed, OneOrderAfterAutoOff, OrdersWithinLimit
<1> QED
  BY <1>4, <1>5, <1>6, <1>7 DEF Inv

\* Candles, direction and blocks arrive.
LEMMA ChoosesKeepsInv ==
    ASSUME Inv, NEW d \in Direction \union {"none"}, NEW k \in 0..MaxCandle,
           NEW blocks \in BOOLEAN, NEW awaits \in BOOLEAN, Chooses(d, k, blocks, awaits)
    PROVE  Inv'
<1> DEFINE Reading == Direction \union {"none"}
<1>1. readings \in Seq(Reading) /\ Len(readings) <= 3
  BY DEF Inv, TypeOK
<1>9. d \in Reading
  OBVIOUS
<1>2. PICK n \in 0..3 : Len(readings) = n
  <2>1. Len(readings) \in Nat
    BY <1>1
  <2>2. PICK n \in Nat : Len(readings) = n
    BY <2>1
  <2> QED
    BY <1>1, <2>2
<1>3. readings' = Push(readings, d) /\ pc = "candles" /\ candle' = k
  BY DEF Chooses, Push
<1>4. PICK m \in 1..3 :
          /\ readings' \in Seq(Reading) /\ Len(readings') = m /\ readings'[m] = d
          /\ \A i \in 1..2 : i <= n => i + 1 <= m /\ readings'[m - i] = readings[n + 1 - i]
  <2> HIDE DEF Reading
  <2>1. Follows(Push(readings, d), Reading, readings, n, d)
    BY <1>1, <1>2, <1>9, PushShifts
  <2> QED
    BY <1>3, <2>1 DEF Follows
<1>5. \A x \in Direction, i \in 1..2 : i <= confirmations[x] =>
          i + 1 <= m /\ readings'[m - i] = x
  BY <1>2, <1>3, <1>4 DEF Inv, CountInv
<1>6. d # "none" => confirmations[d] < MaxReadings
  BY DEF Chooses
<1>7. CASE awaits
  <2>1. /\ pc' = "checking" /\ direction' = d /\ blocked' = blocks
        /\ UNCHANGED <<confirmations, signed, cfg, memory, order, ordered, autoOff>>
    BY <1>7 DEF Chooses
  <2>2. TypeOK'
    BY <1>3, <1>4, <2>1 DEF Inv, TypeOK
  <2>3. CountInv'
    BY <1>4, <1>5, <1>6, <2>1 DEF CountInv
  <2> QED
    BY <1>3, <2>1, <2>2, <2>3
    DEF Inv, SignedInv, OrderedInv, OrdersAreConfirmed, OneOrderAfterAutoOff, OrdersWithinLimit
<1>8. CASE ~awaits
  <2>1. /\ Decide(d, k, blocks) /\ UNCHANGED <<direction, blocked>>
        /\ UNCHANGED <<cfg, memory, order, ordered, autoOff>>
    BY <1>8 DEF Chooses
  <2>2. direction' \in Direction \union {"none"} /\ blocked' \in BOOLEAN
    BY <2>1 DEF Inv, TypeOK
  <2> QED
    BY <1>3, <1>4, <1>5, <1>6, <2>1, <2>2, DecideKeepsInv
<1> QED
  BY <1>7, <1>8

\* The payouts arrive.
LEMMA ChecksKeepsInv ==
    ASSUME Inv, NEW low \in BOOLEAN, Checks(low)
    PROVE  Inv'
<1>1. /\ pc = "checking" /\ Decide(direction, candle, blocked \/ low)
      /\ direction' = "none" /\ blocked' = FALSE /\ candle' = candle /\ readings' = readings
      /\ UNCHANGED <<cfg, memory, order, ordered, autoOff>>
  BY DEF Checks, history
<1>2. PICK m \in 1..3 : Len(readings) = m
  <2>1. Len(readings) \in Nat
    BY DEF Inv, TypeOK
  <2>2. PICK m \in Nat : Len(readings) = m
    BY <2>1
  <2> QED
    BY <1>1, <2>2 DEF Inv, TypeOK, CountInv
<1>3. (blocked \/ low) \in BOOLEAN /\ blocked' \in BOOLEAN
  BY <1>1
<1>4. /\ direction \in Direction \union {"none"} /\ candle \in 0..MaxCandle
      /\ direction' \in Direction \union {"none"}
  BY <1>1 DEF Inv, TypeOK
<1>5. /\ readings' \in Seq(Direction \union {"none"}) /\ Len(readings') = m
      /\ readings'[m] = direction
      /\ direction # "none" => confirmations[direction] < MaxReadings
      /\ \A x \in Direction, i \in 1..2 : i <= confirmations[x] =>
            i + 1 <= m /\ readings'[m - i] = x
  BY <1>1, <1>2 DEF Inv, TypeOK, CountInv
<1> QED
  BY <1>1, <1>3, <1>4, <1>5, DecideKeepsInv

\* place() is given the signature, and what the configuration says by now.
LEMMA PlacesKeepsInv == Inv /\ Places => Inv'
<1> SUFFICES ASSUME Inv, Places PROVE Inv'
  OBVIOUS
<1>1. /\ pc = "rechecking" /\ pc' = "placing"
      /\ ordered' = ordered \union {signed}
      /\ autoOff' = IF cfg.auto THEN autoOff ELSE autoOff + 1
      /\ UNCHANGED <<cfg, confirmations, memory, candle, direction, blocked, signed, readings>>
      /\ order'.signature = signed /\ order'.backing = readings
      /\ order'.asset = cfg.asset /\ order'.amount = cfg.amount /\ order'.required = cfg.required
  BY DEF Places, engineVars, localVars
<1>2. /\ signed \in Signature /\ signed \notin memory
      /\ confirmations[signed.direction] >= cfg.required /\ (~cfg.auto => autoOff = 0)
  BY <1>1 DEF Inv, SignedInv
<1>3. TypeOK'
  BY <1>1, <1>2 DEF Inv, TypeOK, Config
<1>4. CountInv' /\ SignedInv' /\ OrderedInv'
  BY <1>1, <1>2 DEF Inv, CountInv, SignedInv, OrderedInv
<1>5. OrdersAreConfirmed'
  <2>1. PICK n \in 0..3 : Len(readings) = n
    <3>1. Len(readings) \in Nat
      BY DEF Inv, TypeOK
    <3>2. PICK n \in Nat : Len(readings) = n
      BY <3>1
    <3> QED
      BY <3>2 DEF Inv, TypeOK
  <2>2. PICK q \in 1..3 : cfg.required = q
    BY DEF Inv, TypeOK, Config
  <2>3. PICK x \in Direction : signed.direction = x
    BY <1>2 DEF Signature
  <2>4. \A i \in 1..3 : i <= q => i <= n /\ readings[n + 1 - i] = x
    <3>1. confirmations[x] \in Nat /\ confirmations[x] >= q
      BY <1>2, <2>2, <2>3, DecisionAssumption DEF Inv, TypeOK
    <3> QED
      BY <1>1, <2>1, <3>1 DEF Inv, CountInv
  <2>5. n >= q
    BY <2>4
  <2>6. ASSUME NEW i \in (n - q + 1)..n PROVE readings[i] = x
    <3>1. n + 1 - i \in 1..3 /\ n + 1 - i <= q /\ n + 1 - (n + 1 - i) = i
      BY <2>5
    <3> QED
      BY <2>4, <3>1
  <2> QED
    BY <1>1, <2>1, <2>2, <2>3, <2>5, <2>6 DEF OrdersAreConfirmed
<1>6. OneOrderAfterAutoOff' /\ OrdersWithinLimit' /\ cfg'.amount = "within"
  BY <1>1, <1>2 DEF Inv, TypeOK, OneOrderAfterAutoOff, OrdersWithinLimit
<1> QED
  BY <1>3, <1>4, <1>5, <1>6 DEF Inv

\* The steps that count nothing and order nothing.
LEMMA OtherStepsKeepInv ==
    Inv /\ (Begins \/ FindsUnhealthy \/ Placed \/ Recorded \/ UNCHANGED vars) => Inv'
<1> SUFFICES ASSUME Inv PROVE (Begins \/ FindsUnhealthy \/ Placed \/ Recorded \/ UNCHANGED vars) => Inv'
  OBVIOUS
<1> USE DEF engineVars, localVars, history
<1>1. CASE Begins
  <2>1. TypeOK' /\ CountInv'
    BY <1>1 DEF Inv, TypeOK, CountInv, Begins
  <2> QED
    BY <1>1, <2>1
    DEF Inv, Begins, SignedInv, OrderedInv, OrdersAreConfirmed, OneOrderAfterAutoOff, OrdersWithinLimit
<1>2. CASE FindsUnhealthy
  <2>1. TypeOK' /\ CountInv'
    BY <1>2 DEF Inv, TypeOK, CountInv, FindsUnhealthy
  <2> QED
    BY <1>2, <2>1
    DEF Inv, FindsUnhealthy, SignedInv, OrderedInv, OrdersAreConfirmed, OneOrderAfterAutoOff, OrdersWithinLimit
<1>3. CASE Placed
  <2>1. signed \in Signature
    BY <1>3 DEF Inv, SignedInv, Placed
  <2>2. TypeOK' /\ CountInv'
    BY <1>3, <2>1 DEF Inv, TypeOK, CountInv, Placed
  <2> QED
    BY <1>3, <2>2
    DEF Inv, Placed, SignedInv, OrderedInv, OrdersAreConfirmed, OneOrderAfterAutoOff, OrdersWithinLimit
<1>4. CASE Recorded
  <2>1. TypeOK' /\ CountInv'
    BY <1>4 DEF Inv, TypeOK, CountInv, Recorded
  <2> QED
    BY <1>4, <2>1
    DEF Inv, Recorded, SignedInv, OrderedInv, OrdersAreConfirmed, OneOrderAfterAutoOff, OrdersWithinLimit
<1>5. CASE UNCHANGED vars
  BY <1>5 DEF vars, Inv, TypeOK, CountInv, SignedInv, OrderedInv, OrdersAreConfirmed,
              OneOrderAfterAutoOff, OrdersWithinLimit
<1> QED
  BY <1>1, <1>2, <1>3, <1>4, <1>5

\* No step disturbs the invariant.
LEMMA StepInv == Inv /\ [Next]_vars => Inv'
  BY PatchKeepsInv, ChoosesKeepsInv, ChecksKeepsInv, PlacesKeepsInv, OtherStepsKeepInv DEF Next

\* The inductive invariant holds in every behaviour of a worker and its clients
\* (trading_worker.py:55-105, engine_manager.py:121-128).
THEOREM Invariance == Spec => []Inv
<1>1. Init => Inv
  BY InitInv
<1>2. Inv /\ [Next]_vars => Inv'
  BY StepInv
<1> QED
  BY <1>1, <1>2, PTL DEF Spec

\* Every variable keeps its type: confirmations stay counts, and what is remembered
\* are signatures (trading_worker.py:80-95).
THEOREM DecisionTypes == Spec => []TypeOK
<1>1. Inv => TypeOK
  BY DEF Inv
<1> QED
  BY <1>1, Invariance, PTL

\* However clients patch and however long the payouts take, an order has the
\* readings in a row that its engine was started with, which need not be those of
\* the profile patched since (trading_worker.py:80-85, engine_manager.py:80).
THEOREM OrdersConfirmed == Spec => []OrdersAreConfirmed
<1>1. Inv => OrdersAreConfirmed
  BY DEF Inv
<1> QED
  BY <1>1, Invariance, PTL

\* Turning auto_execute off lets out no more than the order already past its check
\* (trading_worker.py:86-89, engine_manager.py:127).
THEOREM OneOrderAfterOff == Spec => []OneOrderAfterAutoOff
<1>1. Inv => OneOrderAfterAutoOff
  BY DEF Inv
<1> QED
  BY <1>1, Invariance, PTL

\* Whatever was patched since validate() looked, an order is within the maximum
\* amount (engine_manager.py:74, 125, trading_worker.py:93).
THEOREM WithinLimit == Spec => []OrdersWithinLimit
<1>1. Inv => OrdersWithinLimit
  BY DEF Inv
<1> QED
  BY <1>1, Invariance, PTL

\* No signature goes to place() twice (trading_worker.py:87, 95).
THEOREM OrderedOnce == Spec => SignatureOrderedOnce
<1>1. Inv /\ [Next]_vars =>
          [pc = "rechecking" /\ pc' = "placing" => order'.signature \notin ordered]_vars
  <2> SUFFICES ASSUME Inv, Next, pc = "rechecking", pc' = "placing"
               PROVE  order'.signature \notin ordered
    OBVIOUS
  <2>1. Places
    BY DEF Next, PatchStep, Patch, Begins, Chooses, Checks, FindsUnhealthy, Placed, Recorded
  <2>2. order'.signature = signed
    BY <2>1 DEF Places
  <2> QED
    BY <2>2 DEF Inv, SignedInv, OrderedInv
<1> QED
  BY <1>1, Invariance, PTL DEF Spec, SignatureOrderedOnce

=============================================================================
