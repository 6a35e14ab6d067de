--------------------------- MODULE TradingDecision ---------------------------
(***************************************************************************)
(* What TradingWorker.iteration (app/workers/trading_worker.py) decides:   *)
(* confirmations, signature, execution, for one engine whose configuration *)
(* clients patch while the iteration awaits (EngineManager.update_config). *)
(*                                                                         *)
(* The configuration is one object that PATCH mutates, and the iteration   *)
(* reads each field when it gets there.  Scores are abstracted to the      *)
(* direction SignalService.choose draws from them, candle, cross and pivot *)
(* timestamps to one candle number, and blocks to whether there are any.   *)
(* Statuses, exceptions and the steps of place() are in EngineLifecycle    *)
(* and OrderSubmission.                                                    *)
(***************************************************************************)
EXTENDS Naturals, Sequences

CONSTANTS Asset,       \* assets a configuration may name
          NoAsset,     \* the asset of "no signature" and "no order"
          Mode,        \* settings.engine_mode
          AllowLive,   \* settings.allow_live_trading
          Patched,     \* the fields clients patch
          MaxCandle,   \* bound: candles that appear
          MaxReadings  \* bound: confirmations counted for one direction

ASSUME DecisionAssumption ==
    /\ NoAsset \notin Asset
    /\ Mode \in {"signal_only", "demo_auto", "live_auto"}
    /\ AllowLive \in BOOLEAN
    /\ Patched \subseteq {"asset", "profile", "auto", "amount"}
    /\ MaxCandle \in Nat /\ MaxReadings \in Nat \ {0}

VARIABLES
    pc,            \* what iteration() is awaiting, "top" between two of them
    cfg,           \* rt.config
    confirmations, \* rt.confirmations
    memory,        \* rt.signatures
    candle,        \* local: data_ts, with the cross and the pivot
    direction,     \* local: direction, while it is still to be counted
    blocked,       \* local: blocks is not empty
    signed,        \* local: signature
    readings,      \* history: the last three directions chosen
    order,         \* history: the order that place() was given and has not answered
    ordered,       \* history: the signatures that place() was given
    autoOff        \* history: orders since auto_execute was last turned off

engineVars == <<cfg, confirmations, memory>>
localVars  == <<candle, direction, blocked, signed>>
history    == <<readings, order, ordered, autoOff>>
vars == <<pc, engineVars, localVars, history>>

-----------------------------------------------------------------------------
Direction == {"CALL", "PUT"}
Profile == {"aggressive", "balanced", "conservative"}

Other(d) == IF d = "CALL" THEN "PUT" ELSE "CALL"

\* Readings a profile demands.
Confirmations(profile) ==
    CASE profile = "aggressive"   -> 1
      [] profile = "balanced"     -> 2
      [] profile = "conservative" -> 3

\* An amount is within settings.max_order_amount or beyond it.
Amount == {"within", "beyond"}

Config == [asset : Asset, profile : Profile, auto : BOOLEAN, amount : Amount,
           account : {"demo", "real"}, required : 1..3]

\* The parts of a signature that differ between the signals of one engine.
Signature == [asset : Asset, direction : Direction, candle : 0..MaxCandle]

NoSignature == [asset |-> NoAsset, direction |-> "none", candle |-> 0]
NoOrder == [asset |-> NoAsset, signature |-> NoSignature, account |-> "none",
            profile |-> "none", amount |-> "none", backing |-> <<>>, required |-> 0]

TypeOK ==
    /\ pc \in {"top", "candles", "checking", "rechecking", "placing", "recording"}
    /\ cfg \in Config
    /\ confirmations \in [Direction -> 0..MaxReadings]
    /\ memory \subseteq Signature
    /\ candle \in 0..MaxCandle
    /\ direction \in Direction \union {"none"}
    /\ blocked \in BOOLEAN
    /\ signed \in Signature \union {NoSignature}
    /\ readings \in Seq(Direction \union {"none"}) /\ Len(readings) <= 3
    /\ order # NoOrder => order.signature \in Signature /\ order.asset \in Asset
    /\ ordered \subseteq Signature
    /\ autoOff \in Nat

\* EngineManager.start accepts the configuration, for an account that is the
\* session's.
Accepted(c) ==
    /\ c.amount = "within"
    /\ c.account = "real" => AllowLive
    /\ c.auto /\ Mode = "live_auto" => AllowLive

\* It sets the readings by the profile.
Started(c) == [c EXCEPT !.required = Confirmations(c.profile)]

Init ==
    /\ pc = "top"
    /\ cfg \in {Started(c) : c \in {x \in Config : Accepted(x)}}
    /\ confirmations = [d \in Direction |-> 0]
    /\ memory = {}
    /\ candle = 0 /\ direction = "none" /\ blocked = FALSE /\ signed = NoSignature
    /\ readings = <<>> /\ order = NoOrder /\ ordered = {} /\ autoOff = 0

-----------------------------------------------------------------------------
\* Mutant: the amount is left to RiskService.validate.
PatchUnchecked(field, value) ==
    /\ pc # "placing"
    /\ cfg' = [cfg EXCEPT ![field] = value]
    /\ autoOff' = IF field = "auto" /\ cfg.auto /\ ~value THEN 0 ELSE autoOff
    /\ UNCHANGED <<pc, confirmations, memory, localVars, readings, order, ordered>>

\* update_config: any value the schema takes, unless an order is active; an amount
\* beyond the maximum is refused.
Patch(field, value) ==
    /\ pc # "placing"
    /\ field = "amount" => value = "within"
    /\ cfg' = [cfg EXCEPT ![field] = value]
    /\ autoOff' = IF field = "auto" /\ cfg.auto /\ ~value THEN 0 ELSE autoOff
    /\ UNCHANGED <<pc, confirmations, memory, localVars, readings, order, ordered>>

\* A new iteration asks for the candles of its asset.
Begins ==
    /\ pc = "top"
    /\ pc' = "candles"
    /\ UNCHANGED <<engineVars, localVars, history>>

\* Mutant: the opposite direction keeps its count.
DecideWithoutReset(d, k, blocks) ==
    LET signature == [asset |-> cfg.asset, direction |-> d, candle |-> k]
        counted   == [confirmations EXCEPT ![d] = @ + 1]
        execute   == /\ ~blocks
                     /\ counted[d] >= cfg.required
                     /\ cfg.auto /\ Mode # "signal_only"
                     /\ signature \notin memory
    IN  IF d = "none"
        THEN /\ confirmations' = [x \in Direction |-> 0]
             /\ signed' = NoSignature
             /\ pc' = "recording"
        ELSE /\ confirmations' = counted
             /\ signed' = signature
             /\ pc' = IF execute THEN "rechecking" ELSE "recording"

\* Mutant: auto_execute is not asked.
DecideWithoutAuto(d, k, blocks) ==
    LET signature == [asset |-> cfg.asset, direction |-> d, candle |-> k]
        counted   == [confirmations EXCEPT ![d] = @ + 1, ![Other(d)] = 0]
        execute   == /\ ~blocks
                     /\ counted[d] >= cfg.required
                     /\ Mode # "signal_only"
                     /\ signature \notin memory
    IN  IF d = "none"
        THEN /\ confirmations' = [x \in Direction |-> 0]
             /\ signed' = NoSignature
             /\ pc' = "recording"
        ELSE /\ confirmations' = counted
             /\ signed' = signature
             /\ pc' = IF execute THEN "rechecking" ELSE "recording"

\* From the confirmations to the last probe, without an await.
Decide(d, k, blocks) ==
    LET signature == [asset |-> cfg.asset, direction |-> d, candle |-> k]
        counted   == [confirmations EXCEPT ![d] = @ + 1, ![Other(d)] = 0]
        execute   == /\ ~blocks
                     /\ counted[d] >= cfg.required
                     /\ cfg.auto /\ Mode # "signal_only"
                     /\ signature \notin memory
    IN  IF d = "none"
        THEN /\ confirmations' = [x \in Direction |-> 0]
             /\ signed' = NoSignature
             /\ pc' = "recording"
        ELSE /\ confirmations' = counted
             /\ signed' = signature
             /\ pc' = IF execute THEN "rechecking" ELSE "recording"

\* The candles are there: a direction or none, with or without blocks.  The
\* payouts (when a minimum is set) or the RISK_LOCKED event are awaited next.
Chooses(d, k, blocks, awaits) ==
    /\ pc = "candles"
    /\ k >= candle
    /\ cfg.amount = "beyond" => blocks
    /\ d # "none" => confirmations[d] < MaxReadings
    /\ candle' = k
    /\ readings' = LET all == Append(readings, d) IN
                   IF Len(all) > 3 THEN Tail(all) ELSE all
    /\ IF awaits
       THEN /\ pc' = "checking"
            /\ direction' = d /\ blocked' = blocks
            /\ UNCHANGED <<confirmations, signed>>
       ELSE Decide(d, k, blocks) /\ UNCHANGED <<direction, blocked>>
    /\ UNCHANGED <<cfg, memory, order, ordered, autoOff>>

\* A payout that is too low blocks the signal as well.
Checks(low) ==
    /\ pc = "checking"
    /\ Decide(direction, candle, blocked \/ low)
    /\ direction' = "none" /\ blocked' = FALSE
    /\ UNCHANGED <<cfg, memory, candle, history>>

\* The last probe succeeds: place() gets what the configuration says by now.
Places ==
    /\ pc = "rechecking"
    /\ pc' = "placing"
    /\ order' = [asset |-> cfg.asset, signature |-> signed, account |-> cfg.account,
                 profile |-> cfg.profile, amount |-> cfg.amount, backing |-> readings, required |-> cfg.required]
    /\ ordered' = ordered \union {signed}
    /\ autoOff' = IF cfg.auto THEN autoOff ELSE autoOff + 1
    /\ UNCHANGED <<engineVars, localVars, readings>>

FindsUnhealthy ==
    /\ pc = "rechecking"
    /\ pc' = "recording"
    /\ UNCHANGED <<engineVars, localVars, history>>

\* Mutant: only accepted orders are remembered.
PlacedAndForgotten ==
    /\ pc = "placing"
    /\ memory' \in {memory, memory \union {signed}}
    /\ pc' = "recording"
    /\ order' = NoOrder
    /\ UNCHANGED <<cfg, confirmations, localVars, readings, ordered, autoOff>>

\* place() returns, whatever became of the order.
Placed ==
    /\ pc = "placing"
    /\ memory' = memory \union {signed}
    /\ pc' = "recording"
    /\ order' = NoOrder
    /\ UNCHANGED <<cfg, confirmations, localVars, readings, ordered, autoOff>>

\* The signal record is stored.
Recorded ==
    /\ pc = "recording"
    /\ pc' = "top"
    /\ signed' = NoSignature
    /\ UNCHANGED <<engineVars, candle, direction, blocked, history>>

PatchStep ==
    \/ "asset" \in Patched /\ \E a \in Asset : Patch("asset", a)
    \/ "profile" \in Patched /\ \E p \in Profile : Patch("profile", p)
    \/ "auto" \in Patched /\ \E b \in BOOLEAN : Patch("auto", b)
    \/ "amount" \in Patched /\ \E m \in Amount : Patch("amount", m)

Next ==
    \/ PatchStep \/ Begins
    \/ \E d \in Direction \union {"none"}, k \in 0..MaxCandle, blocks, awaits \in BOOLEAN :
          Chooses(d, k, blocks, awaits)
    \/ \E low \in BOOLEAN : Checks(low)
    \/ Places \/ FindsUnhealthy \/ Placed \/ Recorded

Spec == Init /\ [][Next]_vars

-----------------------------------------------------------------------------
\* An order goes in the direction of its signature, and the readings of as many
\* iterations in a row as the engine was started with all gave that direction:
\* neither "none" nor the opposite came between, whatever was patched meanwhile
\* (trading_worker.py:80-85, 99-100).
OrdersAreConfirmed ==
    LET n == Len(order.backing) IN
    order # NoOrder =>
        /\ n >= order.required
        /\ \A i \in (n - order.required + 1)..n : order.backing[i] = order.signature.direction

\* After auto_execute is turned off, at most the order that was waiting for its
\* last probe still goes out (trading_worker.py:86-89, engine_manager.py:121-128).
OneOrderAfterAutoOff == autoOff <= 1

\* No order exceeds the maximum amount, although validate() looks at the amount some
\* awaits before place() reads it again: what start and PATCH let in is all there is
\* (engine_manager.py:74, 125, trading_worker.py:67, 93, risk_service.py:27).
OrdersWithinLimit == order # NoOrder => order.amount = "within"

\* An engine never hands the same signature to place() twice, although an order
\* that was refused, failed or had an unknown end leaves no other trace in the
\* engine (trading_worker.py:87, 95).
SignatureOrderedOnce ==
    [][pc = "rechecking" /\ pc' = "placing" => order'.signature \notin ordered]_vars

-----------------------------------------------------------------------------
\* What the README says, and the code does not keep

\* "aggressive exige uma leitura, balanced duas e conservative tres"
\* (README.md:115): an order of an engine has the readings of its profile.
ProfileIsConfirmed == order # NoOrder => order.required = Confirmations(order.profile)

\* "A assinatura SHA-256 combina ativo, ..." (README.md:115): an order is for
\* the asset of its signature.
OrderMatchesSignature == order # NoOrder => order.asset = order.signature.asset

\* "demo_auto: permite automacao somente em demo" (README.md:64).
DemoAutoIsDemo == Mode = "demo_auto" /\ order # NoOrder => order.account = "demo"

\* "live_auto: requer tambem ALLOW_LIVE_TRADING=true e conta real confirmada"
\* (README.md:65).
LiveAutoIsAllowed ==
    Mode = "live_auto" /\ order # NoOrder => AllowLive /\ order.account = "real"

=============================================================================
