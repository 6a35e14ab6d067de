---------------------------- MODULE RiskLimitsProofs ----------------------------
(***************************************************************************)
(* Proofs about RiskLimits, for any limits, cooldowns and length of an     *)
(* hour: the accepted orders keep the hourly limit and the cooldown at the *)
(* times they were posted at, although the service looks at the clock      *)
(* before and after that.                                                  *)
(***************************************************************************)
EXTENDS RiskLimits, FiniteSetTheorems, TLAPS

\* The accepted orders that were posted less than an hour before time t, or later.
Counted(t) == {i \in DOMAIN accepted : accepted[i].at + Hour > t}

\* What order_times forgets was posted an hour ago, or earlier.
TimesInv ==
    /\ IsFiniteSet(orderTimes)
    /\ \A i \in DOMAIN accepted :
          /\ accepted[i].at <= now
          /\ \/ accepted[i].at + Hour <= now
             \/ \E x \in orderTimes : x.order = i /\ x.at >= accepted[i].at

\* The last accepted order was posted before it was recorded.
LastInv ==
    accepted # <<>> => lastOrderAt # Never /\ accepted[Len(accepted)].at <= lastOrderAt

\* What validate() found is still so when the order is posted, and stays so at the
\* time it was posted until it is recorded.
CheckedInv ==
    /\ pc = "checked" =>
          /\ attempt \in [wait : Cooldown, at : {Never}]
          /\ Cardinality(Counted(now)) < MaxOrdersPerHour
          /\ lastOrderAt # Never => lastOrderAt + attempt.wait <= now
    /\ pc = "placing" =>
          /\ attempt \in [wait : Cooldown, at : 0..now]
          /\ Cardinality(Counted(attempt.at)) < MaxOrdersPerHour
          /\ lastOrderAt # Never => lastOrderAt + attempt.wait <= attempt.at
          /\ \A i \in DOMAIN accepted : accepted[i].at <= attempt.at

Inv ==
    /\ TypeOK /\ TimesInv /\ LastInv /\ CheckedInv
    /\ HourlyLimitHolds /\ CooldownHolds

-----------------------------------------------------------------------------
\* The types of what is compared with the clock.
LEMMA Times ==
    ASSUME Inv
    PROVE  /\ now \in Nat /\ Hour \in Nat /\ MaxOrdersPerHour \in Nat
           /\ \A i \in DOMAIN accepted : accepted[i].at \in Nat /\ accepted[i].wait \in Nat
           /\ DOMAIN accepted = 1..Len(accepted) /\ Len(accepted) \in Nat
           /\ IsFiniteSet(DOMAIN accepted)
<1>1. now \in Nat /\ Hour \in Nat /\ MaxOrdersPerHour \in Nat /\ MaxTime \in Nat
  BY LimitsAssumption DEF Inv, TypeOK
<1>2. /\ DOMAIN accepted = 1..Len(accepted) /\ Len(accepted) \in Nat
      /\ \A i \in DOMAIN accepted : accepted[i] \in [wait : Cooldown, at : 0..MaxTime]
  <2> DEFINE S == [wait : Cooldown, at : 0..MaxTime]
  <2>1. accepted \in Seq(S)
    BY DEF Inv, TypeOK
  <2> HIDE DEF S
  <2>2. /\ DOMAIN accepted = 1..Len(accepted) /\ Len(accepted) \in Nat
        /\ \A i \in DOMAIN accepted : accepted[i] \in S
    BY <2>1
  <2> QED
    BY <2>2 DEF S
<1>3. \A i \in DOMAIN accepted : accepted[i].at \in Nat /\ accepted[i].wait \in Nat
  <2> TAKE i \in DOMAIN accepted
  <2>1. accepted[i].at \in 0..MaxTime /\ accepted[i].wait \in Cooldown
    <3>1. accepted[i] \in [wait : Cooldown, at : 0..MaxTime]
      BY <1>2, Zenon
    <3> QED
      BY <3>1
  <2>2. Cooldown \subseteq Nat /\ 0..MaxTime \subseteq Nat
    BY <1>1, LimitsAssumption
  <2> QED
    BY <2>1, <2>2
<1>4. IsFiniteSet(DOMAIN accepted)
  BY <1>2, FS_Interval
<1> QED
  BY <1>1, <1>2, <1>3, <1>4

\* As many orders as order_times has in the last hour were posted in it, or fewer.
LEMMA RecentCounts ==
    ASSUME Inv
    PROVE  Cardinality(Counted(now)) <= Cardinality(Recent(orderTimes))
<1> DEFINE R == Recent(orderTimes)
           T == {x.order : x \in R}
           f == [x \in R |-> x.order]
<1>1. IsFiniteSet(R)
  BY FS_Subset DEF Inv, TimesInv, Recent
<1>2. f \in Surjection(R, T)
  BY DEF Surjection
<1>3. IsFiniteSet(T) /\ Cardinality(T) <= Cardinality(R)
  <2> HIDE DEF R, T, f
  <2> QED
    BY <1>1, <1>2, FS_Surjection
<1>4. ASSUME NEW i \in Counted(now) PROVE i \in T
  <2>1. i \in DOMAIN accepted /\ accepted[i].at + Hour > now /\ accepted[i].at \in Nat
    BY <1>4, Times DEF Counted
  <2>2. PICK x \in orderTimes : x.order = i /\ x.at >= accepted[i].at
    BY <2>1, Times DEF Inv, TimesInv
  <2>3. x.at \in Nat
    BY LimitsAssumption DEF Inv, TypeOK
  <2>4. x \in R
    BY <2>1, <2>2, <2>3, Times DEF Recent
  <2> QED
    BY <2>2, <2>4
<1>5. Counted(now) \subseteq T
  BY <1>4
<1>6. Cardinality(Counted(now)) <= Cardinality(T) /\ IsFiniteSet(Counted(now))
  BY <1>3, <1>5, FS_Subset
<1>7. Cardinality(Counted(now)) \in Nat /\ Cardinality(T) \in Nat /\ Cardinality(R) \in Nat
  BY <1>1, <1>3, <1>6, FS_CardinalityType
<1> QED
  BY <1>3, <1>6, <1>7

LEMMA InitInv == Init => Inv
<1> SUFFICES ASSUME Init PROVE Inv
  OBVIOUS
<1> USE LimitsAssumption DEF Init
<1>1. TypeOK
  <2>1. now \in 0..MaxTime
    OBVIOUS
  <2>2. accepted \in Seq([wait : Cooldown, at : 0..MaxTime]) /\ trades \in Seq(0..MaxTime)
    OBVIOUS
  <2>3. locked \in BOOLEAN
    OBVIOUS
  <2> QED
    BY <2>1, <2>2, <2>3 DEF TypeOK
<1>2. TimesInv
  <2>1. IsFiniteSet(orderTimes)
    BY FS_EmptySet, Zenon
  <2> QED
    BY <2>1 DEF TimesInv
<1>3. HourlyLimitHolds /\ CooldownHolds
  BY DEF HourlyLimitHolds, CooldownHolds
<1>4. LastInv /\ CheckedInv
  BY DEF LastInv, CheckedInv
<1> QED
  BY <1>1, <1>2, <1>3, <1>4 DEF Inv

-----------------------------------------------------------------------------
\* validate() lets an iteration go on with what it found.
LEMMA ValidateKeepsInv == Inv /\ Validate => Inv'
<1> SUFFICES ASSUME Inv, Validate PROVE Inv'
  OBVIOUS
<1>1. /\ pc = "idle" /\ orderTimes' = Recent(orderTimes)
      /\ UNCHANGED <<settings, now, cooldown, lastOrderAt, accepted, trades>>
      /\ locked' = (locked \/ LossLimitMet)
  BY DEF Validate
<1>2. \/ UNCHANGED <<pc, attempt>>
      \/ /\ ~Blocked(Recent(orderTimes))
         /\ pc' = "checked" /\ attempt' = [wait |-> cooldown, at |-> Never]
  BY DEF Validate
<1>3. Recent(orderTimes) \subseteq orderTimes
  BY DEF Recent
<1>4. TypeOK'
  <2>1. pc' \in {"idle", "checked"} /\ locked' \in BOOLEAN
    BY <1>1, <1>2
  <2>2. attempt' \in [wait : Cooldown, at : {Never} \union 0..MaxTime] \union {NoAttempt}
    BY <1>2 DEF Inv, TypeOK
  <2> QED
    BY <1>1, <1>3, <2>1, <2>2 DEF Inv, TypeOK
<1>5. TimesInv'
  <2>1. IsFiniteSet(orderTimes')
    BY <1>1, <1>3, FS_Subset DEF Inv, TimesInv
  <2>2. ASSUME NEW i \in DOMAIN accepted, accepted[i].at + Hour > now
        PROVE  \E x \in orderTimes' : x.order = i /\ x.at >= accepted[i].at
    <3>1. accepted[i].at \in Nat
      BY Times
    <3>2. PICK x \in orderTimes : x.order = i /\ x.at >= accepted[i].at
      BY <2>2, <3>1, Times DEF Inv, TimesInv
    <3>3. x.at \in Nat
      BY LimitsAssumption DEF Inv, TypeOK
    <3>4. x \in Recent(orderTimes)
      BY <2>2, <3>1, <3>2, <3>3, Times DEF Recent
    <3> QED
      BY <1>1, <3>2, <3>4
  <2> QED
    BY <1>1, <2>1, <2>2, Times DEF Inv, TimesInv
<1>6. CheckedInv'
  <2>1. CASE UNCHANGED <<pc, attempt>>
    BY <1>1, <2>1 DEF CheckedInv
  <2>2. CASE /\ ~Blocked(Recent(orderTimes))
             /\ pc' = "checked" /\ attempt' = [wait |-> cooldown, at |-> Never]
    <3>1. Cardinality(Counted(now)) < MaxOrdersPerHour
      <4>1. IsFiniteSet(Recent(orderTimes)) /\ IsFiniteSet(Counted(now))
        BY <1>3, Times, FS_Subset DEF Inv, TimesInv, Counted
      <4>2. Cardinality(Recent(orderTimes)) \in Nat /\ Cardinality(Counted(now)) \in Nat
        BY <4>1, FS_CardinalityType
      <4>3. ~(Cardinality(Recent(orderTimes)) >= MaxOrdersPerHour)
        BY <2>2 DEF Blocked
      <4> QED
        BY <4>2, <4>3, RecentCounts, Times
    <3>2. lastOrderAt # Never => lastOrderAt + cooldown <= now
      BY <2>2, LimitsAssumption DEF Blocked, Cooling, Inv, TypeOK, Never
    <3>3. attempt' \in [wait : Cooldown, at : {Never}] /\ attempt'.wait = cooldown
      BY <2>2 DEF Inv, TypeOK
    <3>4. Counted(now)' = Counted(now)
      BY <1>1 DEF Counted
    <3> QED
      BY <1>1, <2>2, <3>1, <3>2, <3>3, <3>4 DEF CheckedInv
  <2> QED
    BY <1>2, <2>1, <2>2
<1>7. LastInv' /\ HourlyLimitHolds' /\ CooldownHolds'
  BY <1>1 DEF Inv, LastInv, HourlyLimitHolds, CooldownHolds, InHourOf
<1> QED
  BY <1>4, <1>5, <1>6, <1>7 DEF Inv

\* The order is posted at a time at which validate() would let it go on, too.
LEMMA PostsKeepsInv == Inv /\ Posts => Inv'
<1> SUFFICES ASSUME Inv, Posts PROVE Inv'
  OBVIOUS
<1>1. /\ pc = "checked" /\ pc' = "placing" /\ attempt' = [attempt EXCEPT !.at = now]
      /\ UNCHANGED <<settings, now, cooldown, state, accepted, trades>>
  BY DEF Posts
<1>2. attempt \in [wait : Cooldown, at : {Never}]
  BY <1>1 DEF Inv, CheckedInv
<1>3. attempt'.at = now /\ attempt'.wait = attempt.wait /\ attempt'.wait \in Cooldown
      /\ attempt' \in [wait : Cooldown, at : 0..now] /\ attempt' \in [wait : Cooldown, at : 0..MaxTime]
  <2>1. now \in 0..now /\ now \in 0..MaxTime
    BY Times DEF Inv, TypeOK
  <2> QED
    BY <1>1, <1>2, <2>1
<1>4. TypeOK'
  BY <1>1, <1>3 DEF state, Inv, TypeOK
<1>5. CheckedInv'
  <2>1. now' = now /\ accepted' = accepted /\ lastOrderAt' = lastOrderAt
    BY <1>1 DEF state
  <2>2. /\ Cardinality(Counted(now)) < MaxOrdersPerHour
        /\ lastOrderAt # Never => lastOrderAt + attempt.wait <= now
        /\ \A i \in DOMAIN accepted : accepted[i].at <= now
    BY <1>1 DEF Inv, CheckedInv, TimesInv
  <2>3. pc' # "checked"
    BY <1>1
  <2>4. /\ attempt' \in [wait : Cooldown, at : 0..now']
        /\ lastOrderAt' # Never => lastOrderAt' + attempt'.wait <= attempt'.at
        /\ \A i \in DOMAIN accepted' : accepted'[i].at <= attempt'.at
    BY <1>3, <2>1, <2>2
  <2>5. Counted(attempt.at)' = Counted(now)
    BY <1>1, <1>3 DEF Counted
  <2> QED
    BY <2>2, <2>3, <2>4, <2>5 DEF CheckedInv
<1>6. TimesInv' /\ LastInv'
  BY <1>1 DEF state, Inv, TimesInv, LastInv
<1>7. HourlyLimitHolds' /\ CooldownHolds'
  BY <1>1 DEF Inv, HourlyLimitHolds, CooldownHolds, InHourOf
<1> QED
  BY <1>4, <1>5, <1>6, <1>7 DEF Inv

\* The accepted orders posted in the hour that ends with time t.
Within(t) == {j \in DOMAIN accepted : accepted[j].at \in (t - Hour + 1)..t}

LEMMA HourCounts ==
    ASSUME NEW t
    PROVE  InHourOf(t, [j \in DOMAIN accepted |-> accepted[j].at]) = Cardinality(Within(t))
  BY DEF InHourOf, Within

\* An accepted order is recorded after it was posted, and counted where it was posted.
LEMMA AcceptedKeepsInv ==
    ASSUME Inv, NEW made \in BOOLEAN, Accepted(made)
    PROVE  Inv'
<1>1. /\ pc = "placing" /\ pc' = "idle" /\ lastOrderAt' = now /\ attempt' = NoAttempt
      /\ orderTimes' = orderTimes \union {[order |-> Len(accepted) + 1, at |-> now]}
      /\ accepted' = Append(accepted, attempt)
      /\ trades' = IF made THEN Append(trades, attempt.at) ELSE trades
      /\ UNCHANGED <<settings, now, cooldown, locked>>
  BY SMTT(30) DEF Accepted, Trades
<1>2. PICK n \in Nat : Len(accepted) = n /\ DOMAIN accepted = 1..n
  BY Times
<1>3. PICK p \in Nat : p = attempt.at /\ p \in 0..MaxTime /\ p <= now /\ attempt.wait \in Cooldown
  <2>1. attempt.at \in 0..now /\ attempt.wait \in Cooldown
    BY <1>1 DEF Inv, CheckedInv
  <2> QED
    BY <2>1, Times, LimitsAssumption DEF Inv, TypeOK
<1>4. PICK w \in Nat : w = attempt.wait
  BY <1>3, LimitsAssumption
<1>5. /\ attempt \in [wait : Cooldown, at : 0..MaxTime]
      /\ accepted \in Seq([wait : Cooldown, at : 0..MaxTime])
  <2>1. attempt \in [wait : Cooldown, at : 0..now]
    BY <1>1 DEF Inv, CheckedInv
  <2> QED
    BY <1>3, <2>1 DEF Inv, TypeOK
<1>6. /\ accepted' \in Seq([wait : Cooldown, at : 0..MaxTime])
      /\ DOMAIN accepted' = 1..(n + 1) /\ Len(accepted') = n + 1
      /\ accepted'[n + 1] = attempt
      /\ \A i \in 1..n : accepted'[i] = accepted[i]
  <2> DEFINE S == [wait : Cooldown, at : 0..MaxTime]
  <2>1. attempt \in S /\ accepted \in Seq(S)
    BY <1>5
  <2> HIDE DEF S
  <2>2. /\ accepted' \in Seq(S) /\ DOMAIN accepted' = 1..(n + 1) /\ Len(accepted') = n + 1
        /\ accepted'[n + 1] = attempt /\ \A i \in 1..n : accepted'[i] = accepted[i]
    BY <1>1, <1>2, <2>1
  <2> QED
    BY <2>2 DEF S
<1>7. \A i \in 1..n : accepted[i].at \in Nat /\ accepted[i].at <= p
  BY <1>1, <1>2, <1>3, Times DEF Inv, CheckedInv
<1>8. TypeOK'
  <2>1. orderTimes' \subseteq [order : Nat, at : 0..MaxTime]
    BY <1>1, <1>2 DEF Inv, TypeOK
  <2>2. trades' \in Seq(0..MaxTime)
    <3>1. trades \in Seq(0..MaxTime) /\ Append(trades, attempt.at) \in Seq(0..MaxTime)
      BY <1>3 DEF Inv, TypeOK
    <3> QED
      BY <1>1, <3>1, Zenon
  <2>3. lastOrderAt' \in 0..MaxTime
    BY <1>1 DEF Inv, TypeOK
  <2> QED
    BY <1>1, <1>6, <2>1, <2>2, <2>3 DEF Inv, TypeOK
<1>9. TimesInv'
  <2>1. IsFiniteSet(orderTimes')
    BY <1>1, FS_AddElement DEF Inv, TimesInv
  <2>2. ASSUME NEW i \in 1..(n + 1)
        PROVE  /\ accepted'[i].at <= now
               /\ \/ accepted'[i].at + Hour <= now
                  \/ \E x \in orderTimes' : x.order = i /\ x.at >= accepted'[i].at
    <3>1. CASE i = n + 1
      <4> DEFINE x == [order |-> n + 1, at |-> now]
      <4>1. x \in orderTimes' /\ x.order = i /\ x.at = now
        BY <1>1, <1>2, <3>1
      <4>2. accepted'[i].at = p
        BY <1>3, <1>6, <3>1
      <4> QED
        BY <1>3, <4>1, <4>2
    <3>2. CASE i \in 1..n
      BY <1>1, <1>2, <1>6, <3>2 DEF Inv, TimesInv
    <3>3. i \in 1..n \/ i = n + 1
      OBVIOUS
    <3> QED
      BY <3>1, <3>2, <3>3
  <2> QED
    BY <1>1, <1>6, <2>1, <2>2 DEF TimesInv
<1>10. LastInv'
  <2>1. accepted'[Len(accepted')].at = p /\ lastOrderAt' = now
    BY <1>1, <1>3, <1>6
  <2>2. now # Never
    BY Times DEF Never
  <2> QED
    BY <1>3, <2>1, <2>2 DEF LastInv
<1>11. CheckedInv'
  BY <1>1 DEF CheckedInv
<1>12. CooldownHolds'
  <2>1. ASSUME NEW i \in 1..(n + 1), i > 1
        PROVE  accepted'[i].at >= accepted'[i - 1].at + accepted'[i].wait
    <3>1. CASE i = n + 1
      <4>1. n \in 1..n /\ accepted'[i - 1] = accepted[n] /\ accepted # <<>>
        BY <1>2, <1>6, <2>1, <3>1
      <4>2. lastOrderAt # Never /\ accepted[n].at <= lastOrderAt
        BY <1>2, <4>1 DEF Inv, LastInv
      <4>3. lastOrderAt \in Nat /\ lastOrderAt + w <= p
        BY <1>1, <1>3, <1>4, <4>2, LimitsAssumption DEF Inv, TypeOK, CheckedInv
      <4>4. accepted'[i].at = p /\ accepted'[i].wait = w
        BY <1>3, <1>4, <1>6, <3>1
      <4>5. accepted[n].at \in Nat
        BY <1>7, <4>1
      <4> QED
        BY <4>1, <4>2, <4>3, <4>4, <4>5
    <3>2. CASE i \in 1..n
      <4>1. i - 1 \in 1..n
        BY <2>1, <3>2
      <4> QED
        BY <1>2, <1>6, <2>1, <3>2, <4>1 DEF Inv, CooldownHolds
    <3>3. i \in 1..n \/ i = n + 1
      OBVIOUS
    <3> QED
      BY <3>1, <3>2, <3>3
  <2> QED
    BY <1>6, <2>1 DEF CooldownHolds
<1>13. Cardinality(Within(p)') <= MaxOrdersPerHour
  <2>1. Within(p)' \subseteq Counted(p) \union {n + 1}
    <3>1. ASSUME NEW j \in 1..n, accepted'[j].at \in (p - Hour + 1)..p PROVE j \in Counted(p)
      BY <1>2, <1>6, <1>7, <3>1, Times DEF Counted
    <3>2. \A j \in 1..(n + 1) : j \in 1..n \/ j = n + 1
      OBVIOUS
    <3> QED
      BY <1>6, <3>1, <3>2 DEF Within
  <2>2. IsFiniteSet(Counted(p)) /\ Cardinality(Counted(p)) \in Nat
    BY Times, FS_Subset, FS_CardinalityType DEF Counted
  <2>3. Cardinality(Counted(p)) < MaxOrdersPerHour
    BY <1>1, <1>3 DEF Inv, CheckedInv
  <2>4. /\ IsFiniteSet(Counted(p) \union {n + 1})
        /\ Cardinality(Counted(p) \union {n + 1}) <= Cardinality(Counted(p)) + 1
    <3> DEFINE S == Counted(p)
               T == Counted(p) \union {n + 1}
    <3>1. IsFiniteSet(T) /\ (Cardinality(T) = Cardinality(S) \/ Cardinality(T) = Cardinality(S) + 1)
      BY <2>2, FS_AddElement, Zenon
    <3>2. Cardinality(S) \in Nat
      BY <2>2
    <3> HIDE DEF S, T
    <3>3. IsFiniteSet(T) /\ Cardinality(T) <= Cardinality(S) + 1
      BY <3>1, <3>2
    <3> QED
      BY <3>3 DEF S, T
  <2>5. /\ Cardinality(Within(p)') <= Cardinality(Counted(p) \union {n + 1})
        /\ Cardinality(Within(p)') \in Nat /\ Cardinality(Counted(p) \union {n + 1}) \in Nat
    BY <2>1, <2>4, FS_Subset, FS_CardinalityType
  <2> QED
    BY <2>2, <2>3, <2>4, <2>5, Times
<1>14. HourlyLimitHolds'
  <2> SUFFICES ASSUME NEW i \in 1..(n + 1)
               PROVE  InHourOf(accepted'[i].at, [j \in DOMAIN accepted' |-> accepted'[j].at])
                          <= MaxOrdersPerHour
    BY <1>6 DEF HourlyLimitHolds
  <2>1. PICK t \in Nat : t = accepted'[i].at /\ t <= p /\ (i \in 1..n \/ t = p)
    <3>1. CASE i \in 1..n
      BY <1>6, <1>7, <3>1
    <3>2. CASE i = n + 1
      BY <1>3, <1>6, <3>2
    <3> QED
      BY <3>1, <3>2
  <2>2. InHourOf(t, [j \in DOMAIN accepted' |-> accepted'[j].at]) = Cardinality(Within(t)')
    BY DEF InHourOf, Within
  <2>3. CASE t = p
    BY <1>13, <2>1, <2>2, <2>3
  <2>4. CASE t < p
    <3>1. i \in 1..n /\ accepted[i].at = t
      BY <1>6, <2>1, <2>4
    <3>2. ASSUME NEW j \in 1..(n + 1), accepted'[j].at \in (t - Hour + 1)..t PROVE j \in Within(t)
      <4>1. j # n + 1
        BY <1>3, <1>6, <2>4, <3>2, Times
      <4>2. j \in 1..n
        BY <4>1
      <4> QED
        BY <1>2, <1>6, <3>2, <4>2 DEF Within
    <3>3. \A j \in 1..n : j \in 1..(n + 1)
      OBVIOUS
    <3>4. Within(t)' = Within(t)
      BY <1>1, <1>2, <1>6, <3>2, <3>3 DEF Within
    <3> QED
      BY <1>2, <2>1, <2>2, <3>1, <3>4, HourCounts DEF Inv, HourlyLimitHolds
  <2> QED
    BY <2>1, <2>3, <2>4
<1> QED
  BY <1>8, <1>9, <1>10, <1>11, <1>12, <1>14 DEF Inv

-----------------------------------------------------------------------------
\* Time passes: orders leave the hour, and none enters.
LEMMA TickKeepsInv == Inv /\ Tick => Inv'
<1> SUFFICES ASSUME Inv, Tick PROVE Inv'
  OBVIOUS
<1>1. now' = now + 1 /\ now < MaxTime /\ UNCHANGED <<settings, pc, cooldown, state, history>>
  BY DEF Tick
<1>2. now \in Nat /\ now' \in 0..MaxTime /\ Hour \in Nat /\ MaxOrdersPerHour \in Nat
      /\ \A i \in DOMAIN accepted : accepted[i].at \in Nat
  BY <1>1, Times, LimitsAssumption DEF Inv, TypeOK
<1>3. TypeOK'
  BY <1>1, <1>2 DEF state, history, Inv, TypeOK
<1>4. TimesInv'
  BY <1>1, <1>2 DEF state, history, Inv, TimesInv
<1>5. CheckedInv'
  <2>1. Counted(now + 1) \subseteq Counted(now)
    BY <1>2 DEF Counted
  <2>2. Cardinality(Counted(now + 1)) <= Cardinality(Counted(now))
        /\ Cardinality(Counted(now + 1)) \in Nat /\ Cardinality(Counted(now)) \in Nat
    <3>1. IsFiniteSet(Counted(now))
      BY Times, FS_Subset DEF Counted
    <3> QED
      BY <2>1, <3>1, FS_Subset, FS_CardinalityType
  <2>3. Counted(now)' = Counted(now + 1) /\ Counted(attempt.at)' = Counted(attempt.at)
    BY <1>1 DEF state, history, Counted
  <2>4. CASE pc = "checked"
    <3>1. /\ attempt \in [wait : Cooldown, at : {Never}]
          /\ Cardinality(Counted(now)) < MaxOrdersPerHour
          /\ lastOrderAt # Never => lastOrderAt + attempt.wait <= now
      BY <2>4 DEF Inv, CheckedInv
    <3>2. Cardinality(Counted(now)') < MaxOrdersPerHour
      BY <1>2, <2>2, <2>3, <3>1
    <3>3. attempt.wait \in Nat
      BY <3>1, LimitsAssumption
    <3>4. lastOrderAt # Never => lastOrderAt + attempt.wait <= now + 1
      <4>1. lastOrderAt # Never => lastOrderAt \in Nat
        BY LimitsAssumption DEF Inv, TypeOK
      <4> QED
        BY <1>2, <3>1, <3>3, <4>1
    <3> QED
      BY <1>1, <2>4, <3>1, <3>2, <3>4 DEF state, history, CheckedInv
  <2>5. CASE pc = "placing"
    <3>1. attempt \in [wait : Cooldown, at : 0..(now + 1)]
      BY <1>2, <2>5 DEF Inv, CheckedInv
    <3> QED
      BY <1>1, <2>3, <2>5, <3>1 DEF state, history, Inv, CheckedInv
  <2> QED
    BY <1>1, <2>4, <2>5 DEF CheckedInv
<1>6. LastInv' /\ HourlyLimitHolds' /\ CooldownHolds'
  BY <1>1 DEF state, history, Inv, LastInv, HourlyLimitHolds, CooldownHolds, InHourOf
<1> QED
  BY <1>3, <1>4, <1>5, <1>6 DEF Inv

\* The steps that record nothing.
LEMMA OtherStepsKeepInv ==
    ASSUME Inv, \/ Unlock \/ Declines \/ UNCHANGED vars
                \/ \E c \in Cooldown : PatchCooldown(c)
                \/ \E made \in BOOLEAN : NotAccepted(made)
    PROVE  Inv'
<1> USE DEF Unlock, Declines, PatchCooldown, NotAccepted, Trades, vars, state, history
<1>1. /\ UNCHANGED <<settings, now, orderTimes, lastOrderAt, accepted>>
      /\ UNCHANGED <<pc, attempt>> \/ pc' = "idle"
  OBVIOUS
<1>2. TypeOK'
  <2>1. ASSUME NEW made \in BOOLEAN, NotAccepted(made)
        PROVE  trades' \in Seq(0..MaxTime)
    <3>1. attempt.at \in 0..MaxTime
      <4>1. attempt.at \in 0..now
        BY <2>1 DEF Inv, CheckedInv
      <4> QED
        BY <4>1, Times, LimitsAssumption DEF Inv, TypeOK
    <3>2. trades' = trades \/ trades' = Append(trades, attempt.at)
      BY <2>1
    <3>3. trades \in Seq(0..MaxTime)
      BY DEF Inv, TypeOK
    <3>4. Append(trades, attempt.at) \in Seq(0..MaxTime)
      BY <3>1, <3>3
    <3> QED
      BY <3>2, <3>3, <3>4, Zenon
  <2>2. trades' \in Seq(0..MaxTime)
    BY <2>1 DEF Inv, TypeOK
  <2>3. locked' \in BOOLEAN
    BY DEF Inv, TypeOK
  <2>4. /\ pc' \in {"idle", "checked", "placing"} /\ cooldown' \in Cooldown
        /\ attempt' \in [wait : Cooldown, at : {Never} \union 0..MaxTime] \union {NoAttempt}
    BY DEF Inv, TypeOK
  <2> QED
    BY <1>1, <2>2, <2>3, <2>4 DEF Inv, TypeOK
<1>3. TimesInv' /\ LastInv' /\ CheckedInv'
  BY <1>1 DEF Inv, TimesInv, LastInv, CheckedInv, Counted
<1>4. HourlyLimitHolds' /\ CooldownHolds'
  BY <1>1 DEF Inv, HourlyLimitHolds, CooldownHolds, InHourOf
<1> QED
  BY <1>2, <1>3, <1>4 DEF Inv

\* No step disturbs the invariant.
LEMMA StepInv == Inv /\ [Next]_vars => Inv'
  BY ValidateKeepsInv, PostsKeepsInv, AcceptedKeepsInv, TickKeepsInv, OtherStepsKeepInv DEF Next

-----------------------------------------------------------------------------
\* The inductive invariant holds in every behaviour of the service, the worker and
\* the clock (risk_service.py:22-50, trading_worker.py:67-97).
THEOREM Invariance == Spec => []Inv
<1>1. Init => Inv
  BY InitInv
<1>2. Inv /\ [Next]_vars => Inv'
  BY StepInv
<1> QED
  BY <1>1, <1>2, PTL DEF Spec

\* Every variable keeps its type: no order is recorded or traded without the time
\* it was posted at (risk_service.py:42-43, trading_worker.py:93-97).
THEOREM LimitTypes == Spec => []TypeOK
<1>1. Inv => TypeOK
  BY DEF Inv
<1> QED
  BY <1>1, Invariance, PTL

\* In no hour more accepted orders are posted than the limit, although the service
\* counts when they were recorded (risk_service.py:24, 28, 42-43).
THEOREM HourlyLimit == Spec => []HourlyLimitHolds
<1>1. Inv => HourlyLimitHolds
  BY DEF Inv
<1> QED
  BY <1>1, Invariance, PTL

\* Accepted orders are posted the cooldown apart, of whatever length and however
\* patched (risk_service.py:31-32, engine_manager.py:121-128).
THEOREM CooldownApart == Spec => []CooldownHolds
<1>1. Inv => CooldownHolds
  BY DEF Inv
<1> QED
  BY <1>1, Invariance, PTL

=============================================================================
