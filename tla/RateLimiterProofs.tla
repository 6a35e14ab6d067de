--------------------------- MODULE RateLimiterProofs ---------------------------
(***************************************************************************)
(* Proofs about RateLimiter, for any clients, limit and window: the window *)
(* is never exceeded, and the queue, which forgets, decides like the exact *)
(* window of SlidingWindow, which counts every admission.                  *)
(***************************************************************************)
EXTENDS RateLimiter, FiniteSetTheorems, SequenceTheorems, TLAPS

\* The admissions of a client are in order, and its queue is what is left of them
\* without the first d, which are older than the window.
Suffix(c, d) ==
    /\ d + Len(queue[c]) = Len(admitted[c])
    /\ \A j \in 1..Len(queue[c]) : queue[c][j] = admitted[c][d + j]
    /\ \A i \in 1..d : admitted[c][i] + Window < now

InOrder(c) ==
    /\ \A i \in DOMAIN admitted[c] : admitted[c][i] <= now
    /\ \A i, j \in DOMAIN admitted[c] : i <= j => admitted[c][i] <= admitted[c][j]

Inv ==
    /\ TypeOK
    /\ \A c \in Client : InOrder(c) /\ \E d \in Nat : Suffix(c, d)
    /\ WindowIsLimited

-----------------------------------------------------------------------------
\* What the loop leaves of the queue are the last admissions, and exactly those that
\* an observer finds in the window.
LEMMA LeftAreRecent ==
    ASSUME Inv, NEW c \in Client, NEW k \in 0..Len(queue[c]), Expires(queue[c], k)
    PROVE  \E d, m \in Nat :
              /\ Without(queue[c], k) \in Seq(0..MaxTime)
              /\ Len(Without(queue[c], k)) = m
              /\ d + m = Len(admitted[c])
              /\ \A j \in 1..m : Without(queue[c], k)[j] = admitted[c][d + j]
              /\ \A i \in 1..d : admitted[c][i] + Window < now
              /\ \A i \in (d + 1)..(d + m) : admitted[c][i] + Window >= now
<1> DEFINE q == queue[c]
           a == admitted[c]
           w == Without(q, k)
<1>1. q \in Seq(0..MaxTime) /\ a \in Seq(0..MaxTime) /\ now \in Nat /\ Window \in Nat /\ MaxTime \in Nat
  BY LimiterAssumption DEF Inv, TypeOK
<1>2. PICK n \in Nat : Len(q) = n
  <2>1. Len(q) \in Nat
    BY <1>1
  <2> QED
    BY <2>1
<1>3. PICK e \in Nat : Suffix(c, e)
  BY DEF Inv
<1>4. k \in 0..n
  BY <1>2
<1>5. w \in Seq(0..MaxTime) /\ Len(w) = n - k /\ \A j \in 1..(n - k) : w[j] = q[k + j]
  BY <1>1, <1>2, <1>4 DEF Without
<1>6. /\ e + n = Len(a)
      /\ \A j \in 1..n : q[j] = a[e + j]
      /\ \A i \in 1..e : a[i] + Window < now
  BY <1>2, <1>3 DEF Suffix
<1>7. /\ \A i \in 1..k : q[i] + Window < now
      /\ k < n => q[k + 1] + Window >= now
  BY <1>2 DEF Expires
<1>8. \A i \in 1..(e + n) : a[i] \in Nat
  BY <1>1, <1>6
<1>9. \A i, j \in 1..(e + n) : i <= j => a[i] <= a[j]
  <2>1. DOMAIN a = 1..(e + n)
    BY <1>1, <1>6
  <2> QED
    BY <2>1 DEF Inv, InOrder
<1> HIDE DEF q, a, w
<1>10. e + k \in Nat /\ n - k \in Nat /\ (e + k) + (n - k) = e + n
  BY <1>4
<1>11. \A j \in 1..(n - k) : w[j] = a[(e + k) + j]
  <2> TAKE j \in 1..(n - k)
  <2>1. k + j \in 1..n /\ e + (k + j) = (e + k) + j
    BY <1>4
  <2> QED
    BY <1>5, <1>6, <2>1
<1>12. ASSUME NEW i \in 1..(e + k) PROVE a[i] + Window < now
  <2>1. CASE i <= e
    BY <1>6, <2>1
  <2>2. CASE i > e
    <3>1. i - e \in 1..k /\ i - e \in 1..n /\ e + (i - e) = i
      BY <1>4, <2>2
    <3> QED
      BY <1>6, <1>7, <3>1
  <2> QED
    BY <2>1, <2>2
<1>13. ASSUME NEW i \in ((e + k) + 1)..(e + n) PROVE a[i] + Window >= now
  <2>1. k < n /\ k + 1 \in 1..n /\ e + (k + 1) \in 1..(e + n) /\ i \in 1..(e + n) /\ e + (k + 1) <= i
    BY <1>4
  <2>2. a[e + (k + 1)] + Window >= now /\ a[e + (k + 1)] <= a[i]
    BY <1>6, <1>7, <1>9, <2>1
  <2> QED
    BY <1>1, <1>8, <2>1, <2>2, SMTT(30)
<1>14. /\ w \in Seq(0..MaxTime) /\ Len(w) = n - k /\ (e + k) + (n - k) = Len(a)
       /\ \A i \in ((e + k) + 1)..((e + k) + (n - k)) : a[i] + Window >= now
  BY <1>5, <1>6, <1>10, <1>13
<1> QED
  BY <1>10, <1>11, <1>12, <1>14 DEF q, a, w

\* So an observer counts as many admissions in the window as the loop leaves.
LEMMA LeftAreCounted ==
    ASSUME Inv, NEW c \in Client, NEW k \in 0..Len(queue[c]), Expires(queue[c], k)
    PROVE  /\ IsFiniteSet(ServedIn(c, now))
           /\ Cardinality(ServedIn(c, now)) = Len(Without(queue[c], k))
           /\ Exact!Recent(c) = Len(Without(queue[c], k))
<1> DEFINE a == admitted[c]
<1>1. PICK d, m \in Nat :
          /\ Len(Without(queue[c], k)) = m /\ d + m = Len(a)
          /\ \A i \in 1..d : a[i] + Window < now
          /\ \A i \in (d + 1)..(d + m) : a[i] + Window >= now
  BY LeftAreRecent
<1>2. a \in Seq(0..MaxTime) /\ now \in Nat /\ Window \in Nat /\ MaxTime \in Nat
  BY LimiterAssumption DEF Inv, TypeOK
<1>3. DOMAIN a = 1..(d + m)
  BY <1>1, <1>2
<1>4. \A i \in 1..(d + m) : a[i] \in 0..MaxTime /\ a[i] <= now
  <2>1. \A i \in DOMAIN a : a[i] <= now
    BY DEF Inv, InOrder
  <2>2. \A i \in 1..(d + m) : a[i] \in 0..MaxTime
    <3>1. Len(a) = d + m /\ d + m \in Nat
      BY <1>1
    <3> HIDE DEF a
    <3> QED
      BY <1>2, <3>1
  <2> QED
    BY <1>3, <2>1, <2>2
<1> HIDE DEF a
<1>5. \A i \in 1..(d + m) : a[i] + Window >= now <=> i \in (d + 1)..(d + m)
  BY <1>1, <1>2, <1>4, LimiterAssumption, SMTT(30)
<1>6. {i \in 1..(d + m) : a[i] + Window >= now} = (d + 1)..(d + m)
  BY <1>5
<1>7. ServedIn(c, now) = (d + 1)..(d + m) /\ {i \in DOMAIN a : a[i] + Window >= now} = (d + 1)..(d + m)
  BY <1>3, <1>4, <1>5 DEF ServedIn, a
<1>8. IsFiniteSet((d + 1)..(d + m)) /\ Cardinality((d + 1)..(d + m)) = m
  BY FS_Interval
<1>9. Exact!Recent(c) = Cardinality((d + 1)..(d + m))
  <2>1. Exact!Recent(c) = Exact!Cardinality((d + 1)..(d + m))
    BY <1>7 DEF Exact!Recent, a
  <2>2. Exact!Cardinality((d + 1)..(d + m)) = Cardinality((d + 1)..(d + m))
    BY Zenon DEF Exact!Cardinality, Cardinality
  <2> QED
    BY <2>1, <2>2
<1> QED
  BY <1>1, <1>7, <1>8, <1>9

\* The answers that name no client.
LEMMA PlainAnswers ==
    ASSUME NEW x \in {"none", "served", "too large"}
    PROVE  [is |-> x] \in Answer /\ [is |-> x].is # "refused"
  BY DEF Answer

LEMMA InitInv == Init => Inv
<1> SUFFICES ASSUME Init PROVE Inv
  OBVIOUS
<1> USE LimiterAssumption DEF Init
<1>1. TypeOK
  BY DEF TypeOK, Answer
<1>2. ASSUME NEW c \in Client PROVE InOrder(c) /\ \E d \in Nat : Suffix(c, d)
  <2>1. Suffix(c, 0) /\ InOrder(c)
    BY DEF Suffix, InOrder
  <2> QED
    BY <2>1
<1>3. WindowIsLimited
  <2>1. ASSUME NEW c \in Client, NEW t \in 0..now PROVE ServedIn(c, t) = {}
    BY DEF ServedIn
  <2> QED
    BY <2>1, FS_EmptySet DEF WindowIsLimited
<1> QED
  BY <1>1, <1>2, <1>3 DEF Inv

-----------------------------------------------------------------------------
\* An admission is appended where there were fewer than Limit.
LEMMA PassesKeepsInv ==
    ASSUME Inv, NEW c \in Client, NEW r \in Route, NEW k \in 0..Len(queue[c]), Passes(c, r, k)
    PROVE  Inv'
<1> DEFINE w == Without(queue[c], k)
           a == admitted[c]
<1>1. PICK d, m \in Nat :
          /\ w \in Seq(0..MaxTime) /\ Len(w) = m /\ d + m = Len(a)
          /\ \A j \in 1..m : w[j] = a[d + j]
          /\ \A i \in 1..d : a[i] + Window < now
          /\ \A i \in (d + 1)..(d + m) : a[i] + Window >= now
  BY LeftAreRecent DEF Passes
<1>2. /\ a \in Seq(0..MaxTime) /\ now \in 0..MaxTime /\ Window \in Nat /\ MaxTime \in Nat /\ Limit \in Nat
      /\ queue \in [Client -> Seq(0..MaxTime)] /\ admitted \in [Client -> Seq(0..MaxTime)]
  BY LimiterAssumption DEF Inv, TypeOK
<1>3. /\ m < Limit /\ now' = now /\ answer' = [is |-> "served"]
      /\ queue' = [queue EXCEPT ![c] = Append(w, now)]
      /\ admitted' = [admitted EXCEPT ![c] = Append(a, now)]
  BY <1>1 DEF Passes
<1> HIDE DEF w, a
<1>4. /\ Append(w, now) \in Seq(0..MaxTime) /\ Len(Append(w, now)) = m + 1
      /\ Append(w, now)[m + 1] = now /\ \A j \in 1..m : Append(w, now)[j] = w[j]
  <2>1. w \in Seq(0..MaxTime) /\ Len(w) = m /\ now \in 0..MaxTime
    BY <1>1, <1>2
  <2> QED
    BY <2>1
<1>5. /\ Append(a, now) \in Seq(0..MaxTime) /\ Len(Append(a, now)) = d + m + 1
      /\ Append(a, now)[d + m + 1] = now /\ \A i \in 1..(d + m) : Append(a, now)[i] = a[i]
      /\ DOMAIN Append(a, now) = 1..(d + m + 1) /\ DOMAIN a = 1..(d + m)
  BY <1>1, <1>2
<1>6. queue'[c] = Append(w, now) /\ admitted'[c] = Append(a, now)
  BY <1>2, <1>3
<1>7. \A b \in Client : b # c => queue'[b] = queue[b] /\ admitted'[b] = admitted[b]
  BY <1>2, <1>3
<1>8. TypeOK'
  <2>1. queue' \in [Client -> Seq(0..MaxTime)] /\ admitted' \in [Client -> Seq(0..MaxTime)]
    BY <1>2, <1>3, <1>4, <1>5
  <2>2. \A b \in Client : Len(queue'[b]) <= Limit
    BY <1>1, <1>2, <1>3, <1>4, <1>6, <1>7 DEF Inv, TypeOK
  <2>3. now' \in 0..MaxTime /\ answer' \in Answer
    BY <1>2, <1>3 DEF Answer
  <2> QED
    BY <2>1, <2>2, <2>3 DEF TypeOK
<1>9. ASSUME NEW b \in Client PROVE InOrder(b)' /\ (\E e \in Nat : Suffix(b, e))'
  <2>1. CASE b = c
    <3>1. InOrder(c)'
      <4>1. \A i, j \in 1..(d + m) : a[i] \in 0..MaxTime /\ a[i] <= now /\ (i <= j => a[i] <= a[j])
        <5>1. \A i \in 1..(d + m) : a[i] \in 0..MaxTime
          BY <1>1, <1>2
        <5> QED
          BY <1>5, <5>1 DEF Inv, InOrder, a
      <4>2. \A i, j \in 1..(d + m + 1) : /\ Append(a, now)[i] <= now
                                         /\ (i <= j => Append(a, now)[i] <= Append(a, now)[j])
        <5> TAKE i, j \in 1..(d + m + 1)
        <5>1. i \in 1..(d + m) \/ i = d + m + 1
          OBVIOUS
        <5>2. Append(a, now)[i] <= now
          BY <1>2, <1>5, <4>1, <5>1
        <5>3. CASE j = d + m + 1
          BY <1>5, <5>2, <5>3
        <5>4. CASE j \in 1..(d + m)
          <6>1. i <= j => i \in 1..(d + m)
            BY <5>4
          <6> QED
            BY <1>5, <4>1, <5>2, <5>4, <6>1
        <5>5. j \in 1..(d + m) \/ j = d + m + 1
          OBVIOUS
        <5> QED
          BY <5>2, <5>3, <5>4, <5>5
      <4> QED
        BY <1>3, <1>5, <1>6, <4>2 DEF InOrder
    <3>2. Suffix(c, d)'
      <4>1. \A j \in 1..(m + 1) : Append(w, now)[j] = Append(a, now)[d + j]
        <5> TAKE j \in 1..(m + 1)
        <5>1. CASE j \in 1..m
          BY <1>1, <1>4, <1>5, <5>1
        <5>2. CASE j = m + 1
          BY <1>4, <1>5, <5>2
        <5>3. j \in 1..m \/ j = m + 1
          OBVIOUS
        <5> QED
          BY <5>1, <5>2, <5>3
      <4>2. \A i \in 1..d : Append(a, now)[i] + Window < now
        BY <1>1, <1>5
      <4>3. d + (m + 1) = d + m + 1
        OBVIOUS
      <4> QED
        BY <1>3, <1>4, <1>5, <1>6, <4>1, <4>2, <4>3 DEF Suffix
    <3> QED
      BY <2>1, <3>1, <3>2
  <2>2. CASE b # c
    <3>1. InOrder(b) /\ \E e \in Nat : Suffix(b, e)
      BY DEF Inv
    <3>2. InOrder(b)'
      BY <1>3, <1>7, <2>2, <3>1 DEF InOrder
    <3>3. ASSUME NEW e \in Nat, Suffix(b, e) PROVE Suffix(b, e)'
      BY <1>3, <1>7, <2>2, <3>3 DEF Suffix
    <3> QED
      BY <3>1, <3>2, <3>3
  <2> QED
    BY <2>1, <2>2
<1>10. ASSUME NEW b \in Client, NEW t \in 0..now PROVE Cardinality(ServedIn(b, t)') <= Limit
  <2>1. CASE b # c
    BY <1>7, <2>1 DEF Inv, WindowIsLimited, ServedIn
  <2>2. CASE b = c /\ t < now
    <3>1. ServedIn(c, t)' = ServedIn(c, t)
      BY <1>2, <1>5, <1>6, <2>2 DEF ServedIn, a
    <3> QED
      BY <2>2, <3>1 DEF Inv, WindowIsLimited
  <2>3. CASE b = c /\ t = now
    <3>1. ServedIn(c, now)' = ServedIn(c, now) \union {d + m + 1}
      BY <1>2, <1>3, <1>5, <1>6, SMTT(30) DEF ServedIn, a
    <3>2. d + m + 1 \notin ServedIn(c, now)
      BY <1>5 DEF ServedIn, a
    <3>3. IsFiniteSet(ServedIn(c, now)) /\ Cardinality(ServedIn(c, now)) = m
      BY <1>1, LeftAreCounted DEF Passes, w
    <3>4. Cardinality(ServedIn(c, now)') = m + 1
      BY <3>1, <3>2, <3>3, FS_AddElement
    <3> QED
      BY <1>2, <1>3, <2>3, <3>4
  <2> QED
    BY <1>2, <2>1, <2>2, <2>3
<1>11. WindowIsLimited'
  BY <1>3, <1>10 DEF WindowIsLimited
<1> QED
  BY <1>8, <1>9, <1>11 DEF Inv

\* A refusal only shortens the queue.
LEMMA RefusesKeepsInv ==
    ASSUME Inv, NEW c \in Client, NEW r \in Route, NEW k \in 0..Len(queue[c]), Refuses(c, r, k)
    PROVE  Inv'
<1> DEFINE w == Without(queue[c], k)
<1>1. PICK d, m \in Nat :
          /\ w \in Seq(0..MaxTime) /\ Len(w) = m /\ d + m = Len(admitted[c])
          /\ \A j \in 1..m : w[j] = admitted[c][d + j]
          /\ \A i \in 1..d : admitted[c][i] + Window < now
  BY LeftAreRecent DEF Refuses
<1>2. PICK n \in Nat : Len(queue[c]) = n /\ n <= Limit
  <2>1. Len(queue[c]) \in Nat /\ Len(queue[c]) <= Limit
    BY DEF Inv, TypeOK
  <2> QED
    BY <2>1
<1>3. m <= n
  <2>1. \A i \in 1..n : queue[c][i] \in 0..MaxTime
    <3>1. queue[c] \in Seq(0..MaxTime) /\ Len(queue[c]) = n
      BY <1>2 DEF Inv, TypeOK
    <3> QED
      BY <3>1, LimiterAssumption
  <2>2. Len(w) = IF k + 1 <= n THEN n - (k + 1) + 1 ELSE 0
    <3>1. \A i \in (k + 1)..n : queue[c][i] \in 0..MaxTime
      BY <2>1
    <3> QED
      BY <1>2, <3>1, SubSeqProperties DEF Without
  <2> QED
    BY <1>1, <1>2, <2>2
<1>4. /\ now' = now /\ admitted' = admitted /\ answer' = [is |-> "refused", client |-> c]
      /\ queue' = [queue EXCEPT ![c] = w]
  BY DEF Refuses
<1> HIDE DEF w
<1>5. queue'[c] = w /\ \A b \in Client : b # c => queue'[b] = queue[b]
  BY <1>4 DEF Inv, TypeOK
<1>6. TypeOK'
  <2>1. queue' \in [Client -> Seq(0..MaxTime)]
    BY <1>1, <1>4 DEF Inv, TypeOK
  <2>2. \A b \in Client : Len(queue'[b]) <= Limit
    <3>1. Len(queue'[c]) <= Limit
      BY <1>1, <1>2, <1>3, <1>5, LimiterAssumption
    <3>2. \A b \in Client : b # c => Len(queue'[b]) <= Limit
      BY <1>5 DEF Inv, TypeOK
    <3> QED
      BY <3>1, <3>2
  <2>3. answer' \in Answer
    BY <1>4 DEF Answer
  <2> QED
    BY <1>4, <2>1, <2>2, <2>3 DEF Inv, TypeOK
<1>7. ASSUME NEW b \in Client PROVE InOrder(b)' /\ (\E e \in Nat : Suffix(b, e))'
  <2>1. InOrder(b)'
    BY <1>4 DEF Inv, InOrder
  <2>2. CASE b = c
    <3>1. Suffix(c, d)'
      BY <1>1, <1>4, <1>5 DEF Suffix
    <3> QED
      BY <2>1, <2>2, <3>1
  <2>3. CASE b # c
    <3>1. PICK e \in Nat : Suffix(b, e)
      BY DEF Inv
    <3>2. Suffix(b, e)'
      BY <1>4, <1>5, <2>3, <3>1 DEF Suffix
    <3> QED
      BY <2>1, <3>2
  <2> QED
    BY <2>2, <2>3
<1>8. WindowIsLimited'
  BY <1>4 DEF Inv, WindowIsLimited, ServedIn
<1> QED
  BY <1>6, <1>7, <1>8 DEF Inv

\* As time passes admissions leave the window, and none enters.
LEMMA TickKeepsInv == Inv /\ Tick => Inv'
<1> SUFFICES ASSUME Inv, Tick PROVE Inv'
  OBVIOUS
<1>1. /\ now \in Nat /\ Window \in Nat /\ MaxTime \in Nat /\ Limit \in Nat
      /\ now' = now + 1 /\ queue' = queue /\ admitted' = admitted
  BY LimiterAssumption DEF Inv, TypeOK, Tick
<1>2. \A b \in Client : \A i \in DOMAIN admitted[b] : admitted[b][i] \in Nat
  BY <1>1 DEF Inv, TypeOK
<1>3. TypeOK'
  <2>1. now' \in 0..MaxTime
    BY <1>1 DEF Inv, TypeOK, Tick
  <2>2. answer' \in Answer
    BY PlainAnswers DEF Tick
  <2> QED
    BY <1>1, <2>1, <2>2 DEF Inv, TypeOK
<1>4. ASSUME NEW b \in Client PROVE InOrder(b)' /\ (\E e \in Nat : Suffix(b, e))'
  <2>1. InOrder(b)'
    BY <1>1, <1>2 DEF Inv, InOrder
  <2>2. PICK e \in Nat : Suffix(b, e)
    BY DEF Inv
  <2>3. \A i \in 1..e : admitted[b][i] \in Nat
    <3>1. PICK n \in Nat : Len(queue[b]) = n
      <4>1. Len(queue[b]) \in Nat
        BY DEF Inv, TypeOK
      <4> QED
        BY <4>1
    <3>2. admitted[b] \in Seq(0..MaxTime) /\ Len(admitted[b]) = e + n
      BY <2>2, <3>1 DEF Suffix, Inv, TypeOK
    <3> QED
      BY <1>2, <3>1, <3>2
  <2>4. Suffix(b, e)'
    BY <1>1, <2>2, <2>3 DEF Suffix
  <2> QED
    BY <2>1, <2>4
<1>5. ASSUME NEW b \in Client, NEW t \in 0..(now + 1) PROVE Cardinality(ServedIn(b, t)') <= Limit
  <2>1. ServedIn(b, t)' = ServedIn(b, t)
    BY <1>1 DEF ServedIn
  <2>2. CASE t \in 0..now
    BY <2>1, <2>2 DEF Inv, WindowIsLimited
  <2>3. CASE t = now + 1
    <3>1. ServedIn(b, t) \subseteq ServedIn(b, now)
      BY <1>1, <1>2, <2>3 DEF ServedIn, Inv, InOrder
    <3>2. IsFiniteSet(ServedIn(b, now))
      <4>1. IsFiniteSet(DOMAIN admitted[b])
        <5>1. DOMAIN admitted[b] = 1..Len(admitted[b]) /\ Len(admitted[b]) \in Nat
          BY DEF Inv, TypeOK
        <5> QED
          BY <5>1, FS_Interval
      <4> QED
        BY <4>1, FS_Subset DEF ServedIn
    <3>3. /\ Cardinality(ServedIn(b, t)) <= Cardinality(ServedIn(b, now))
          /\ Cardinality(ServedIn(b, t)) \in Nat /\ Cardinality(ServedIn(b, now)) \in Nat
      BY <3>1, <3>2, FS_Subset, FS_CardinalityType
    <3>4. Cardinality(ServedIn(b, now)) <= Limit
      BY <1>1 DEF Inv, WindowIsLimited
    <3> QED
      BY <1>1, <2>1, <3>3, <3>4
  <2> QED
    BY <1>1, <2>2, <2>3
<1>6. WindowIsLimited'
  BY <1>1, <1>5 DEF WindowIsLimited
<1> QED
  BY <1>3, <1>4, <1>6 DEF Inv

\* No step disturbs the invariant.
LEMMA StepInv == Inv /\ [Next]_vars => Inv'
<1> SUFFICES ASSUME Inv, [Next]_vars PROVE Inv'
  OBVIOUS
<1>1. ASSUME UNCHANGED <<now, queue, admitted>>, answer' \in Answer PROVE Inv'
  <2>1. TypeOK'
    BY <1>1 DEF Inv, TypeOK
  <2>2. ASSUME NEW b \in Client PROVE InOrder(b)' /\ (\E e \in Nat : Suffix(b, e))'
    BY <1>1 DEF Inv, InOrder, Suffix
  <2>3. WindowIsLimited'
    BY <1>1 DEF Inv, WindowIsLimited, ServedIn
  <2> QED
    BY <2>1, <2>2, <2>3 DEF Inv
<1>2. CASE \E r \in Route : TooLarge(r) \/ PassesOther(r)
  <2>1. UNCHANGED <<now, queue, admitted>> /\ answer' \in Answer
    BY <1>2, PlainAnswers DEF TooLarge, PassesOther
  <2> QED
    BY <1>1, <2>1
<1>3. CASE UNCHANGED vars
  BY <1>1, <1>3 DEF vars, Inv, TypeOK
<1> QED
  BY <1>2, <1>3, TickKeepsInv, PassesKeepsInv, RefusesKeepsInv DEF Next

-----------------------------------------------------------------------------
\* The inductive invariant holds in every behaviour of the middleware
\* (main.py:32-37).
THEOREM Invariance == Spec => []Inv
<1>1. Init => Inv
  BY InitInv
<1>2. Inv /\ [Next]_vars => Inv'
  BY StepInv
<1> QED
  BY <1>1, <1>2, PTL DEF Spec

\* Every variable keeps its type, and no queue is longer than the limit
\* (main.py:34-37).
THEOREM LimiterTypes == Spec => []TypeOK
<1>1. Inv => TypeOK
  BY DEF Inv
<1> QED
  BY <1>1, Invariance, PTL

\* With any limit, any window and any number of clients, no stretch of the window's
\* length has more than Limit sensitive requests of one client (main.py:35-37).
THEOREM LimitedWindow == Spec => []WindowIsLimited
<1>1. Inv => WindowIsLimited
  BY DEF Inv
<1> QED
  BY <1>1, Invariance, PTL

\* The queue decides like the exact window: it forgets only what no longer counts
\* (main.py:32-37).
THEOREM QueueIsExact == Spec => ImplementsWindow
<1>1. Init => Exact!Init
  BY DEF Init, Exact!Init
<1>2. Inv /\ [Next]_vars => [Exact!Next]_Exact!vars
  <2> SUFFICES ASSUME Inv, [Next]_vars PROVE [Exact!Next]_Exact!vars
    OBVIOUS
  <2>1. CASE Tick
    <3>1. now' = now + 1 /\ admitted' = admitted /\ answer'.is # "refused"
      BY <2>1 DEF Tick
    <3>2. Exact!Passes
      BY <3>1 DEF Exact!Passes
    <3> QED
      BY <3>2 DEF Exact!Next
  <2>2. ASSUME NEW r \in Route, TooLarge(r) \/ PassesOther(r) PROVE Exact!Next
    <3>1. now' = now /\ admitted' = admitted
      BY <2>2 DEF TooLarge, PassesOther
    <3>2. answer'.is # "refused"
      BY <2>2, PlainAnswers DEF TooLarge, PassesOther
    <3>3. Exact!Passes
      BY <3>1, <3>2 DEF Exact!Passes
    <3> QED
      BY <3>3 DEF Exact!Next
  <2>3. ASSUME NEW c \in Client, NEW r \in Route, NEW k \in 0..Len(queue[c]), Passes(c, r, k)
        PROVE  Exact!Next
    <3>1. Exact!Recent(c) < Limit
      BY <2>3, LeftAreCounted DEF Passes
    <3>2. Exact!Admit(c)
      BY <2>3, <3>1 DEF Passes, Exact!Admit
    <3> QED
      BY <3>2 DEF Exact!Next
  <2>4. ASSUME NEW c \in Client, NEW r \in Route, NEW k \in 0..Len(queue[c]), Refuses(c, r, k)
        PROVE  Exact!Next
    <3>1. Exact!Recent(c) >= Limit
      BY <2>4, LeftAreCounted DEF Refuses
    <3>2. Exact!Refuse(c)
      BY <2>4, <3>1 DEF Refuses, Exact!Refuse
    <3> QED
      BY <3>2 DEF Exact!Next
  <2>5. CASE UNCHANGED vars
    BY <2>5 DEF vars, Exact!vars
  <2> QED
    BY <2>1, <2>2, <2>3, <2>4, <2>5 DEF Next
<1> QED
  BY <1>1, <1>2, Invariance, PTL DEF Spec, ImplementsWindow, Exact!Spec

=============================================================================
