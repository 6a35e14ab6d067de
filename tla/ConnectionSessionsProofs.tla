----------------------- MODULE ConnectionSessionsProofs -----------------------
(***************************************************************************)
(* Proofs about ConnectionSessions, for any replicas, SSIDs, ids and       *)
(* requests in flight: the lock of a replica is held once, a mode that is  *)
(* read is the default or that of the create's own account unless another  *)
(* replica has named one, and a context has the id of its SSID's row.      *)
(***************************************************************************)
EXTENDS ConnectionSessions, TLAPS

\* Of the requests at a replica one at most is between the lookup of its SSID and
\* the end of create().
LockIsExclusive ==
    \A c, d \in Call :
        /\ call[c].pc \in Creating /\ call[d].pc \in Creating
        /\ call[c].at = call[d].at
        => c = d

\* What a create knows by the time it awaits a call: the account it has named is
\* still that of the API, or another replica has named one, and the row it found is
\* there.
Knows(q, named, stored) ==
    /\ q.pc # "idle" => q.at \in Replica
    /\ q.pc \in Creating \ {"balance again"} => q.ssid \in Ssid /\ q.id \in Id
    /\ q.pc \in {"stats", "balance"} => named.account = q.ssid \/ named.by # q.at
    /\ q.pc \in {"update", "adopt"} => stored[q.ssid] # NoRow
    /\ q.pc \in {"logout", "mark"} => q.id \in Id

CallsKnow == \A c \in Call : Knows(call[c], api, rows)

\* Only an SSID that has no row has no id.
RowsHaveIds == \A s \in Ssid : rows[s] # NoRow => rows[s].id \in Id

\* A context is of an SSID whose row has its id.
Kept(r, i) ==
    contexts[r][i] # NoContext =>
        /\ contexts[r][i].ssid \in Ssid
        /\ rows[contexts[r][i].ssid] # NoRow
        /\ rows[contexts[r][i].ssid].id = i

ContextsKept == \A r \in Replica, i \in Id : Kept(r, i)

Inv ==
    TypeOK /\ LockIsExclusive /\ CallsKnow /\ RowsHaveIds /\ ContextsKept

-----------------------------------------------------------------------------
LEMMA InitInv == Init => Inv
<1> SUFFICES ASSUME Init PROVE Inv
  OBVIOUS
<1> USE DEF Init, NoContext, NoRow, Idle
<1>1. TypeOK
  BY DEF TypeOK, CallPC, Mode
<1>2. LockIsExclusive /\ CallsKnow
  BY DEF LockIsExclusive, CallsKnow, Knows, Creating
<1>3. RowsHaveIds /\ ContextsKept
  BY DEF RowsHaveIds, ContextsKept, Kept
<1> QED
  BY <1>1, <1>2, <1>3 DEF Inv

-----------------------------------------------------------------------------
\* A request goes on at its replica, or returns, or takes the lock that is free.
CallRecord == [pc : CallPC, at : Replica \union {None}, ssid : Ssid \union {None},
               id : Id \union {None}, mode : Mode, connected : BOOLEAN]

ApiRecord == [account : Ssid \union {None}, up : BOOLEAN, by : Replica \union {None}]

\* The account stays, and who has named it; or the replica of a request names one.
SameAccount == api'.account = api.account /\ api'.by = api.by
Names(c)    == call[c].pc = "init" /\ api'.by = call[c].at

Moves(c, q) ==
    /\ q \in CallRecord
    /\ call' = [call EXCEPT ![c] = q]
    /\ \/ q.pc \notin Creating
       \/ call[c].pc \in Creating /\ q.at = call[c].at
       \/ LockFree(q.at)

LEMMA MovedCalls ==
    ASSUME Inv, NEW c \in Call, NEW q, Moves(c, q)
    PROVE  call' \in [Call -> CallRecord]
BY DEF Inv, TypeOK, Moves, CallRecord

LEMMA LockStaysExclusive ==
    ASSUME Inv, NEW c \in Call, NEW q, Moves(c, q)
    PROVE  LockIsExclusive'
BY DEF Inv, TypeOK, LockIsExclusive, LockFree, Moves

\* What the other requests know stays true while rows are only added and the account
\* of the API changes in an init only, which holds the lock of its replica.
LEMMA OthersStillKnow ==
    ASSUME Inv, NEW c \in Call, NEW q,
           Moves(c, q), Knows(q, api', rows'),
           \A s \in Ssid : rows[s] # NoRow => rows'[s] # NoRow,
           SameAccount \/ Names(c)
    PROVE  CallsKnow'
<1> SUFFICES ASSUME NEW d \in Call, d # c PROVE Knows(call[d], api', rows')
  BY DEF Inv, TypeOK, CallsKnow, Moves
<1>1. call'[d] = call[d]
  BY DEF Inv, TypeOK, Moves
<1>2. Knows(call[d], api, rows)
  BY DEF Inv, CallsKnow
<1>3. call[d].pc \in {"stats", "balance"} =>
          api'.account = call[d].ssid \/ api'.by # call[d].at
  <2>1. CASE SameAccount
    BY <1>2, <2>1 DEF Knows, SameAccount
  <2>2. CASE Names(c)
    <3>1. call[d].pc \in {"stats", "balance"} => call[d].at # call[c].at
      BY <2>2 DEF Inv, LockIsExclusive, Creating, Names
    <3> QED
      BY <2>2, <3>1 DEF Names
  <2> QED
    BY <2>1, <2>2
<1>4. call[d].pc \in {"update", "adopt"} => rows'[call[d].ssid] # NoRow
  BY <1>2 DEF Knows, Creating
<1> QED
  BY <1>1, <1>2, <1>3, <1>4 DEF Knows

\* A context stays as it is, or loses its connection, or goes.
Fades(r, i) ==
    \/ contexts'[r][i] = contexts[r][i]
    \/ contexts'[r][i] = NoContext
    \/ contexts[r][i] # NoContext /\ contexts'[r][i] = [contexts[r][i] EXCEPT !.connected = FALSE]

\* A row is left, or changes its state alone.
RowKept(s) == rows[s] # NoRow => rows'[s] # NoRow /\ rows'[s].id = rows[s].id

\* Contexts that fade stay persisted.
LEMMA FadedContextsKept ==
    ASSUME Inv, \A r \in Replica, i \in Id : Fades(r, i), \A s \in Ssid : RowKept(s)
    PROVE  ContextsKept'
<1> SUFFICES ASSUME NEW r \in Replica, NEW i \in Id PROVE Kept(r, i)'
  BY DEF ContextsKept
<1>1. contexts[r][i] \in [ssid : Ssid \union {None}, mode : Mode, connected : BOOLEAN]
  BY DEF Inv, TypeOK
<1>2. Kept(r, i) /\ Fades(r, i)
  BY DEF Inv, ContextsKept
<1>3. contexts'[r][i] # NoContext => contexts[r][i] # NoContext /\ contexts'[r][i].ssid = contexts[r][i].ssid
  BY <1>1, <1>2 DEF Fades
<1> QED
  BY <1>2, <1>3 DEF Kept, RowKept

-----------------------------------------------------------------------------
\* The steps that change nothing but their request.
CallOnly(c) ==
    \/ \E r \in Replica, i \in Id : \/ \E s \in Ssid, b \in BOOLEAN : CreateNew(c, r, s, i, b)
                                    \/ CreateAgain(c, r, i) \/ DisconnectRequest(c, r, i)
    \/ BalanceAgain(c) \/ StatsAnswer(c) \/ BalanceAnswers(c) \/ Selects(c) \/ InsertConflicts(c)

LEMMA CallOnlyKeepsInv == ASSUME Inv, NEW c \in Call, CallOnly(c) PROVE Inv'
<1> DEFINE p == call[c]
<1>1. UNCHANGED <<contexts, rows, api>>
  BY DEF CallOnly, CreateNew, CreateAgain, DisconnectRequest, BalanceAgain, StatsAnswer,
         BalanceAnswers, Selects, InsertConflicts
<1>2. p \in CallRecord /\ Knows(p, api, rows)
  BY DEF Inv, TypeOK, CallsKnow, CallRecord
<1>3. ASSUME NEW q, Moves(c, q), Knows(q, api, rows) PROVE Inv'
  <2>1. Knows(q, api', rows')
    BY <1>1, <1>3 DEF Knows
  <2>2. LockIsExclusive' /\ CallsKnow'
    BY <1>1, <1>3, <2>1, LockStaysExclusive, OthersStillKnow DEF SameAccount
  <2>3. TypeOK'
    BY <1>1, <1>3 DEF Inv, TypeOK, Moves, CallRecord
  <2>4. RowsHaveIds' /\ ContextsKept'
    BY <1>1 DEF Inv, RowsHaveIds, ContextsKept, Kept
  <2> QED
    BY <2>2, <2>3, <2>4 DEF Inv
<1> HIDE DEF p
<1> USE DEF Moves, CallRecord, Knows, Creating, CallPC, Mode
<1>4. ASSUME NEW r \in Replica, NEW i \in Id, NEW s \in Ssid, NEW b \in BOOLEAN,
             CreateNew(c, r, s, i, b)
      PROVE  Inv'
  <2> DEFINE q == [pc |-> "init", at |-> r, ssid |-> s, id |-> i, mode |-> DefaultMode, connected |-> b]
  <2>1. Moves(c, q) /\ Knows(q, api, rows)
    BY <1>4 DEF CreateNew
  <2> QED
    BY <1>3, <2>1
<1>5. ASSUME NEW r \in Replica, NEW i \in Id, CreateAgain(c, r, i) PROVE Inv'
  <2> DEFINE q == [Idle EXCEPT !.pc = "balance again", !.at = r, !.id = i]
  <2>1. Moves(c, q) /\ Knows(q, api, rows)
    BY <1>5 DEF CreateAgain, Idle
  <2> QED
    BY <1>3, <2>1
<1>6. ASSUME NEW r \in Replica, NEW i \in Id, DisconnectRequest(c, r, i) PROVE Inv'
  <2> DEFINE q == [Idle EXCEPT !.pc = "logout", !.at = r, !.id = i]
  <2>1. Moves(c, q) /\ Knows(q, api, rows)
    BY <1>6 DEF DisconnectRequest, Idle
  <2> QED
    BY <1>3, <2>1
<1>7. Idle \in CallRecord /\ Knows(Idle, api, rows)
  BY DEF Idle
<1>8. CASE Return(c)
  <2>1. Moves(c, Idle)
    BY <1>7, <1>8 DEF Return, Idle
  <2> QED
    BY <1>3, <1>7, <2>1
<1>9. CASE StatsAnswer(c) /\ Goto(c, "balance")
  <2> DEFINE q == [p EXCEPT !.pc = "balance"]
  <2>1. Moves(c, q) /\ Knows(q, api, rows)
    BY <1>2, <1>9 DEF StatsAnswer, Goto, p, Inv, TypeOK
  <2> QED
    BY <1>3, <2>1
<1>10. CASE BalanceAnswers(c)
  <2>1. PICK mode \in Mode :
          p.pc = "balance" /\ call' = [call EXCEPT ![c] = [p EXCEPT !.pc = "select", !.mode = mode]]
    BY <1>10 DEF BalanceAnswers, p, Inv, TypeOK
  <2> DEFINE q == [p EXCEPT !.pc = "select", !.mode = mode]
  <2>2. p.at \in Replica /\ p.ssid \in Ssid /\ p.id \in Id
    BY <1>2, <2>1
  <2>3. Moves(c, q) /\ Knows(q, api, rows)
    BY <1>2, <2>1, <2>2 DEF p
  <2> QED
    BY <1>3, <2>3
<1>11. CASE Selects(c)
  <2> DEFINE next == IF rows[p.ssid] = NoRow THEN "insert" ELSE "update"
             q == [p EXCEPT !.pc = next]
  <2>1. p.pc = "select" /\ call' = [call EXCEPT ![c] = q]
    BY <1>11 DEF Selects, Goto, p
  <2>2. Moves(c, q) /\ Knows(q, api, rows)
    BY <1>2, <2>1 DEF p
  <2> QED
    BY <1>3, <2>2
<1>12. CASE InsertConflicts(c)
  <2> DEFINE q == [p EXCEPT !.pc = "adopt"]
  <2>1. p.pc = "insert" /\ call' = [call EXCEPT ![c] = q] /\ rows[p.ssid] # NoRow
    BY <1>12 DEF InsertConflicts, Goto, p
  <2>2. Moves(c, q) /\ Knows(q, api, rows)
    BY <1>2, <2>1 DEF p
  <2> QED
    BY <1>3, <2>2
<1>13. CASE BalanceAgain(c)
  BY <1>8, <1>13 DEF BalanceAgain
<1>14. CASE StatsAnswer(c)
  BY <1>8, <1>9, <1>14 DEF StatsAnswer
<1> QED
  BY <1>4, <1>5, <1>6, <1>10, <1>11, <1>12, <1>13, <1>14 DEF CallOnly

-----------------------------------------------------------------------------
\* A disconnect leaves the API at its account.
LEMMA LogoutKeepsAccount ==
    ASSUME Inv, NEW c \in Call, Logout(c)
    PROVE  api' \in ApiRecord /\ SameAccount
BY DEF Inv, TypeOK, Logout, ApiRecord, SameAccount

\* The steps that call the API.
LEMMA ApiStepKeepsInv ==
    ASSUME Inv, NEW c \in Call,
           (\E up \in BOOLEAN : InitAnswers(c, up)) \/ ApiRaises(c) \/ Cleaned(c)
    PROVE  Inv'
<1> DEFINE p == call[c]
<1>1. UNCHANGED <<contexts, rows>>
  BY DEF InitAnswers, ApiRaises, Cleaned
<1>2. p \in CallRecord /\ Knows(p, api, rows)
  BY DEF Inv, TypeOK, CallsKnow, CallRecord
<1>3. ASSUME NEW q, Moves(c, q), Knows(q, api', rows'),
             api' \in ApiRecord, SameAccount \/ Names(c)
      PROVE  Inv'
  <2>1. LockIsExclusive' /\ CallsKnow'
    BY <1>1, <1>3, LockStaysExclusive, OthersStillKnow
  <2>2. TypeOK'
    BY <1>1, <1>3 DEF Inv, TypeOK, Moves, CallRecord, ApiRecord
  <2>3. RowsHaveIds' /\ ContextsKept'
    BY <1>1 DEF Inv, RowsHaveIds, ContextsKept, Kept
  <2> QED
    BY <2>1, <2>2, <2>3 DEF Inv
<1> HIDE DEF p
<1>4. Idle \in CallRecord /\ Idle.pc = "idle"
  BY DEF Idle, CallRecord, CallPC, Mode
<1>5. Knows(Idle, api', rows')
  BY <1>4 DEF Knows, Creating
<1>6. ASSUME Return(c) PROVE Moves(c, Idle)
  BY <1>4, <1>6 DEF Return, Moves, Creating
<1>7. ASSUME NEW up \in BOOLEAN, Initialises(c, up), p.pc = "init"
      PROVE  api' \in ApiRecord /\ api'.account = p.ssid /\ Names(c)
  <2>1. p.at \in Replica /\ p.ssid \in Ssid /\ p.connected \in BOOLEAN
    BY <1>2, <1>7 DEF Knows, CallRecord, Creating
  <2> QED
    BY <1>7, <2>1 DEF Initialises, ApiRecord, Names, p
<1>8. ASSUME NEW up \in BOOLEAN, InitAnswers(c, up) PROVE Inv'
  <2> DEFINE next == IF p.connected THEN "stats" ELSE "select"
             q == [p EXCEPT !.pc = next]
  <2>1. p.pc = "init" /\ Initialises(c, up) /\ call' = [call EXCEPT ![c] = q]
    BY <1>8 DEF InitAnswers, Goto, p
  <2>2. next \in {"stats", "select"} /\ (next = "select" => ~p.connected)
    OBVIOUS
  <2>3. Moves(c, q)
    BY <1>2, <2>1, <2>2 DEF Moves, CallRecord, Creating, CallPC, p
  <2>4. Knows(q, api', rows')
    BY <1>2, <1>7, <2>1, <2>2 DEF Knows, CallRecord, Creating
  <2> QED
    BY <1>3, <1>7, <2>1, <2>3, <2>4 DEF p
<1>9. CASE ApiRaises(c)
  <2>1. /\ Return(c)
        /\ UNCHANGED api \/ (p.pc = "init" /\ \E up \in BOOLEAN : Initialises(c, up))
    BY <1>9 DEF ApiRaises, p
  <2>2. CASE UNCHANGED api
    BY <1>3, <1>5, <1>6, <2>1, <2>2 DEF Inv, TypeOK, ApiRecord, SameAccount
  <2>3. ASSUME NEW up \in BOOLEAN, p.pc = "init", Initialises(c, up) PROVE Inv'
    BY <1>3, <1>5, <1>6, <1>7, <2>1, <2>3 DEF p
  <2> QED
    BY <2>1, <2>2, <2>3
<1>10. CASE Cleaned(c)
  <2>1. Logout(c) /\ Return(c)
    BY <1>10 DEF Cleaned
  <2>2. api' \in ApiRecord /\ SameAccount
    BY <2>1, LogoutKeepsAccount
  <2> QED
    BY <1>3, <1>5, <1>6, <2>1, <2>2
<1> QED
  BY <1>8, <1>9, <1>10

-----------------------------------------------------------------------------
\* The steps that write a row, or take contexts away.
LEMMA RowStepKeepsInv ==
    ASSUME Inv, NEW c \in Call, DatabaseRaises(c) \/ Marked(c) \/ LoggedOut(c)
    PROVE  Inv'
<1> DEFINE p == call[c]
<1>1. p \in CallRecord /\ Knows(p, api, rows)
  BY DEF Inv, TypeOK, CallsKnow, CallRecord
<1>2. ASSUME NEW q, Moves(c, q), Knows(q, api', rows'), TypeOK', RowsHaveIds',
             \A s \in Ssid : RowKept(s), \A r \in Replica, i \in Id : Fades(r, i),
             SameAccount
      PROVE  Inv'
  <2>1. LockIsExclusive' /\ CallsKnow'
    BY <1>2, LockStaysExclusive, OthersStillKnow DEF RowKept
  <2> QED
    BY <1>2, <2>1, FadedContextsKept DEF Inv
<1> HIDE DEF p
<1>3. Idle \in CallRecord /\ Idle.pc = "idle"
  BY DEF Idle, CallRecord, CallPC, Mode
<1>4. Knows(Idle, api', rows')
  BY <1>3 DEF Knows, Creating
<1>5. ASSUME Return(c) PROVE Moves(c, Idle)
  BY <1>3, <1>5 DEF Return, Moves, Creating
<1>6. CASE DatabaseRaises(c)
  <2>1. /\ p.pc \in {"select", "insert", "update", "adopt"} /\ UNCHANGED <<contexts, api>>
        /\ \/ UNCHANGED rows
           \/ /\ p.pc = "insert" /\ rows[p.ssid] = NoRow
              /\ rows' = [rows EXCEPT ![p.ssid] = [id |-> p.id, state |-> State(c)]]
           \/ p.pc \in {"update", "adopt"} /\ rows' = [rows EXCEPT ![p.ssid].state = State(c)]
        /\ IF p.connected THEN Goto(c, "clean") ELSE Return(c)
    BY <1>6 DEF DatabaseRaises, p
  <2>2. p.ssid \in Ssid /\ p.id \in Id /\ p.at \in Replica
    BY <1>1, <2>1 DEF Knows, Creating
  <2>3. /\ rows' \in [Ssid -> [id : Id \union {None},
                               state : {"absent", "connected", "initialized", "disconnected"}]]
        /\ RowsHaveIds' /\ \A s \in Ssid : RowKept(s)
    <3>1. State(c) \in {"connected", "initialized"}
      BY DEF State
    <3>2. CASE UNCHANGED rows
      BY <3>2 DEF Inv, TypeOK, RowsHaveIds, RowKept
    <3>3. CASE p.pc = "insert" /\ rows[p.ssid] = NoRow
               /\ rows' = [rows EXCEPT ![p.ssid] = [id |-> p.id, state |-> State(c)]]
      BY <2>2, <3>1, <3>3 DEF Inv, TypeOK, RowsHaveIds, RowKept
    <3>4. CASE p.pc \in {"update", "adopt"} /\ rows' = [rows EXCEPT ![p.ssid].state = State(c)]
      <4>1. rows[p.ssid] # NoRow
        BY <1>1, <3>4 DEF Knows
      <4> QED
        BY <2>2, <3>1, <3>4, <4>1 DEF Inv, TypeOK, RowsHaveIds, RowKept, NoRow
    <3> QED
      BY <2>1, <3>2, <3>3, <3>4
  <2>4. PICK q : Moves(c, q) /\ Knows(q, api', rows')
    <3>1. CASE p.connected
      <4> DEFINE q == [p EXCEPT !.pc = "clean"]
      <4>1. Moves(c, q)
        BY <1>1, <2>1, <3>1 DEF Moves, Goto, CallRecord, Creating, CallPC, p
      <4>2. Knows(q, api', rows')
        BY <1>1, <2>1, <2>2 DEF Knows, Creating, CallRecord
      <4> QED
        BY <4>1, <4>2
    <3>2. CASE ~p.connected
      BY <1>4, <1>5, <2>1, <3>2
    <3> QED
      BY <3>1, <3>2
  <2>5. TypeOK'
    BY <2>1, <2>3, <2>4 DEF Inv, TypeOK, Moves, CallRecord
  <2>6. \A r \in Replica, i \in Id : Fades(r, i)
    BY <2>1 DEF Fades
  <2> QED
    BY <1>2, <2>1, <2>3, <2>4, <2>5, <2>6 DEF SameAccount
<1>7. CASE Marked(c)
  <2>1. /\ p.pc = "mark" /\ UNCHANGED <<contexts, api>> /\ Return(c)
        /\ \/ UNCHANGED rows
           \/ \E s \in Ssid : rows[s].id = p.id /\ rows' = [rows EXCEPT ![s].state = "disconnected"]
    BY <1>7 DEF Marked, p
  <2>2. p.id \in Id
    BY <1>1, <2>1 DEF Knows
  <2>3. /\ rows' \in [Ssid -> [id : Id \union {None},
                               state : {"absent", "connected", "initialized", "disconnected"}]]
        /\ RowsHaveIds' /\ \A s \in Ssid : RowKept(s)
    <3> USE DEF RowsHaveIds, RowKept
    <3>1. CASE UNCHANGED rows
      BY <3>1 DEF Inv, TypeOK
    <3>2. ASSUME NEW s \in Ssid, rows[s].id = p.id, rows' = [rows EXCEPT ![s].state = "disconnected"]
          PROVE  <2>3!:
      <4> DEFINE Row == [id : Id \union {None},
                         state : {"absent", "connected", "initialized", "disconnected"}]
      <4>1. rows \in [Ssid -> Row] /\ \A x \in Ssid : rows[x] # NoRow => rows[x].id \in Id
        BY DEF Inv, TypeOK
      <4>2. rows'[s] = [rows[s] EXCEPT !.state = "disconnected"]
            /\ \A x \in Ssid : x # s => rows'[x] = rows[x]
        BY <3>2, <4>1
      <4>3. rows'[s] \in Row /\ rows'[s].id = rows[s].id /\ rows[s].id \in Id
        BY <2>2, <3>2, <4>1, <4>2
      <4>4. rows'[s] # NoRow
        BY <4>3, SessionsAssumption DEF NoRow
      <4>5. rows' \in [Ssid -> Row]
        BY <3>2, <4>1, <4>3
      <4> QED
        BY <4>1, <4>2, <4>3, <4>4, <4>5
    <3> QED
      BY <2>1, <3>1, <3>2
  <2>4. TypeOK'
    <3>1. call' \in [Call -> CallRecord]
      BY <1>5, <2>1, MovedCalls
    <3> QED
      BY <2>1, <2>3, <3>1 DEF Inv, TypeOK, CallRecord
  <2>5. \A r \in Replica, i \in Id : Fades(r, i)
    BY <2>1 DEF Fades
  <2> QED
    BY <1>2, <1>4, <1>5, <2>1, <2>3, <2>4, <2>5 DEF SameAccount
<1>8. CASE LoggedOut(c)
  <2> DEFINE q == [p EXCEPT !.pc = "mark"]
  <2>1. /\ p.pc = "logout" /\ Logout(c) /\ UNCHANGED rows
        /\ contexts' = [contexts EXCEPT ![p.at][p.id] = NoContext]
        /\ call' = [call EXCEPT ![c] = q]
    BY <1>8 DEF LoggedOut, Goto, p
  <2>2. p.id \in Id /\ p.at \in Replica
    BY <1>1, <2>1 DEF Knows
  <2>3. Moves(c, q)
    BY <1>1, <2>1 DEF Moves, CallRecord, Creating, CallPC, p
  <2>4. Knows(q, api', rows')
    BY <1>1, <2>1, <2>2 DEF Knows, CallRecord, Creating
  <2>5. \A r \in Replica, i \in Id : Fades(r, i)
    BY <2>1, <2>2 DEF Fades, Inv, TypeOK
  <2>6. api' \in ApiRecord /\ SameAccount
    BY <2>1, LogoutKeepsAccount
  <2>7. TypeOK'
    <3>1. call' \in [Call -> CallRecord]
      BY <2>3, MovedCalls
    <3>2. contexts' \in [Replica -> [Id -> [ssid : Ssid \union {None}, mode : Mode, connected : BOOLEAN]]]
      BY <2>1, <2>2 DEF Inv, TypeOK, NoContext, Mode
    <3> QED
      BY <2>1, <2>6, <3>1, <3>2 DEF Inv, TypeOK, CallRecord, ApiRecord
  <2>8. RowsHaveIds' /\ \A s \in Ssid : RowKept(s)
    BY <2>1 DEF Inv, RowsHaveIds, RowKept
  <2> QED
    BY <1>2, <2>3, <2>4, <2>5, <2>6, <2>7, <2>8
<1> QED
  BY <1>6, <1>7, <1>8

-----------------------------------------------------------------------------
\* The row is committed and the context stored.
LEMMA PersistKeepsInv ==
    ASSUME Inv, NEW c \in Call, Inserts(c) \/ Updates(c)
    PROVE  Inv'
<1> DEFINE p == call[c]
<1>1. p \in CallRecord /\ Knows(p, api, rows) /\ p.pc \in {"insert", "update", "adopt"}
  BY DEF Inv, TypeOK, CallsKnow, CallRecord, Inserts, Updates
<1>2. p.at \in Replica /\ p.ssid \in Ssid /\ p.mode \in Mode /\ p.connected \in BOOLEAN
  BY <1>1 DEF Knows, Creating, CallRecord
<1>3. PICK i \in Id : /\ Persists(c, i)
                      /\ rows[p.ssid] # NoRow => rows[p.ssid].id = i
  BY <1>1 DEF Inserts, Updates, Knows, Creating, Inv, RowsHaveIds
<1> HIDE DEF p
<1> DEFINE kept == [ssid |-> p.ssid, mode |-> p.mode, connected |-> p.connected]
<1>4. /\ rows' = [rows EXCEPT ![p.ssid] = [id |-> i, state |-> State(c)]]
      /\ contexts' = [contexts EXCEPT ![p.at][i] = kept]
      /\ Return(c) /\ api' = api
  BY <1>3 DEF Persists, p, Inserts, Updates
<1>5. Moves(c, Idle)
  BY <1>4 DEF Moves, Return, Idle, CallRecord, CallPC, Creating, Mode
<1>6. Knows(Idle, api', rows')
  BY DEF Knows, Idle, Creating
<1>7. /\ rows' \in [Ssid -> [id : Id \union {None},
                             state : {"absent", "connected", "initialized", "disconnected"}]]
      /\ rows'[p.ssid] # NoRow /\ rows'[p.ssid].id = i
      /\ \A s \in Ssid : s # p.ssid => rows'[s] = rows[s]
  BY <1>2, <1>4, SessionsAssumption DEF Inv, TypeOK, State, NoRow
<1>8. TypeOK'
  <2>1. call' \in [Call -> CallRecord]
    BY <1>5, MovedCalls
  <2>2. kept \in [ssid : Ssid \union {None}, mode : Mode, connected : BOOLEAN]
    BY <1>2
  <2> HIDE DEF kept
  <2>3. contexts' \in [Replica -> [Id -> [ssid : Ssid \union {None}, mode : Mode, connected : BOOLEAN]]]
    BY <1>4, <2>2 DEF Inv, TypeOK
  <2> QED
    BY <1>4, <1>7, <2>1, <2>3 DEF Inv, TypeOK, CallRecord
<1>9. LockIsExclusive' /\ CallsKnow'
  BY <1>4, <1>5, <1>6, <1>7, LockStaysExclusive, OthersStillKnow DEF SameAccount
<1>10. RowsHaveIds'
  BY <1>7 DEF Inv, RowsHaveIds
<1>11. ContextsKept'
  <2> SUFFICES ASSUME NEW r \in Replica, NEW j \in Id PROVE Kept(r, j)'
    BY DEF ContextsKept
  <2>1. CASE r = p.at /\ j = i
    <3>1. contexts'[r][j] = kept
      BY <1>2, <1>4, <2>1 DEF Inv, TypeOK
    <3> QED
      BY <1>2, <1>7, <2>1, <3>1 DEF Kept
  <2>2. CASE ~(r = p.at /\ j = i)
    <3>1. contexts'[r][j] = contexts[r][j]
      BY <1>4, <2>2 DEF Inv, TypeOK
    <3>2. Kept(r, j)
      BY DEF Inv, ContextsKept
    <3> QED
      BY <1>3, <1>7, <3>1, <3>2 DEF Kept, p
  <2> QED
    BY <2>1, <2>2
<1> QED
  BY <1>8, <1>9, <1>10, <1>11 DEF Inv

\* Where a session is found lost, only its connection goes.
LEMMA FoundLostTypes ==
    ASSUME Inv, NEW r \in Replica, NEW i \in Id, FoundLost(r, i)
    PROVE  /\ contexts[r][i] # NoContext
           /\ \A q \in Replica, j \in Id :
                 contexts'[q][j] = IF q = r /\ j = i THEN [contexts[r][i] EXCEPT !.connected = FALSE]
                                                    ELSE contexts[q][j]
           /\ contexts' \in [Replica -> [Id -> [ssid : Ssid \union {None}, mode : Mode, connected : BOOLEAN]]]
<1> DEFINE Context == [ssid : Ssid \union {None}, mode : Mode, connected : BOOLEAN]
           lost == [contexts[r][i] EXCEPT !.connected = FALSE]
<1>1. /\ contexts \in [Replica -> [Id -> Context]] /\ contexts[r][i].connected
      /\ contexts' = [contexts EXCEPT ![r] = [contexts[r] EXCEPT ![i] = lost]]
  BY DEF Inv, TypeOK, FoundLost
<1>2. contexts[r][i] # NoContext
  BY <1>1 DEF NoContext
<1>3. lost \in Context
  <2>1. contexts[r][i] \in Context
    BY <1>1
  <2> QED
    BY <2>1
<1> HIDE DEF lost, Context
<1>4. contexts' \in [Replica -> [Id -> Context]]
  BY <1>1, <1>3
<1>5. \A q \in Replica, j \in Id : contexts'[q][j] = IF q = r /\ j = i THEN lost ELSE contexts[q][j]
  BY <1>1
<1> QED
  BY <1>2, <1>4, <1>5 DEF lost, Context

\* The process restarts, or an engine finds a session lost.
LEMMA ContextStepKeepsInv ==
    ASSUME Inv, (\E r \in Replica : Restart(r)) \/ (\E r \in Replica, i \in Id : FoundLost(r, i))
    PROVE  Inv'
<1>1. UNCHANGED <<rows, api>>
  BY DEF Restart, FoundLost
<1>2. \A r \in Replica, i \in Id : Fades(r, i)
  <2>1. ASSUME NEW r \in Replica, Restart(r) PROVE <1>2!:
    BY <2>1 DEF Restart, Fades, Inv, TypeOK
  <2>2. ASSUME NEW r \in Replica, NEW i \in Id, FoundLost(r, i) PROVE <1>2!:
    <3>1. /\ contexts[r][i] # NoContext
          /\ \A q \in Replica, j \in Id :
                contexts'[q][j] = IF q = r /\ j = i THEN [contexts[r][i] EXCEPT !.connected = FALSE]
                                                   ELSE contexts[q][j]
      BY <2>2, FoundLostTypes
    <3> QED
      BY <3>1, Zenon DEF Fades
  <2> QED
    BY <2>1, <2>2
<1>3. \A c \in Call : call'[c] \in {call[c], Idle}
  BY DEF Restart, FoundLost
<1>4. Idle.pc = "idle" /\ Idle \in CallRecord
  BY DEF Idle, CallRecord, CallPC, Mode
<1>5. call' \in [Call -> CallRecord]
  BY <1>4 DEF Restart, FoundLost, Inv, TypeOK, CallRecord
<1>6. contexts' \in [Replica -> [Id -> [ssid : Ssid \union {None}, mode : Mode, connected : BOOLEAN]]]
  <2>1. ASSUME NEW r \in Replica, Restart(r) PROVE <1>6!:
    BY <2>1 DEF Restart, Inv, TypeOK, NoContext, Mode
  <2>2. ASSUME NEW r \in Replica, NEW i \in Id, FoundLost(r, i) PROVE <1>6!:
    BY <2>2, FoundLostTypes
  <2> QED
    BY <2>1, <2>2
<1>7. TypeOK'
  BY <1>1, <1>5, <1>6 DEF Inv, TypeOK, CallRecord
<1>8. LockIsExclusive'
  BY <1>3, <1>4 DEF Inv, LockIsExclusive, Creating
<1>9. CallsKnow'
  BY <1>1, <1>3, <1>4 DEF Inv, CallsKnow, Knows, Creating
<1>10. ContextsKept'
  BY <1>1, <1>2, FadedContextsKept DEF RowKept
<1> QED
  BY <1>1, <1>7, <1>8, <1>9, <1>10 DEF Inv, RowsHaveIds

\* No step disturbs the invariant.
LEMMA StepInv == Inv /\ [Next]_vars => Inv'
<1> SUFFICES ASSUME Inv, [Next]_vars PROVE Inv'
  OBVIOUS
<1>1. CASE UNCHANGED vars
  <2>1. TypeOK' /\ LockIsExclusive' /\ CallsKnow'
    BY <1>1 DEF vars, Inv, TypeOK, LockIsExclusive, CallsKnow, Knows
  <2>2. RowsHaveIds' /\ ContextsKept'
    BY <1>1 DEF vars, Inv, RowsHaveIds, ContextsKept, Kept
  <2> QED
    BY <2>1, <2>2 DEF Inv
<1>2. CASE \E c \in Call : CallOnly(c)
  BY <1>2, CallOnlyKeepsInv
<1>3. CASE \E c \in Call : CreateStep(c) \/ LoggedOut(c) \/ Marked(c)
  BY <1>3, CallOnlyKeepsInv, ApiStepKeepsInv, RowStepKeepsInv, PersistKeepsInv
  DEF CreateStep, CallOnly
<1>4. CASE (\E r \in Replica : Restart(r)) \/ (\E r \in Replica, i \in Id : FoundLost(r, i))
  BY <1>4, ContextStepKeepsInv
<1> QED
  BY <1>1, <1>2, <1>3, <1>4 DEF Next, CallOnly

\* The inductive invariant holds in every behaviour of the replicas, the database
\* and the API (connection_service.py:37-100, engine_repository.py:24-44).
THEOREM Invariance == Spec => []Inv
<1>1. Init => Inv
  BY InitInv
<1>2. Inv /\ [Next]_vars => Inv'
  BY StepInv
<1> QED
  BY <1>1, <1>2, PTL DEF Spec

\* Every variable keeps its type: what is stored of a session are ids and states of
\* the schema (connection_service.py:24-35, engine_repository.py:24-44).
THEOREM SessionTypes == Spec => []TypeOK
<1>1. Inv => TypeOK
  BY DEF Inv
<1> QED
  BY <1>1, Invariance, PTL

\* At most one create() of a replica is between its lookup and its end: the lock
\* is what the next two rest on (connection_service.py:39).
THEOREM OneCreateAtATime == Spec => []LockIsExclusive
<1>1. Inv => LockIsExclusive
  BY DEF Inv
<1> QED
  BY <1>1, Invariance, PTL

\* However many replicas race for the row of an SSID, and whatever fails, a context
\* has the id of its row (engine_repository.py:24-44, connection_service.py:56-74).
THEOREM PersistedContexts == Spec => []ContextsArePersisted
<1>1. Inv => ContextsArePersisted
  BY DEF Inv, ContextsKept, Kept, ContextsArePersisted
<1> QED
  BY <1>1, Invariance, PTL

\* Only the answer to a balance lets a create go on from there to the database.
LEMMA OnlyBalanceReads ==
    ASSUME Inv, Next, NEW c \in Call, call[c].pc = "balance", call'[c].pc = "select"
    PROVE  BalanceAnswers(c)
<1>1. \A d \in Call : call[d] \in CallRecord
  BY DEF Inv, TypeOK, CallRecord
<1>2. ASSUME NEW d \in Call, NEW r \in Replica, NEW i \in Id,
             \/ \E s \in Ssid, b \in BOOLEAN : CreateNew(d, r, s, i, b)
             \/ CreateAgain(d, r, i) \/ DisconnectRequest(d, r, i)
      PROVE  FALSE
  BY <1>2 DEF CreateNew, CreateAgain, DisconnectRequest, Idle, Inv, TypeOK
<1>3. ASSUME NEW d \in Call, CreateStep(d) \/ LoggedOut(d) \/ Marked(d), ~BalanceAnswers(d)
      PROVE  FALSE
  <2>1. CASE d # c
    BY <1>3, <2>1 DEF CreateStep, BalanceAgain, InitAnswers, StatsAnswer, ApiRaises, Selects,
       Inserts, InsertConflicts, Updates, DatabaseRaises, Cleaned, LoggedOut, Marked,
       Persists, Return, Goto, Inv, TypeOK
  <2>2. CASE d = c
    <3>1. ApiRaises(c)
      BY <1>3, <2>2 DEF CreateStep, BalanceAgain, InitAnswers, StatsAnswer, Selects,
         Inserts, InsertConflicts, Updates, DatabaseRaises, Cleaned, LoggedOut, Marked
    <3> QED
      BY <3>1 DEF ApiRaises, Return, Idle, Inv, TypeOK
  <2> QED
    BY <2>1, <2>2
<1>4. ASSUME NEW d \in Call, d # c, BalanceAnswers(d) PROVE FALSE
  BY <1>4 DEF BalanceAnswers, Inv, TypeOK
<1>5. ASSUME \/ \E r \in Replica : Restart(r)
             \/ \E r \in Replica, i \in Id : FoundLost(r, i)
      PROVE  FALSE
  <2>1. call'[c] \in {call[c], Idle}
    BY <1>5 DEF Restart, FoundLost
  <2> QED
    BY <2>1 DEF Idle
<1> QED
  BY <1>2, <1>3, <1>4, <1>5 DEF Next, CreateStep

\* What a balance answers is the mode of the API's account, or the default.
LEMMA AnsweredMode ==
    ASSUME Inv, NEW c \in Call, BalanceAnswers(c)
    PROVE  call'[c].mode \in {api.account, DefaultMode}
<1>1. PICK mode \in {api.account, DefaultMode} :
        call' = [call EXCEPT ![c] = [call[c] EXCEPT !.pc = "select", !.mode = mode]]
  BY DEF BalanceAnswers
<1>2. call \in [Call -> CallRecord]
  BY DEF Inv, TypeOK, CallRecord
<1>3. call'[c] = [call[c] EXCEPT !.pc = "select", !.mode = mode]
  BY <1>1, <1>2
<1>4. call'[c].mode = mode
  BY <1>2, <1>3 DEF CallRecord
<1> QED
  BY <1>4

\* With any number of sessions created and removed meanwhile, the mode that a create
\* reads is the default or that of its own account, unless another replica, whose
\* lock is another one, has named its account since (connection_service.py:37-55).
THEOREM OwnModeRead == Spec => ModeReadIsOwn
<1>1. ASSUME Inv, Next, NEW c \in Call, call[c].pc = "balance", call'[c].pc = "select"
      PROVE  call'[c].mode \in {call[c].ssid, DefaultMode} \/ api.by # call[c].at
  <2>1. call[c] \in CallRecord /\ (api.account = call[c].ssid \/ api.by # call[c].at)
    BY <1>1 DEF Inv, TypeOK, CallRecord, CallsKnow, Knows
  <2>2. call'[c].mode \in {api.account, DefaultMode}
    BY <1>1, <2>1, OnlyBalanceReads, AnsweredMode
  <2> QED
    BY <2>1, <2>2
<1>2. Inv /\ [Next]_vars =>
          [\A c \in Call :
              call[c].pc = "balance" /\ call'[c].pc = "select" =>
                  \/ call'[c].mode \in {call[c].ssid, DefaultMode}
                  \/ api.by # call[c].at]_vars
  BY <1>1
<1> QED
  BY <1>2, Invariance, PTL DEF Spec, ModeReadIsOwn

=============================================================================
