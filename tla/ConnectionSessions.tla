------------------------- MODULE ConnectionSessions -------------------------
(***************************************************************************)
(* Sessions: ConnectionService (app/services/connection_service.py) of     *)
(* every replica, with its lock and its dictionary of contexts, the table  *)
(* engine_sessions they share (app/repositories/engine_repository.py), and *)
(* the external API.                                                       *)
(*                                                                         *)
(* /api/init names the account that all later calls refer to: none of them *)
(* carries an SSID, and every process has the same POCKETOPTION_BASE_URL   *)
(* (config.py:17).  The API is therefore one account and whether it is     *)
(* connected, for all replicas, while the lock is of one process.  The     *)
(* effect of a call and its answer are one step, or the effect alone when  *)
(* it raises: a call that timed out is assumed to have no effect later.    *)
(* An SSID stands for its account and its mode; a balance may also name no *)
(* mode.  The steps of healthy(), which engines call, are in               *)
(* EngineLifecycle.                                                        *)
(***************************************************************************)
EXTENDS Naturals, FiniteSets

CONSTANTS Replica,      \* processes that share the database and the API
          Ssid,         \* secrets of the broker's sessions
          Id,           \* values of uuid4()
          Call,         \* slots for requests in flight at the same time
          DefaultMode,  \* settings.default_account_mode
          None          \* no SSID, no id, no replica

ASSUME SessionsAssumption ==
    /\ None \notin Replica \union Ssid \union Id
    /\ DefaultMode \notin Ssid

VARIABLES
    contexts, \* _sessions of each replica, by session id
    rows,     \* engine_sessions, by ssid_hash
    api,      \* the external API; by is a history: the replica that named the account
    call      \* requests in flight

vars == <<contexts, rows, api, call>>

-----------------------------------------------------------------------------
\* What a create holds the lock for, and a disconnect awaits.
Creating == {"balance again", "init", "stats", "balance", "select", "insert", "update",
             "adopt", "clean"}
CallPC   == Creating \union {"idle", "logout", "mark"}

Mode      == Ssid \union {DefaultMode, None}
NoContext == [ssid |-> None, mode |-> None, connected |-> FALSE]
NoRow     == [id |-> None, state |-> "absent"]
Idle      == [pc |-> "idle", at |-> None, ssid |-> None, id |-> None, mode |-> None,
              connected |-> FALSE]

TypeOK ==
    /\ contexts \in [Replica -> [Id -> [ssid : Ssid \union {None}, mode : Mode, connected : BOOLEAN]]]
    /\ rows \in [Ssid -> [id : Id \union {None},
                          state : {"absent", "connected", "initialized", "disconnected"}]]
    /\ api \in [account : Ssid \union {None}, up : BOOLEAN, by : Replica \union {None}]
    /\ call \in [Call -> [pc : CallPC, at : Replica \union {None}, ssid : Ssid \union {None},
                          id : Id \union {None}, mode : Mode, connected : BOOLEAN]]

Init ==
    /\ contexts = [r \in Replica |-> [i \in Id |-> NoContext]]
    /\ rows = [s \in Ssid |-> NoRow]
    /\ api = [account |-> None, up |-> FALSE, by |-> None]
    /\ call = [c \in Call |-> Idle]

-----------------------------------------------------------------------------
Goto(c, pc) == call' = [call EXCEPT ![c].pc = pc]
Return(c)   == call' = [call EXCEPT ![c] = Idle]

LockFree(r) == \A c \in Call : call[c].at = r => call[c].pc \notin Creating

\* Contexts of replica r for the SSID: their fingerprints are compared.
Current(r, s) == {i \in Id : contexts[r][i].ssid = s}

\* uuid4() is an id that is in use nowhere.
Fresh(i) ==
    /\ \A s \in Ssid : rows[s].id # i
    /\ \A c \in Call : call[c].id # i

\* Mutant: the lookup and the calls are not under the lock.
CreateUnlocked(c, r, s, i, connects) ==
    /\ call[c].pc = "idle"
    /\ Current(r, s) = {} /\ Fresh(i)
    /\ call' = [call EXCEPT ![c] = [pc |-> "init", at |-> r, ssid |-> s, id |-> i,
                                    mode |-> DefaultMode, connected |-> connects]]
    /\ UNCHANGED <<contexts, rows, api>>

\* create() gets the lock and finds no context of the SSID: init() is called.
CreateNew(c, r, s, i, connects) ==
    /\ call[c].pc = "idle" /\ LockFree(r)
    /\ Current(r, s) = {} /\ Fresh(i)
    /\ call' = [call EXCEPT ![c] = [pc |-> "init", at |-> r, ssid |-> s, id |-> i,
                                    mode |-> DefaultMode, connected |-> connects]]
    /\ UNCHANGED <<contexts, rows, api>>

\* create() finds a context, and asks for the balance when it is connected.
CreateAgain(c, r, i) ==
    /\ call[c].pc = "idle" /\ LockFree(r)
    /\ contexts[r][i].connected
    /\ call' = [call EXCEPT ![c] = [Idle EXCEPT !.pc = "balance again", !.at = r, !.id = i]]
    /\ UNCHANGED <<contexts, rows, api>>

BalanceAgain(c) ==
    /\ call[c].pc = "balance again"
    /\ Return(c)
    /\ UNCHANGED <<contexts, rows, api>>

\* The API takes the account over, and connects when it is asked to and can.
Initialises(c, up) ==
    api' = [account |-> call[c].ssid, up |-> up /\ call[c].connected, by |-> call[c].at]

InitAnswers(c, up) ==
    /\ call[c].pc = "init"
    /\ Initialises(c, up)
    /\ Goto(c, IF call[c].connected THEN "stats" ELSE "select")
    /\ UNCHANGED <<contexts, rows>>

\* Not connected is an error after connect_after_init.
StatsAnswer(c) ==
    /\ call[c].pc = "stats"
    /\ IF api.up THEN Goto(c, "balance") ELSE Return(c)
    /\ UNCHANGED <<contexts, rows, api>>

\* The mode of the session is that of the account whose balance it is, or stays the
\* default where the balance names none.  There is a balance only while the API is
\* connected.
BalanceAnswers(c) ==
    /\ call[c].pc = "balance"
    /\ api.up
    /\ \E mode \in {api.account, DefaultMode} :
          call' = [call EXCEPT ![c].pc = "select", ![c].mode = mode]
    /\ UNCHANGED <<contexts, rows, api>>

\* A call to the API raises, with or without its effect; nothing is undone.
ApiRaises(c) ==
    /\ call[c].pc \in {"balance again", "init", "stats", "balance"}
    /\ \/ UNCHANGED api
       \/ call[c].pc = "init" /\ \E up \in BOOLEAN : Initialises(c, up)
    /\ Return(c)
    /\ UNCHANGED <<contexts, rows>>

-----------------------------------------------------------------------------
\* upsert_session

State(c) == IF call[c].connected THEN "connected" ELSE "initialized"

Selects(c) ==
    /\ call[c].pc = "select"
    /\ Goto(c, IF rows[call[c].ssid] = NoRow THEN "insert" ELSE "update")
    /\ UNCHANGED <<contexts, rows, api>>

\* The row is committed under id i, and the context takes its id.
Persists(c, i) ==
    LET q == call[c] IN
    /\ rows' = [rows EXCEPT ![q.ssid] = [id |-> i, state |-> State(c)]]
    /\ contexts' = [contexts EXCEPT ![q.at][i] = [ssid |-> q.ssid, mode |-> q.mode,
                                                  connected |-> q.connected]]
    /\ Return(c)

Inserts(c) ==
    /\ call[c].pc = "insert"
    /\ rows[call[c].ssid] = NoRow
    /\ Persists(c, call[c].id)
    /\ UNCHANGED <<api>>

\* IntegrityError: another replica inserted the hash meanwhile.
InsertConflicts(c) ==
    /\ call[c].pc = "insert"
    /\ rows[call[c].ssid] # NoRow
    /\ Goto(c, "adopt")
    /\ UNCHANGED <<contexts, rows, api>>

\* Mutant: the row is found, and the context keeps its own id.
UpdatesOwn(c) ==
    /\ call[c].pc \in {"update", "adopt"}
    /\ Persists(c, call[c].id)
    /\ UNCHANGED <<api>>

\* The row of the SSID is updated, or that of the winner adopted.
Updates(c) ==
    /\ call[c].pc \in {"update", "adopt"}
    /\ Persists(c, rows[call[c].ssid].id)
    /\ UNCHANGED <<api>>

\* The database raises; the commit may have been effective.  A connected API is
\* disconnected again.
DatabaseRaises(c) ==
    LET q == call[c] IN
    /\ q.pc \in {"select", "insert", "update", "adopt"}
    /\ \/ UNCHANGED rows
       \/ /\ q.pc = "insert" /\ rows[q.ssid] = NoRow
          /\ rows' = [rows EXCEPT ![q.ssid] = [id |-> q.id, state |-> State(c)]]
       \/ /\ q.pc \in {"update", "adopt"}
          /\ rows' = [rows EXCEPT ![q.ssid].state = State(c)]
    /\ IF q.connected THEN Goto(c, "clean") ELSE Return(c)
    /\ UNCHANGED <<contexts, api>>

\* client.disconnect() answers or raises.
Logout(c) ==
    \/ api' = [api EXCEPT !.up = FALSE]
    \/ UNCHANGED api

Cleaned(c) ==
    /\ call[c].pc = "clean"
    /\ Logout(c)
    /\ Return(c)
    /\ UNCHANGED <<contexts, rows>>

-----------------------------------------------------------------------------
\* disconnect(), which takes no lock

DisconnectRequest(c, r, i) ==
    /\ call[c].pc = "idle"
    /\ contexts[r][i] # NoContext
    /\ call' = [call EXCEPT ![c] = [Idle EXCEPT !.pc = "logout", !.at = r, !.id = i]]
    /\ UNCHANGED <<contexts, rows, api>>

\* Whether the API answers or raises, the id is removed from the dictionary.
LoggedOut(c) ==
    /\ call[c].pc = "logout"
    /\ Logout(c)
    /\ contexts' = [contexts EXCEPT ![call[c].at][call[c].id] = NoContext]
    /\ Goto(c, "mark")
    /\ UNCHANGED <<rows>>

\* The row becomes "disconnected", unless the database raises.
Marked(c) ==
    /\ call[c].pc = "mark"
    /\ \/ UNCHANGED rows
       \/ \E s \in Ssid : /\ rows[s].id = call[c].id
                          /\ rows' = [rows EXCEPT ![s].state = "disconnected"]
    /\ Return(c)
    /\ UNCHANGED <<contexts, api>>

-----------------------------------------------------------------------------
\* The process dies and starts again: contexts live in memory only.
Restart(r) ==
    /\ contexts' = [contexts EXCEPT ![r] = [i \in Id |-> NoContext]]
    /\ call' = [c \in Call |-> IF call[c].at = r THEN Idle ELSE call[c]]
    /\ UNCHANGED <<rows, api>>

\* healthy(), called by the engines of the session, finds it lost.
FoundLost(r, i) ==
    /\ contexts[r][i].connected
    /\ contexts' = [contexts EXCEPT ![r][i].connected = FALSE]
    /\ UNCHANGED <<rows, api, call>>

CreateStep(c) ==
    \/ BalanceAgain(c)
    \/ \E up \in BOOLEAN : InitAnswers(c, up)
    \/ StatsAnswer(c) \/ BalanceAnswers(c) \/ ApiRaises(c)
    \/ Selects(c) \/ Inserts(c) \/ InsertConflicts(c) \/ Updates(c) \/ DatabaseRaises(c)
    \/ Cleaned(c)

Next ==
    \/ \E c \in Call, r \in Replica, i \in Id :
          \/ \E s \in Ssid, connects \in BOOLEAN : CreateNew(c, r, s, i, connects)
          \/ CreateAgain(c, r, i)
          \/ DisconnectRequest(c, r, i)
    \/ \E c \in Call : CreateStep(c) \/ LoggedOut(c) \/ Marked(c)
    \/ \E r \in Replica : Restart(r)
    \/ \E r \in Replica, i \in Id : FoundLost(r, i)

Spec == Init /\ [][Next]_vars

-----------------------------------------------------------------------------
\* Every context is persisted under its own id, in every replica: an SSID has
\* one session id, whichever replica connects it, whoever wins the race for the
\* row, after failures, reconnections and restarts
\* (engine_repository.py:24-44, connection_service.py:56-74).
ContextsArePersisted ==
    \A r \in Replica, i \in Id :
        contexts[r][i] # NoContext => rows[contexts[r][i].ssid].id = i

\* The mode that a create reads from a balance is that of its own account, if it is
\* not the default, although sessions of other SSIDs are created and removed at the
\* same time: the lock covers the calls from init to balance.  It is of one process:
\* only where another replica has called init since may the mode be of its account
\* (connection_service.py:37-55).
ModeReadIsOwn ==
    [][\A c \in Call :
          call[c].pc = "balance" /\ call'[c].pc = "select" =>
              \/ call'[c].mode \in {call[c].ssid, DefaultMode}
              \/ api.by # call[c].at]_vars

-----------------------------------------------------------------------------
\* What the README says, and the code does not keep

\* The mode of a session, which start compares with the one asked for, is that of
\* its account: with "demo_auto" automation is allowed in demo only (README.md:64).
ModeIsOwn ==
    \A r \in Replica, i \in Id :
        contexts[r][i].connected => contexts[r][i].mode = contexts[r][i].ssid

\* The account that the orders of a connected session go to is its own.
OrdersGoToOwnAccount ==
    \A r \in Replica, i \in Id :
        contexts[r][i].connected /\ api.up => api.account = contexts[r][i].ssid

=============================================================================
