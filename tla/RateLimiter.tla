----------------------------- MODULE RateLimiter -----------------------------
(***************************************************************************)
(* SecurityLimitsMiddleware.dispatch (app/main.py): the body limit and the *)
(* sliding window that limits the sensitive routes, one queue of admission *)
(* times per client address.  dispatch decides without an await, so one    *)
(* action is one decision.  The clock is monotonic().                      *)
(***************************************************************************)
EXTENDS Naturals, Sequences, FiniteSets

CONSTANTS Client,     \* values of request.client.host
          Limit,      \* settings.sensitive_rate_limit
          Window,     \* settings.sensitive_rate_window_seconds
          MaxTime,    \* bound: the clock stops there
          MaxAdmitted \* bound: sensitive requests served of one client

ASSUME LimiterAssumption ==
    /\ Limit \in Nat \ {0}
    /\ Window \in Nat
    /\ MaxTime \in Nat /\ MaxAdmitted \in Nat

VARIABLES
    now,      \* monotonic()
    queue,    \* SecurityLimitsMiddleware.requests
    admitted, \* history: when the sensitive requests of each client were passed on
    answer    \* history: the last decision and whom it was for

vars == <<now, queue, admitted, answer>>

-----------------------------------------------------------------------------
\* The routes that differ here.  "connect" is POST /connection/session, "start"
\* POST /engine/start and /engine/unlock-risk, "disconnect" DELETE
\* /connection/session/{id} and what else is not limited: the README's table of
\* endpoints (README.md:99) gives the DELETE the rate limit as well.
Route == {"connect", "start", "disconnect"}

\* The paths that are compared with request.url.path.
Sensitive == {"connect", "start"}

\* Routes with a method whose body is measured.
HasBody == Route \ {"disconnect"}

Answer == [is : {"none", "served", "too large"}] \union [is : {"refused"}, client : Client]

TypeOK ==
    /\ now \in 0..MaxTime
    /\ queue \in [Client -> Seq(0..MaxTime)]
    /\ \A c \in Client : Len(queue[c]) <= Limit
    /\ admitted \in [Client -> Seq(0..MaxTime)]
    /\ answer \in Answer

Init ==
    /\ now = 0
    /\ queue = [c \in Client |-> <<>>]
    /\ admitted = [c \in Client |-> <<>>]
    /\ answer = [is |-> "none"]

-----------------------------------------------------------------------------
\* Mutant: what is as old as the window is dropped too.
ExpiresEarly(times, k) ==
    /\ \A i \in 1..k : times[i] + Window <= now
    /\ k < Len(times) => times[k + 1] + Window > now

\* The loop takes the first k times from the queue, until the head is in the window.
Expires(times, k) ==
    /\ \A i \in 1..k : times[i] + Window < now
    /\ k < Len(times) => times[k + 1] + Window >= now

Without(times, k) == SubSeq(times, k + 1, Len(times))

\* 413 or 400, before anything is counted.
TooLarge(r) ==
    /\ r \in HasBody
    /\ answer' = [is |-> "too large"]
    /\ UNCHANGED <<now, queue, admitted>>

PassesOther(r) ==
    /\ r \notin Sensitive
    /\ answer' = [is |-> "served"]
    /\ UNCHANGED <<now, queue, admitted>>

\* Mutant: one request more than the limit.
PassesOneMore(c, r, k) ==
    /\ r \in Sensitive
    /\ Len(admitted[c]) < MaxAdmitted
    /\ Expires(queue[c], k)
    /\ Len(Without(queue[c], k)) <= Limit
    /\ queue' = [queue EXCEPT ![c] = Append(Without(@, k), now)]
    /\ admitted' = [admitted EXCEPT ![c] = Append(@, now)]
    /\ answer' = [is |-> "served"]
    /\ UNCHANGED now

\* A sensitive request is passed on.
Passes(c, r, k) ==
    /\ r \in Sensitive
    /\ Len(admitted[c]) < MaxAdmitted
    /\ Expires(queue[c], k)
    /\ Len(Without(queue[c], k)) < Limit
    /\ queue' = [queue EXCEPT ![c] = Append(Without(@, k), now)]
    /\ admitted' = [admitted EXCEPT ![c] = Append(@, now)]
    /\ answer' = [is |-> "served"]
    /\ UNCHANGED now

\* Mutant: refused requests count as well.
RefusesAndCounts(c, r, k) ==
    /\ r \in Sensitive
    /\ Expires(queue[c], k)
    /\ Len(Without(queue[c], k)) >= Limit
    /\ queue' = [queue EXCEPT ![c] = Append(Tail(Without(@, k)), now)]
    /\ answer' = [is |-> "refused", client |-> c]
    /\ UNCHANGED <<now, admitted>>

\* 429
Refuses(c, r, k) ==
    /\ r \in Sensitive
    /\ Expires(queue[c], k)
    /\ Len(Without(queue[c], k)) >= Limit
    /\ queue' = [queue EXCEPT ![c] = Without(@, k)]
    /\ answer' = [is |-> "refused", client |-> c]
    /\ UNCHANGED <<now, admitted>>

Tick ==
    /\ now < MaxTime
    /\ now' = now + 1
    /\ answer' = [is |-> "none"]
    /\ UNCHANGED <<queue, admitted>>

Next ==
    \/ Tick
    \/ \E r \in Route : TooLarge(r) \/ PassesOther(r)
    \/ \E c \in Client, r \in Route : \E k \in 0..Len(queue[c]) :
          Passes(c, r, k) \/ Refuses(c, r, k)

Spec == Init /\ [][Next]_vars

-----------------------------------------------------------------------------
\* The sensitive requests of client c that were served from time t - Window to time
\* t, both included.
ServedIn(c, t) ==
    {i \in DOMAIN admitted[c] : admitted[c][i] <= t /\ admitted[c][i] + Window >= t}

\* At most Limit sensitive requests of a client are served in any stretch of
\* Window, not only since the last reset of a counter (main.py:35-37).
WindowIsLimited == \A c \in Client, t \in 0..now : Cardinality(ServedIn(c, t)) <= Limit

\* The queue, which forgets, decides like an exact window, which remembers every
\* admission: a sensitive request is served if and only if the same client has been
\* served fewer than Limit of them within the window.  Neither refused requests, nor
\* those of other clients or for other routes, prolong the wait (main.py:32-37).
Exact == INSTANCE SlidingWindow WITH
    refusals <- IF answer.is = "refused" THEN {answer.client} ELSE {}

ImplementsWindow == Exact!Spec

=============================================================================
