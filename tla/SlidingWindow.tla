---------------------------- MODULE SlidingWindow ----------------------------
(***************************************************************************)
(* What a rate limit promises to its clients: a request is admitted if and *)
(* only if fewer than Limit of the same client's requests were admitted in *)
(* the last Window.  The specification remembers every admission for ever, *)
(* and decides by counting.                                                *)
(***************************************************************************)
EXTENDS Naturals, Sequences, FiniteSets

CONSTANTS Client, Limit, Window

VARIABLES
    now,      \* the clock
    admitted, \* the times at which requests of each client were admitted
    refusals  \* the last step refused a request of this client

vars == <<now, admitted, refusals>>

-----------------------------------------------------------------------------
Init ==
    /\ now = 0
    /\ admitted = [c \in Client |-> <<>>]
    /\ refusals = {}

\* How many admissions of client c are not older than the window.
Recent(c) == Cardinality({i \in DOMAIN admitted[c] : admitted[c][i] + Window >= now})

Admit(c) ==
    /\ Recent(c) < Limit
    /\ admitted' = [admitted EXCEPT ![c] = Append(@, now)]
    /\ refusals' = {}
    /\ UNCHANGED now

Refuse(c) ==
    /\ Recent(c) >= Limit
    /\ refusals' = {c}
    /\ UNCHANGED <<now, admitted>>

\* The clock goes on, or a request is decided for another reason.
Passes ==
    /\ now' \in {now, now + 1}
    /\ refusals' = {}
    /\ UNCHANGED admitted

Next == Passes \/ \E c \in Client : Admit(c) \/ Refuse(c)

Spec == Init /\ [][Next]_vars

=============================================================================
