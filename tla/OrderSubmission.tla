--------------------------- MODULE OrderSubmission ---------------------------
(***************************************************************************)
(* OrderService.place (app/services/order_service.py) run by any number of *)
(* engines, of one process or of several that share the database, with the *)
(* unique key of order_records, the single POST of PocketOptionClient and  *)
(* the ways it can end, the cancellation of the worker by a stop that      *)
(* times out, the death of the process, and database writes that fail.     *)
(*                                                                         *)
(* A signature is the idempotency key of a signal.  The broker is outside  *)
(* the program: a request sent to it may be executed at any later time,    *)
(* refused or lost, whether or not anybody still waits for the answer.     *)
(* It is taken to say "success": false of no order that it executes; it    *)
(* may say nothing of the success.                                         *)
(***************************************************************************)
EXTENDS Naturals

CONSTANTS Worker,     \* trading workers, of one replica or of several
          Signature,  \* signal signatures
          NoSignature,
          MayFail     \* may commits fail and workers be cancelled or die?

ASSUME SubmissionAssumption ==
    /\ NoSignature \notin Signature
    /\ MayFail \in BOOLEAN

VARIABLES
    pc,        \* what each worker is awaiting in place(), "idle" outside of it
    signature, \* idempotency_key of the order being placed
    outcome,   \* record.status before its commit
    memory,    \* rt.signatures of the worker's engine
    orders,    \* order_records.status by idempotency_key, "absent" without a row
    request,   \* the request the worker waits for: "none", "sent" or the broker's answer
    stray,     \* requests the broker may still treat though nobody waits for them
    sent,      \* history: POSTs of an order for this signature
    executed   \* trades the broker made for this signature

memVars    == <<signature, outcome, memory>>
brokerVars == <<request, stray, sent, executed>>
vars == <<pc, memVars, orders, brokerVars>>

-----------------------------------------------------------------------------
PC == {"idle", "selecting", "inserting", "posting", "storing", "dead"}
Final == {"ACCEPTED", "REJECTED", "UNKNOWN", "FAILED"}

TypeOK ==
    /\ pc \in [Worker -> PC]
    /\ signature \in [Worker -> Signature \union {NoSignature}]
    /\ outcome \in [Worker -> Final \union {"SUBMITTING"}]
    /\ memory \in [Worker -> SUBSET Signature]
    /\ orders \in [Signature -> Final \union {"absent", "SUBMITTING"}]
    /\ request \in [Worker -> {"none", "sent", "executed", "refused"}]
    /\ stray \subseteq Signature
    /\ sent \in [Signature -> Nat]
    /\ executed \in [Signature -> Nat]

Init ==
    /\ pc = [w \in Worker |-> "idle"]
    /\ signature = [w \in Worker |-> NoSignature]
    /\ outcome = [w \in Worker |-> "SUBMITTING"]
    /\ memory = [w \in Worker |-> {}]
    /\ orders = [s \in Signature |-> "absent"]
    /\ request = [w \in Worker |-> "none"]
    /\ stray = {}
    /\ sent = [s \in Signature |-> 0]
    /\ executed = [s \in Signature |-> 0]

-----------------------------------------------------------------------------
\* place()

Goto(w, next) == pc' = [pc EXCEPT ![w] = next]

\* place() returns, and the worker remembers the signature whatever the status.
Return(w) ==
    /\ Goto(w, "idle")
    /\ memory' = [memory EXCEPT ![w] = @ \union {signature[w]}]
    /\ signature' = [signature EXCEPT ![w] = NoSignature]
    /\ outcome' = [outcome EXCEPT ![w] = "SUBMITTING"]

\* place() raises or is cancelled, and the worker ends.
Die(w) ==
    /\ Goto(w, "dead")
    /\ signature' = [signature EXCEPT ![w] = NoSignature]
    /\ outcome' = [outcome EXCEPT ![w] = "SUBMITTING"]
    /\ memory' = [memory EXCEPT ![w] = {}]

\* The worker no longer waits for its request; one not yet treated goes astray.
HangUp(w) ==
    /\ request' = [request EXCEPT ![w] = "none"]
    /\ stray' = IF request[w] = "sent" THEN stray \union {signature[w]} ELSE stray

\* A signal is to be executed, and the engine did not place it before.
Place(w, s) ==
    /\ pc[w] = "idle"
    /\ s \notin memory[w]
    /\ Goto(w, "selecting")
    /\ signature' = [signature EXCEPT ![w] = s]
    /\ UNCHANGED <<outcome, memory, orders, brokerVars>>

\* signature_used finds a row: CANCELLED, without a row of its own.
FindsUsed(w) ==
    /\ pc[w] = "selecting"
    /\ orders[signature[w]] # "absent"
    /\ Return(w)
    /\ UNCHANGED <<orders, brokerVars>>

FindsFree(w) ==
    /\ pc[w] = "selecting"
    /\ orders[signature[w]] = "absent"
    /\ Goto(w, "inserting")
    /\ UNCHANGED <<memVars, orders, brokerVars>>

\* Mutant: the table has no unique key.
InsertsAgain(w) ==
    LET s == signature[w] IN
    /\ pc[w] = "inserting"
    /\ orders' = [orders EXCEPT ![s] = "SUBMITTING"]
    /\ Goto(w, "posting")
    /\ request' = [request EXCEPT ![w] = "sent"]
    /\ sent' = [sent EXCEPT ![s] = @ + 1]
    /\ UNCHANGED <<memVars, stray, executed>>

\* Mutant: the row is added and not committed before the request leaves.
InsertsUncommitted(w) ==
    /\ pc[w] = "inserting"
    /\ orders[signature[w]] = "absent"
    /\ Goto(w, "posting")
    /\ request' = [request EXCEPT ![w] = "sent"]
    /\ sent' = [sent EXCEPT ![signature[w]] = @ + 1]
    /\ UNCHANGED <<memVars, orders, stray, executed>>

\* The SUBMITTING row is committed, and the request leaves at once.
Inserts(w) ==
    LET s == signature[w] IN
    /\ pc[w] = "inserting"
    /\ orders[s] = "absent"
    /\ orders' = [orders EXCEPT ![s] = "SUBMITTING"]
    /\ Goto(w, "posting")
    /\ request' = [request EXCEPT ![w] = "sent"]
    /\ sent' = [sent EXCEPT ![s] = @ + 1]
    /\ UNCHANGED <<memVars, stray, executed>>

\* Somebody inserted the key since it was looked up: IntegrityError.
InsertConflicts(w) ==
    /\ pc[w] = "inserting"
    /\ orders[signature[w]] # "absent"
    /\ Die(w)
    /\ UNCHANGED <<orders, brokerVars>>

\* The record takes its final status, which is then committed.
Ends(w, status) ==
    /\ pc[w] = "posting"
    /\ outcome' = [outcome EXCEPT ![w] = status]
    /\ Goto(w, "storing")
    /\ HangUp(w)
    /\ UNCHANGED <<signature, memory, orders, sent, executed>>

\* A JSON object arrives.  The order is rejected when its "success" says so; an
\* object without that key counts as accepted, what it refuses included.
Answered(w) ==
    \/ request[w] = "executed" /\ Ends(w, "ACCEPTED")
    \/ request[w] = "refused"  /\ \E status \in {"REJECTED", "ACCEPTED"} : Ends(w, status)

\* Mutant: an order without an answer is posted again.
TimesOutAndRetries(w) ==
    /\ pc[w] = "posting"
    /\ request' = [request EXCEPT ![w] = "sent"]
    /\ stray' = IF request[w] = "sent" THEN stray \union {signature[w]} ELSE stray
    /\ sent' = [sent EXCEPT ![signature[w]] = @ + 1]
    /\ sent[signature[w]] < 3
    /\ UNCHANGED <<pc, memVars, orders, executed>>

\* A timeout or a network error: AmbiguousOrderError.
TimesOut(w) == Ends(w, "UNKNOWN")

\* Mutant: an HTTP error counts as a refusal.
AnsweredBadlyIsRefusal(w) == Ends(w, "REJECTED")

\* An HTTP error status (a gateway's among them) or an answer that is not a JSON
\* object: any other exception.
AnsweredBadly(w) == Ends(w, "FAILED")

Stores(w) ==
    /\ pc[w] = "storing"
    /\ orders' = [orders EXCEPT ![signature[w]] = outcome[w]]
    /\ Return(w)
    /\ UNCHANGED brokerVars

-----------------------------------------------------------------------------
\* Failures, and new engines

\* What a commit that was not confirmed may have left in the table.
Unconfirmed(w) ==
    \/ UNCHANGED orders
    \/ /\ pc[w] = "inserting" /\ orders[signature[w]] = "absent"
       /\ orders' = [orders EXCEPT ![signature[w]] = "SUBMITTING"]
    \/ /\ pc[w] = "storing"
       /\ orders' = [orders EXCEPT ![signature[w]] = outcome[w]]

\* A database call raises, stop() cancels the task, or the process dies.
Breaks(w) ==
    /\ MayFail
    /\ pc[w] \notin {"idle", "dead"}
    /\ Unconfirmed(w)
    /\ HangUp(w)
    /\ Die(w)
    /\ UNCHANGED <<sent, executed>>

\* An engine is stopped between two orders, or the process dies then.
Leaves(w) ==
    /\ pc[w] = "idle"
    /\ Die(w)
    /\ UNCHANGED <<orders, brokerVars>>

\* A new engine, with an empty memory.
Starts(w) ==
    /\ pc[w] = "dead"
    /\ Goto(w, "idle")
    /\ UNCHANGED <<memVars, orders, brokerVars>>

-----------------------------------------------------------------------------
\* The broker (external)

Executes(w) ==
    /\ request[w] = "sent"
    /\ request' = [request EXCEPT ![w] = "executed"]
    /\ executed' = [executed EXCEPT ![signature[w]] = @ + 1]
    /\ UNCHANGED <<pc, memVars, orders, stray, sent>>

Refuses(w) ==
    /\ request[w] = "sent"
    /\ request' = [request EXCEPT ![w] = "refused"]
    /\ UNCHANGED <<pc, memVars, orders, stray, sent, executed>>

ExecutesStray(s) ==
    /\ s \in stray
    /\ stray' = stray \ {s}
    /\ executed' = [executed EXCEPT ![s] = @ + 1]
    /\ UNCHANGED <<pc, memVars, orders, request, sent>>

LosesStray(s) ==
    /\ s \in stray
    /\ stray' = stray \ {s}
    /\ UNCHANGED <<pc, memVars, orders, request, sent, executed>>

-----------------------------------------------------------------------------
PlaceStep(w) ==
    \/ FindsUsed(w) \/ FindsFree(w) \/ Inserts(w) \/ InsertConflicts(w)
    \/ Answered(w) \/ TimesOut(w) \/ AnsweredBadly(w) \/ Stores(w)

Next ==
    \/ \E w \in Worker :
          \/ \E s \in Signature : Place(w, s)
          \/ PlaceStep(w)
          \/ Breaks(w) \/ Leaves(w) \/ Starts(w)
          \/ Executes(w) \/ Refuses(w)
    \/ \E s \in Signature : ExecutesStray(s) \/ LosesStray(s)

Spec == Init /\ [][Next]_vars

-----------------------------------------------------------------------------
\* Properties

\* At most one POST is ever made for a signature: by engines that decide it at
\* the same time, by an engine started again, by another replica, after a crash
\* (order_service.py:19-24, models/db.py:64, pocketoption_client.py:70).
AtMostOnePost == \A s \in Signature : sent[s] <= 1

\* No trade without a record: whatever the broker executes was committed to
\* order_records first, so a crash cannot hide it (order_service.py:22-24).
TradesAreRecorded ==
    \A s \in Signature : executed[s] > 0 \/ s \in stray => orders[s] # "absent"

\* An answer settles the order: once its record is ACCEPTED or REJECTED no request
\* for it is left that the broker might still execute, and REJECTED is no trade,
\* although requests are executed late, workers cancelled and commits lost
\* (order_service.py:25-31).  UNKNOWN and FAILED promise neither.
AnswersSettle ==
    \A s \in Signature :
        /\ orders[s] \in {"ACCEPTED", "REJECTED"} => s \notin stray
        /\ orders[s] = "REJECTED" => executed[s] = 0

\* Every step of the submission is one the abstract order book allows.
Book == INSTANCE OrderBook WITH record <- orders, trades <- executed
ImplementsOrderBook == Book!Spec

-----------------------------------------------------------------------------
\* What the README and the counters say, and the code does not keep

\* An order that counts as executed (orders_executed, order_times) is a trade: an
\* answer without "success" is ACCEPTED whatever the broker did (order_service.py:26).
AcceptedIsTrade == \A s \in Signature : orders[s] = "ACCEPTED" => executed[s] = 1

\* Only an order whose result is known is not UNKNOWN: FAILED is no trade
\* (README.md:115, a timeout after submission produces UNKNOWN).
FailedIsNoTrade == \A s \in Signature : orders[s] = "FAILED" => executed[s] = 0

=============================================================================
