------------------------ MODULE OrderSubmissionProofs ------------------------
(***************************************************************************)
(* Proofs about OrderSubmission, for any set of workers and of signatures: *)
(* at most one POST and at most one trade for a signature, no trade        *)
(* without a record, answers that settle it, and the implementation of     *)
(* OrderBook.                                                              *)
(***************************************************************************)
EXTENDS OrderSubmission, TLAPS

\* A worker whose POST has left and whose record is still to be closed.
Submitting(w) == pc[w] \in {"posting", "storing"}

\* Where a worker is, and what it then holds.
LocalInv ==
    \A w \in Worker :
        /\ pc[w] \notin {"idle", "dead"} => signature[w] \in Signature
        /\ pc[w] = "posting" <=> request[w] # "none"
        /\ pc[w] = "storing" => outcome[w] \in Final
        /\ Submitting(w) => orders[signature[w]] = "SUBMITTING"

\* The unique key: nobody shares the signature of a submission.
ExclusiveInv ==
    \A v, w \in Worker :
        v # w /\ Submitting(v) /\ Submitting(w) => signature[v] # signature[w]

\* What the broker can have done for a signature.
BrokerInv ==
    \A s \in Signature :
        /\ orders[s] = "absent" => sent[s] = 0 /\ executed[s] = 0 /\ s \notin stray
        /\ sent[s] <= 1
        /\ executed[s] <= 1
        /\ s \in stray => executed[s] = 0

\* What it has done for the request a worker waits for or has an answer to.
RequestInv ==
    \A w \in Worker :
        /\ pc[w] = "posting" =>
              /\ signature[w] \notin stray
              /\ executed[signature[w]] = IF request[w] = "executed" THEN 1 ELSE 0
        /\ pc[w] = "storing" /\ outcome[w] \in {"ACCEPTED", "REJECTED"} =>
              signature[w] \notin stray
        /\ pc[w] = "storing" /\ outcome[w] = "REJECTED" => executed[signature[w]] = 0

Inv == TypeOK /\ LocalInv /\ ExclusiveInv /\ BrokerInv /\ RequestInv /\ AnswersSettle

-----------------------------------------------------------------------------
\* The state before a submission starts satisfies the invariant.
LEMMA InitInv == Init => Inv
BY SubmissionAssumption
DEF Init, Inv, TypeOK, LocalInv, ExclusiveInv, BrokerInv, RequestInv, AnswersSettle,
    Submitting, PC, Final

\* Every step of a worker, of the broker or of a failure keeps the invariant.
LEMMA StepInv == Inv /\ [Next]_vars => Inv'
<1> SUFFICES ASSUME Inv, [Next]_vars PROVE Inv'
  OBVIOUS
<1> USE SubmissionAssumption
    DEF Inv, TypeOK, LocalInv, ExclusiveInv, BrokerInv, RequestInv, AnswersSettle,
        Submitting, PC, Final
<1>1. ASSUME NEW w \in Worker, NEW s \in Signature, Place(w, s) PROVE Inv'
  BY <1>1 DEF Place, Goto, brokerVars
<1>2. ASSUME NEW w \in Worker, FindsUsed(w) PROVE Inv'
  BY <1>2 DEF FindsUsed, Return, Goto, brokerVars
<1>3. ASSUME NEW w \in Worker, FindsFree(w) PROVE Inv'
  BY <1>3 DEF FindsFree, Goto, memVars, brokerVars
<1>4. ASSUME NEW w \in Worker, Inserts(w) PROVE Inv'
  BY <1>4 DEF Inserts, Goto, memVars
<1>5. ASSUME NEW w \in Worker, InsertConflicts(w) PROVE Inv'
  BY <1>5 DEF InsertConflicts, Die, Goto, brokerVars
<1>6. ASSUME NEW w \in Worker, Answered(w) PROVE Inv'
  BY <1>6 DEF Answered, Ends, HangUp, Goto
<1>7. ASSUME NEW w \in Worker, TimesOut(w) PROVE Inv'
  BY <1>7 DEF TimesOut, Ends, HangUp, Goto
<1>8. ASSUME NEW w \in Worker, AnsweredBadly(w) PROVE Inv'
  BY <1>8 DEF AnsweredBadly, Ends, HangUp, Goto
<1>9. ASSUME NEW w \in Worker, Stores(w) PROVE Inv'
  BY <1>9 DEF Stores, Return, Goto, brokerVars
<1>10. ASSUME NEW w \in Worker, Breaks(w) PROVE Inv'
  BY <1>10 DEF Breaks, Unconfirmed, HangUp, Die, Goto
<1>11. ASSUME NEW w \in Worker, Leaves(w) PROVE Inv'
  BY <1>11 DEF Leaves, Die, Goto, brokerVars
<1>12. ASSUME NEW w \in Worker, Starts(w) PROVE Inv'
  BY <1>12 DEF Starts, Goto, memVars, brokerVars
<1>13. ASSUME NEW w \in Worker, Executes(w) PROVE Inv'
  BY <1>13 DEF Executes, memVars
<1>14. ASSUME NEW w \in Worker, Refuses(w) PROVE Inv'
  BY <1>14 DEF Refuses, memVars
<1>15. ASSUME NEW s \in Signature, ExecutesStray(s) PROVE Inv'
  BY <1>15 DEF ExecutesStray, memVars
<1>16. ASSUME NEW s \in Signature, LosesStray(s) PROVE Inv'
  BY <1>16 DEF LosesStray, memVars
<1>17. CASE UNCHANGED vars
  BY <1>17 DEF vars, memVars, brokerVars
<1> QED
  BY <1>1, <1>2, <1>3, <1>4, <1>5, <1>6, <1>7, <1>8, <1>9, <1>10, <1>11, <1>12, <1>13, <1>14, <1>15, <1>16, <1>17 DEF Next, PlaceStep

\* The invariant holds in every reachable state.
THEOREM Invariance == Spec => []Inv
BY InitInv, StepInv, PTL DEF Spec

\* Type correctness of the submission model.
THEOREM SubmissionTypes == Spec => []TypeOK
BY Invariance, PTL DEF Inv

\* However many engines and replicas decide the same signal, and whatever
\* fails in between, at most one order is posted for it
\* (order_service.py:19-24, models/db.py:64).
THEOREM PostedAtMostOnce == Spec => []AtMostOnePost
<1>1. Inv => AtMostOnePost
  BY DEF Inv, BrokerInv, AtMostOnePost
<1> QED
  BY <1>1, Invariance, PTL

\* The broker never trades for a signature that order_records does not hold
\* (order_service.py:22-24).
THEOREM TradesRecorded == Spec => []TradesAreRecorded
<1>1. Inv => TradesAreRecorded
  BY DEF Inv, TypeOK, BrokerInv, TradesAreRecorded
<1> QED
  BY <1>1, Invariance, PTL

\* Nothing more can be traded for a signature whose record is ACCEPTED or REJECTED,
\* and nothing was for a REJECTED one (order_service.py:25-31).
THEOREM AnswersFinal == Spec => []AnswersSettle
BY Invariance, PTL DEF Inv

-----------------------------------------------------------------------------
\* A step of the submission is a step of the order book or leaves it alone.
LEMMA StepRefines == Inv /\ [Next]_vars => [Book!Next]_(Book!vars)
<1> SUFFICES ASSUME Inv, [Next]_vars PROVE [Book!Next]_(Book!vars)
  OBVIOUS
<1> USE SubmissionAssumption DEF Book!Next, Book!vars
<1>1. ASSUME NEW w \in Worker, Inserts(w) PROVE Book!Claim(signature[w]) /\ signature[w] \in Signature
  BY <1>1 DEF Inserts, Book!Claim, Inv, LocalInv
<1>2. ASSUME NEW w \in Worker, Stores(w)
      PROVE  /\ signature[w] \in Signature
             /\ outcome[w] \in Book!Final
             /\ Book!Close(signature[w], outcome[w])
  BY <1>2 DEF Stores, brokerVars, Book!Close, Book!Final, Final,
              Inv, TypeOK, LocalInv, RequestInv, Submitting
<1>3. ASSUME NEW w \in Worker, Executes(w)
      PROVE  signature[w] \in Signature /\ Book!Trade(signature[w])
  BY <1>3 DEF Executes, Book!Trade, Inv, TypeOK, LocalInv, RequestInv, Submitting, PC
<1>4. ASSUME NEW s \in Signature, ExecutesStray(s) PROVE Book!Trade(s)
  BY <1>4 DEF ExecutesStray, Book!Trade, Inv, TypeOK, BrokerInv, AnswersSettle, Final
<1>5. ASSUME NEW w \in Worker, Breaks(w) PROVE [Book!Next]_(Book!vars)
  <2>1. CASE UNCHANGED orders
    BY <1>5, <2>1 DEF Breaks
  <2>2. CASE /\ pc[w] = "inserting" /\ orders[signature[w]] = "absent"
             /\ orders' = [orders EXCEPT ![signature[w]] = "SUBMITTING"]
    BY <1>5, <2>2 DEF Breaks, Book!Claim, Inv, LocalInv
  <2>3. CASE /\ pc[w] = "storing"
             /\ orders' = [orders EXCEPT ![signature[w]] = outcome[w]]
    <3>1. signature[w] \in Signature /\ outcome[w] \in Book!Final
      BY <2>3 DEF Inv, LocalInv, Book!Final, Final
    <3>2. Book!Close(signature[w], outcome[w])
      BY <1>5, <2>3, <3>1 DEF Breaks, Book!Close, Inv, LocalInv, RequestInv, Submitting
    <3> QED
      BY <3>1, <3>2
  <2> QED
    BY <1>5, <2>1, <2>2, <2>3 DEF Breaks, Unconfirmed
<1>6. ASSUME NEW w \in Worker,
             \/ \E s \in Signature : Place(w, s)
             \/ FindsUsed(w) \/ FindsFree(w) \/ InsertConflicts(w)
             \/ Answered(w) \/ TimesOut(w) \/ AnsweredBadly(w)
             \/ Leaves(w) \/ Starts(w) \/ Refuses(w)
      PROVE  UNCHANGED Book!vars
  BY <1>6 DEF Place, FindsUsed, FindsFree, InsertConflicts, Answered, TimesOut,
              AnsweredBadly, Ends, Leaves, Starts, Refuses, brokerVars
<1>7. ASSUME NEW s \in Signature, LosesStray(s) PROVE UNCHANGED Book!vars
  BY <1>7 DEF LosesStray
<1>8. CASE UNCHANGED vars
  BY <1>8 DEF vars, brokerVars
<1> QED
  BY <1>1, <1>2, <1>3, <1>4, <1>5, <1>6, <1>7, <1>8 DEF Next, PlaceStep

\* Order submission implements the order book: what OrderBook promises about a
\* signature holds of the code with all its interleavings and failures.
THEOREM Refinement == Spec => ImplementsOrderBook
<1>1. Init => Book!Init
  BY DEF Init, Book!Init
<1> QED
  BY <1>1, StepRefines, Invariance, PTL DEF Spec, Book!Spec, ImplementsOrderBook

=============================================================================
