------------------------------ MODULE OrderBook ------------------------------
(***************************************************************************)
(* What order submission promises about one signal signature, whoever      *)
(* places it and whatever fails: a signature is claimed once, at most one  *)
(* trade is made for it and only after it was claimed, and its record is   *)
(* closed at most once.  ACCEPTED and REJECTED close it for the broker as  *)
(* well: no trade is made for it any more, and REJECTED is of none.        *)
(***************************************************************************)
EXTENDS Naturals

CONSTANT Signature

VARIABLES record,   \* the status recorded for each signature, "absent" without one
          trades    \* the number of trades made for it

vars == <<record, trades>>

Final == {"ACCEPTED", "REJECTED", "UNKNOWN", "FAILED"}

Init ==
    /\ record = [s \in Signature |-> "absent"]
    /\ trades = [s \in Signature |-> 0]

Claim(s) ==
    /\ record[s] = "absent"
    /\ record' = [record EXCEPT ![s] = "SUBMITTING"]
    /\ UNCHANGED trades

\* The trade, which may also come after the record was closed without an answer.
Trade(s) ==
    /\ record[s] \in {"SUBMITTING", "UNKNOWN", "FAILED"}
    /\ trades[s] = 0
    /\ trades' = [trades EXCEPT ![s] = @ + 1]
    /\ UNCHANGED record

Close(s, st) ==
    /\ record[s] = "SUBMITTING"
    /\ st \in Final
    /\ st = "REJECTED" => trades[s] = 0
    /\ record' = [record EXCEPT ![s] = st]
    /\ UNCHANGED trades

Next == \E s \in Signature : Claim(s) \/ Trade(s) \/ \E st \in Final : Close(s, st)

Spec == Init /\ [][Next]_vars

=============================================================================
