------------------------ MODULE MCConnectionSessions ------------------------
(***************************************************************************)
(* Instances of ConnectionSessions for TLC.                                *)
(***************************************************************************)
EXTENDS ConnectionSessions, TLC

Symmetric == Permutations(Replica) \union Permutations(Ssid)
                \union Permutations(Id) \union Permutations(Call)

\* States that differ in what no step and no property reads any more are explored
\* once: the mode, once it is read, and the API where no create has named its
\* account without having asked for its balance.
View ==
    <<[r \in Replica |-> [i \in Id |-> <<contexts[r][i].ssid, contexts[r][i].connected>>]],
      rows,
      [c \in Call |-> [call[c] EXCEPT !.mode = None]],
      IF \E c \in Call : call[c].pc \in {"stats", "balance"} THEN <<api>> ELSE <<>> >>

=============================================================================
