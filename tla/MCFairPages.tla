---------------------------- MODULE MCFairPages ----------------------------
(* Two rounds, checked or replayed twice at a time: the first hits any row *)
(* of the table at its edges, with a stake that the rounding and the       *)
(* readings of an amount tell apart.                                       *)
EXTENDS FairPages

CONSTANTS r1, r2, s1, s2

Edges == {Cumulative[i] : i \in 1..10} \cup {Cumulative[i] - 1 : i \in 1..11} \cup {0}

MCSettlements ==
    {[r \in Rounds |-> IF r = r1 THEN [pick |-> p, stake |-> b]
                      ELSE [pick |-> Cumulative[5], stake |-> 3 * Scale]] :
        p \in Edges, b \in {Scale + 5}}
    \cup
    {[r \in Rounds |-> IF r = r1 THEN [pick |-> p, stake |-> b]
                      ELSE [pick |-> Cumulative[5], stake |-> 3 * Scale]] :
        p \in {Cumulative[1], Cumulative[11] - 1},
        b \in {Scale - 6, Scale, Scale + 4, Scale * Scale, Scale * Scale + 7}}

=============================================================================
