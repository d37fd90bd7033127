----------------------------- MODULE MCSendBudget ------------------------------
(* SendBudget for TLC: two effects of one unit and one of two units in one *)
(* chat.                                                                         *)
EXTENDS SendBudget, TLC

CONSTANTS small1, small2, album, home

MCChat == [e \in Effects |-> home]
MCUnits == [e \in Effects |-> IF e = album THEN 2 ELSE 1]
Symmetry == Permutations(Runs) \cup Permutations({small1, small2})

=============================================================================
