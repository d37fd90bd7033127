------------------------------ MODULE MCLedger ------------------------------
(* Two proposals that compete for one allowance: one the owner is asked    *)
(* about, and a comment that needs no approval.                            *)
EXTENDS ParticipationLedger, TLC

CONSTANTS asked, free

MCDims == (asked :> {"comment", "initiation"}) @@ (free :> {"comment"})
MCLimit == [c \in {"comment", "initiation"} |-> 1]

=============================================================================
