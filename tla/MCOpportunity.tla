---------------------------- MODULE MCOpportunity ------------------------------
(* OpportunityScheduler for TLC: a chat with three messages and one direct *)
(* request, and a chat that competes with it for the pending map.          *)
EXTENDS OpportunityScheduler, TLC

CONSTANTS busy, other

MCSources == (busy :> 3) @@ (other :> 1)
MCDirect == (busy :> 1) @@ (other :> 0)

=============================================================================
