----------------------------- MODULE EffectModel -----------------------------
(***************************************************************************)
(* The effect state machine of processing/models.py: the states, the       *)
(* transition table and the rule that a compare-and-set must satisfy.      *)
(* An effect is one external action (a message, a reaction, a deletion)    *)
(* that the gateway wants performed exactly as authorised, at most once.   *)
(***************************************************************************)

\* Absence of a lease owner: the lease_owner column is NULL.
NoOne == "nobody"

EffectStates ==
    {"planned", "queued", "executing", "sent", "blocked", "expired",
     "failed", "cancelled", "unknown", "unknown_nonrepeatable"}

\* States that say the effect did not run and will not be tried any more
\* without somebody putting it back in the queue.
NotRunStates == {"blocked", "expired", "failed", "cancelled"}

ClaimableStates == {"queued"}

RequeueEvidenceKinds == {"not_executed", "safe_retry", "operator"}

Transitions ==
    [planned               |-> {"queued", "blocked", "cancelled", "expired"},
     queued                |-> {"executing", "blocked", "cancelled", "expired",
                                "failed"},
     executing             |-> {"sent", "failed", "unknown"},
     blocked               |-> {"queued", "cancelled", "expired", "failed"},
     unknown               |-> {"sent", "queued", "expired",
                                "unknown_nonrepeatable"},
     unknown_nonrepeatable |-> {"sent"},
     failed                |-> {"queued"},
     sent                  |-> {},
     expired               |-> {},
     cancelled             |-> {}]

\* A mutated rule: the table is not asked.
ValidTransitionNoTable(current, target, kind, worker, owner) ==
    /\ current = "executing"
         => /\ worker # NoOne
            /\ owner # NoOne => worker = owner
    /\ target = "queued" /\ current \in {"unknown", "failed"}
         => kind \in RequeueEvidenceKinds

\* validate_transition: where it raises, the transition is not valid.
ValidTransition(current, target, kind, worker, owner) ==
    /\ target \in Transitions[current]
    /\ current = "executing"
         => /\ worker # NoOne
            /\ owner # NoOne => worker = owner
    /\ target = "queued" /\ current \in {"unknown", "failed"}
         => kind \in RequeueEvidenceKinds
=============================================================================
