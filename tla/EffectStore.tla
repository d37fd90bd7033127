----------------------------- MODULE EffectStore -----------------------------
(***************************************************************************)
(* The durable outbox: tables effects, effect_attempts and                 *)
(* transport_receipts of processing/store.py.  Every store method runs     *)
(* under one lock and one BEGIN IMMEDIATE transaction, so each is a single *)
(* step.  An effect is identified with its operation key: enqueueing is    *)
(* idempotent per operation key and a key never changes its effect.        *)
(*                                                                         *)
(* StoreSpec lets any caller use the store in any order.  What holds of it *)
(* is what the store itself guarantees; EffectOutbox implements it.        *)
(***************************************************************************)
EXTENDS EffectModel, Integers, Sequences

CONSTANTS
    Effects,        \* operation keys
    Workers,        \* identities under which callers claim effects
    Lease,          \* lease_ms of a claim
    EffectDeadline, \* deadline given to a submitted effect
    MaxTime,        \* bound: the last instant of the clock
    MaxAttempts     \* bound: claims of one effect in StoreSpec

ASSUME EffectStoreAssumption ==
    /\ Lease \in Nat \ {0}
    /\ EffectDeadline \in Nat \ {0}
    /\ MaxTime \in Nat
    /\ MaxAttempts \in Nat \ {0}
    /\ NoOne \notin Workers

VARIABLES
    now,        \* the wall clock, assumed not to step back
    effect,     \* effects: one row per operation key
    attempts,   \* effect_attempts: outcomes in order of claim, "open" if unfinished
    receipt     \* transport_receipts: the newest receipt of the effect

storeVars == <<effect, attempts, receipt>>

Origins == {"legacy", "participation"}

\* A receipt carries a provider message id, only a client id, or is missing.
Receipts == {"none", "client", "provider"}

NoRow == [state |-> "absent", origin |-> "legacy", owner |-> NoOne,
          until |-> 0, expires |-> 0, updated |-> 0]

Outcomes == {"open", "sent", "failed", "unknown"}

\* updated and until are the updated_ms and lease_until_ms columns; a NULL
\* lease has owner NoOne and until 0.
StoreTypeOK ==
    /\ now \in 0..MaxTime
    /\ effect \in [Effects -> [state : EffectStates \cup {"absent"},
                               origin : Origins,
                               owner : Workers \cup {NoOne},
                               until : Nat, expires : Nat, updated : Nat]]
    /\ attempts \in [Effects -> Seq(Outcomes)]
    /\ receipt \in [Effects -> Receipts]

State(e) == effect[e].state

StoreInit ==
    /\ now = 0
    /\ effect = [e \in Effects |-> NoRow]
    /\ attempts = [e \in Effects |-> <<>>]
    /\ receipt = [e \in Effects |-> "none"]

-----------------------------------------------------------------------------
\* Operations.  Each says what it does to the tables it writes.

\* _enqueue_effect_in_connection: the first call for a key inserts the row, a
\* later identical call finds it and changes nothing.
EnqueueEffect(e, origin, expires) ==
    effect' = IF State(e) # "absent" THEN effect
              ELSE [effect EXCEPT ![e] =
                      [state   |-> IF expires <= now THEN "expired" ELSE "queued",
                       origin  |-> origin,
                       owner   |-> NoOne,
                       until   |-> 0,
                       expires |-> expires,
                       updated |-> now]]

\* A mutated claim that opens no attempt row.
ClaimEffectNoAttempt(e, worker) ==
    /\ State(e) \in ClaimableStates
    /\ effect' = [effect EXCEPT ![e] =
                    [@ EXCEPT !.state = "executing", !.owner = worker,
                              !.until = now + Lease, !.updated = now]]
    /\ attempts' = attempts

\* claim_effect: enabled only when the claim is won.
ClaimEffect(e, worker) ==
    /\ State(e) \in ClaimableStates
    /\ effect' = [effect EXCEPT ![e] =
                    [@ EXCEPT !.state = "executing", !.owner = worker,
                              !.until = now + Lease, !.updated = now]]
    /\ attempts' = [attempts EXCEPT ![e] = Append(@, "open")]

\* release_claim: the lease is dropped, the effect stays executing.
ReleaseClaim(e, worker) ==
    /\ State(e) = "executing"
    /\ effect[e].owner = worker
    /\ effect' = [effect EXCEPT ![e] =
                    [@ EXCEPT !.owner = NoOne, !.until = 0, !.updated = now]]

CloseAttempts(outcomes, outcome) ==
    [i \in DOMAIN outcomes |->
        IF outcomes[i] = "open" THEN outcome ELSE outcomes[i]]

\* What transition() writes when its compare-and-set hits: leaving executing
\* drops the lease and closes the open attempt with the target as outcome.
Moved(row, target) ==
    IF row.state = "executing"
    THEN [row EXCEPT !.state = target, !.updated = now,
                     !.owner = NoOne, !.until = 0]
    ELSE [row EXCEPT !.state = target, !.updated = now]

\* transition: compare-and-set.  A missed expectation returns False and an
\* invalid change raises; both leave the tables alone.
Transition(e, expected, target, kind, worker) ==
    IF /\ State(e) \in expected
       /\ ValidTransition(State(e), target, kind, worker, effect[e].owner)
    THEN /\ effect' = [effect EXCEPT ![e] = Moved(@, target)]
         /\ attempts' = IF State(e) = "executing"
                        THEN [attempts EXCEPT ![e] = CloseAttempts(@, target)]
                        ELSE attempts
    ELSE UNCHANGED <<effect, attempts>>

\* A mutated selection: only claims whose lease was given up.
ExpiredClaimsReleased ==
    {e \in Effects : State(e) = "executing" /\ effect[e].owner = NoOne}

\* The rows recover_executing selects: a claim whose lease is gone or over.
ExpiredClaims ==
    {e \in Effects : State(e) = "executing" /\ effect[e].until <= now}

\* A mutated recovery that makes the work repeatable again.
RecoverExecutingToQueued ==
    /\ effect' = [e \in Effects |->
                    IF e \in ExpiredClaims
                    THEN [Moved(effect[e], "unknown") EXCEPT !.state = "queued"]
                    ELSE effect[e]]
    /\ attempts' = [e \in Effects |->
                    IF e \in ExpiredClaims
                    THEN CloseAttempts(attempts[e], "unknown")
                    ELSE attempts[e]]

\* recover_executing: an expired claim becomes unknown, never queued.
RecoverExecuting ==
    /\ effect' = [e \in Effects |->
                    IF e \in ExpiredClaims THEN Moved(effect[e], "unknown")
                                           ELSE effect[e]]
    /\ attempts' = [e \in Effects |->
                    IF e \in ExpiredClaims
                    THEN CloseAttempts(attempts[e], "unknown")
                    ELSE attempts[e]]

\* record_transport_receipt; receipt[e] is what effect_transport_receipt reads,
\* the newest receipt of the effect.
RecordTransportReceipt(e, r) == receipt' = [receipt EXCEPT ![e] = r]

Tick ==
    /\ now < MaxTime
    /\ now' = now + 1
    /\ UNCHANGED storeVars

-----------------------------------------------------------------------------
\* The store under any caller.

StoreEnqueue(e) ==
    /\ \E origin \in Origins, expires \in {now, now + EffectDeadline} :
           EnqueueEffect(e, origin, expires)
    /\ UNCHANGED <<now, attempts, receipt>>

StoreClaim(e) ==
    /\ Len(attempts[e]) < MaxAttempts
    /\ \E w \in Workers : ClaimEffect(e, w)
    /\ UNCHANGED <<now, receipt>>

StoreRelease(e) ==
    /\ \E w \in Workers : ReleaseClaim(e, w)
    /\ UNCHANGED <<now, attempts, receipt>>

\* claim_effect is the only way into executing.
StoreTransition(e) ==
    /\ State(e) # "absent"
    /\ \E target \in EffectStates \ {"executing"},
          kind \in RequeueEvidenceKinds \cup {"policy"},
          w \in Workers \cup {NoOne} :
          Transition(e, {State(e)}, target, kind, w)
    /\ UNCHANGED <<now, receipt>>

StoreRecover == RecoverExecuting /\ UNCHANGED <<now, receipt>>

StoreReceipt(e) ==
    /\ State(e) # "absent"
    /\ \E r \in Receipts \ {"none"} : RecordTransportReceipt(e, r)
    /\ UNCHANGED <<now, effect, attempts>>

StoreNext ==
    \/ Tick
    \/ StoreRecover
    \/ \E e \in Effects :
          \/ StoreEnqueue(e)
          \/ StoreClaim(e)
          \/ StoreRelease(e)
          \/ StoreTransition(e)
          \/ StoreReceipt(e)

StoreSpec == StoreInit /\ [][StoreNext]_<<now, storeVars>>

-----------------------------------------------------------------------------
\* Properties of the store alone.

\* claim_effect, transition and recover_executing keep the two tables in step:
\* an effect is executing exactly while its newest attempt is open, no older
\* attempt is ever open, and only an executing effect carries a lease.
ClaimBookkeeping ==
    \A e \in Effects :
        /\ State(e) = "executing"
             <=> Len(attempts[e]) > 0 /\ attempts[e][Len(attempts[e])] = "open"
        /\ \A i \in 1..(Len(attempts[e]) - 1) : attempts[e][i] # "open"
        /\ State(e) # "executing" => effect[e].owner = NoOne

\* Whatever callers do, an attempt that ended as sent is the last one: no chain
\* of transitions, recoveries and requeues makes a sent effect claimable again.
NoAttemptAfterSent ==
    \A e \in Effects :
        \A i \in 1..Len(attempts[e]) :
            attempts[e][i] = "sent" => i = Len(attempts[e]) /\ State(e) = "sent"
=============================================================================
