------------------------- MODULE EffectOutboxProofs -------------------------
(***************************************************************************)
(* First the outbox tables by themselves, for any number of effects,       *)
(* workers and attempts, whoever calls the store and in whatever order.    *)
(* Then the composed outbox, for any number of effects, tasks, crashes,    *)
(* probes and commands: the inductive invariant OutboxInv, the steps of    *)
(* tasks, provider, crash, reconciler and operator that preserve its       *)
(* parts; hence at most one execution and true verdicts, and the step-wise *)
(* refinement of the store and of the abstract contract.                   *)
(***************************************************************************)
EXTENDS EffectOutbox, TLAPS

-----------------------------------------------------------------------------
\* The store

\* What validate_transition lets happen: nothing leaves a final state, a claim
\* ends as sent, failed or unknown, and only a queued effect is claimed.
LEMMA ValidTransitionFacts ==
    ASSUME NEW current \in EffectStates, NEW target \in EffectStates,
           NEW kind, NEW w, NEW owner,
           ValidTransition(current, target, kind, w, owner)
    PROVE  /\ current \notin {"sent", "expired", "cancelled"}
           /\ current = "executing" => target \in {"sent", "failed", "unknown"}
           /\ target = "executing" => current = "queued"
           /\ target = "sent"
                => current \in {"executing", "unknown", "unknown_nonrepeatable"}
           /\ target = "failed" => current \in {"executing", "queued", "blocked"}
           /\ target \in NotRunStates =>
                current \in {"planned", "queued", "executing", "blocked", "unknown"}
BY DEF ValidTransition, Transitions, EffectStates, NotRunStates

\* Closing the open attempts (the UPDATE effect_attempts of transition and
\* recover_executing) keeps their number and changes nothing else.
LEMMA CloseAttemptsFacts ==
    ASSUME NEW s \in Seq(Outcomes), NEW outcome \in Outcomes
    PROVE  /\ CloseAttempts(s, outcome) \in Seq(Outcomes)
           /\ Len(CloseAttempts(s, outcome)) = Len(s)
           /\ \A i \in 1..Len(s) :
                 CloseAttempts(s, outcome)[i] =
                     IF s[i] = "open" THEN outcome ELSE s[i]
BY DEF CloseAttempts, Outcomes

-----------------------------------------------------------------------------
\* The inductive invariant speaks of each effect by itself: its row and its
\* attempts are typed, in step, and nothing follows a sent attempt.
Row == [state : EffectStates \cup {"absent"}, origin : Origins,
        owner : Workers \cup {NoOne}, until : Nat, expires : Nat, updated : Nat]

RowInv(row, tries) ==
    /\ row \in Row
    /\ tries \in Seq(Outcomes)
    /\ row.state = "executing" <=> Len(tries) > 0 /\ tries[Len(tries)] = "open"
    /\ \A i \in 1..(Len(tries) - 1) : tries[i] # "open"
    /\ row.state # "executing" => row.owner = NoOne
    /\ \A i \in 1..Len(tries) :
          tries[i] = "sent" => i = Len(tries) /\ row.state = "sent"

StoreInv ==
    /\ now \in 0..MaxTime
    /\ effect \in [Effects -> Row]
    /\ attempts \in [Effects -> Seq(Outcomes)]
    /\ receipt \in [Effects -> Receipts]
    /\ \A e \in Effects : RowInv(effect[e], attempts[e])

\* It implies the three properties checked of the store.
LEMMA StoreInvImplies ==
    StoreInv => StoreTypeOK /\ ClaimBookkeeping /\ NoAttemptAfterSent
BY DEF StoreInv, RowInv, Row, StoreTypeOK, ClaimBookkeeping, NoAttemptAfterSent,
       State

\* The empty store satisfies it.
LEMMA StoreInitInv == StoreInit => StoreInv
BY EffectStoreAssumption
   DEF StoreInit, StoreInv, RowInv, Row, NoRow, Origins, Receipts, Outcomes

\* A step that changes one effect's row and attempts preserves the invariant
\* if what it writes is in order.
LEMMA OneRow ==
    ASSUME StoreInv, NEW e \in Effects, NEW row, NEW tries,
           RowInv(row, tries),
           effect' = [effect EXCEPT ![e] = row],
           attempts' = [attempts EXCEPT ![e] = tries],
           UNCHANGED <<now, receipt>>
    PROVE  StoreInv'
<1>1. row \in Row /\ tries \in Seq(Outcomes)
  BY DEF RowInv
<1>2. effect' \in [Effects -> Row] /\ attempts' \in [Effects -> Seq(Outcomes)]
  BY <1>1 DEF StoreInv
<1>3. ASSUME NEW d \in Effects PROVE RowInv(effect'[d], attempts'[d])
  BY DEF StoreInv
<1> QED BY <1>2, <1>3 DEF StoreInv

\* The row transition() and recover_executing write when a claim ends.
LEMMA ClaimEnds ==
    ASSUME NEW row, NEW tries, RowInv(row, tries), now \in Nat,
           row.state = "executing", NEW target \in {"sent", "failed", "unknown"}
    PROVE  RowInv(Moved(row, target), CloseAttempts(tries, target))
<1> DEFINE new == Moved(row, target)
           ended == CloseAttempts(tries, target)
<1>1. row \in Row /\ tries \in Seq(Outcomes) /\ target \in Outcomes
  BY DEF RowInv, Outcomes
<1>2. new \in Row /\ new.state = target /\ new.owner = NoOne
  BY <1>1, Zenon DEF Moved, Row, EffectStates
<1>3. /\ ended \in Seq(Outcomes)
      /\ Len(ended) = Len(tries)
      /\ \A i \in 1..Len(tries) :
            ended[i] = IF tries[i] = "open" THEN target ELSE tries[i]
  BY <1>1, CloseAttemptsFacts
<1>4. Len(tries) \in Nat
  BY <1>1
<1> HIDE DEF new, ended
<1>5. RowInv(new, ended)
  BY <1>2, <1>3, <1>4 DEF RowInv
<1> QED BY <1>5 DEF new, ended

\* The row transition() writes otherwise.
LEMMA RowMoves ==
    ASSUME NEW row, NEW tries, RowInv(row, tries), now \in Nat,
           row.state \notin {"executing", "sent"},
           NEW target \in EffectStates \ {"executing"}
    PROVE  RowInv(Moved(row, target), tries)
<1> DEFINE new == Moved(row, target)
<1>1. row \in Row
  BY DEF RowInv
<1>2. new \in Row /\ new.state = target /\ new.owner = row.owner
  BY <1>1, Zenon DEF Moved, Row
<1> HIDE DEF new
<1>3. new.state # "executing" /\ new.owner = NoOne
  BY <1>2 DEF RowInv
<1>4. \A i \in 1..Len(tries) : tries[i] # "sent"
  BY DEF RowInv
<1>5. RowInv(new, tries)
  BY <1>2, <1>3, <1>4 DEF RowInv
<1> QED BY <1>5 DEF new

\* The row claim_effect writes.
LEMMA RowClaimed ==
    ASSUME NEW row, NEW tries, RowInv(row, tries), now \in Nat,
           row.state = "queued", NEW w \in Workers
    PROVE  RowInv([row EXCEPT !.state = "executing", !.owner = w,
                              !.until = now + Lease, !.updated = now],
                  Append(tries, "open"))
<1> DEFINE new == [row EXCEPT !.state = "executing", !.owner = w,
                              !.until = now + Lease, !.updated = now]
           more == Append(tries, "open")
<1>1. row \in Row /\ tries \in Seq(Outcomes) /\ "open" \in Outcomes
  BY DEF RowInv, Outcomes
<1>2. new \in Row /\ new.state = "executing"
  <2>1. now + Lease \in Nat
    BY EffectStoreAssumption
  <2>2. "executing" \in EffectStates
    BY DEF EffectStates
  <2> QED BY <1>1, <2>1, <2>2, Zenon DEF Row
<1>3. /\ more \in Seq(Outcomes)
      /\ Len(more) = Len(tries) + 1
      /\ Len(tries) \in Nat
      /\ more[Len(tries) + 1] = "open"
      /\ \A i \in 1..Len(tries) : more[i] = tries[i]
  BY <1>1
<1> HIDE DEF new, more
<1>4. RowInv(new, more)
  BY <1>2, <1>3 DEF RowInv
<1> QED BY <1>4 DEF new, more

-----------------------------------------------------------------------------
\* A transition() of any caller preserves the invariant: leaving executing
\* closes exactly the newest attempt, and no table entry leads out of sent.
LEMMA TransitionInv ==
    ASSUME StoreInv, NEW e \in Effects, NEW target \in EffectStates \ {"executing"},
           NEW expected, NEW kind, NEW w,
           State(e) # "absent",
           Transition(e, expected, target, kind, w),
           UNCHANGED <<now, receipt>>
    PROVE  StoreInv'
<1>1. /\ RowInv(effect[e], attempts[e])
      /\ now \in Nat
      /\ State(e) \in EffectStates
  BY EffectStoreAssumption DEF StoreInv, RowInv, Row, State
<1>2. CASE UNCHANGED <<effect, attempts>>
  BY <1>2 DEF StoreInv
<1>3. CASE ~ UNCHANGED <<effect, attempts>>
  <2>1. /\ ValidTransition(State(e), target, kind, w, effect[e].owner)
        /\ effect' = [effect EXCEPT ![e] = Moved(effect[e], target)]
        /\ attempts' = IF State(e) = "executing"
                       THEN [attempts EXCEPT ![e] = CloseAttempts(attempts[e], target)]
                       ELSE attempts
    BY <1>3, Zenon DEF Transition
  <2>2. /\ State(e) # "sent"
        /\ State(e) = "executing" => target \in {"sent", "failed", "unknown"}
    BY <1>1, <2>1, ValidTransitionFacts
  <2>3. CASE State(e) = "executing"
    <3>1. RowInv(Moved(effect[e], target), CloseAttempts(attempts[e], target))
      BY <1>1, <2>2, <2>3, ClaimEnds DEF State
    <3> QED BY <2>1, <2>3, <3>1, OneRow, Zenon
  <2>4. CASE State(e) # "executing"
    <3>1. RowInv(Moved(effect[e], target), attempts[e])
      BY <1>1, <2>2, <2>4, RowMoves, Zenon DEF State
    <3>2. attempts' = [attempts EXCEPT ![e] = attempts[e]]
      BY <2>1, <2>4 DEF StoreInv
    <3> QED BY <2>1, <3>1, <3>2, OneRow, Zenon
  <2> QED BY <2>3, <2>4, Zenon
<1> QED BY <1>2, <1>3

\* recover_executing preserves the invariant: what it moves was executing, so
\* exactly its newest attempt was open.
LEMMA RecoverInv ==
    ASSUME StoreInv, RecoverExecuting, UNCHANGED <<now, receipt>>
    PROVE  StoreInv'
<1>1. ASSUME NEW e \in Effects PROVE RowInv(effect'[e], attempts'[e])
  <2>1. RowInv(effect[e], attempts[e]) /\ now \in Nat
    BY EffectStoreAssumption DEF StoreInv
  <2>2. CASE e \in ExpiredClaims
    <3>1. /\ effect'[e] = Moved(effect[e], "unknown")
          /\ attempts'[e] = CloseAttempts(attempts[e], "unknown")
      BY <2>2 DEF RecoverExecuting
    <3>2. effect[e].state = "executing"
      BY <2>2 DEF ExpiredClaims, State
    <3> QED BY <2>1, <3>1, <3>2, ClaimEnds, Zenon
  <2>3. CASE e \notin ExpiredClaims
    BY <2>1, <2>3 DEF RecoverExecuting
  <2> QED BY <2>2, <2>3
<1>2. /\ effect' = [e \in Effects |-> effect'[e]]
      /\ attempts' = [e \in Effects |-> attempts'[e]]
  BY DEF RecoverExecuting
<1>3. effect' \in [Effects -> Row] /\ attempts' \in [Effects -> Seq(Outcomes)]
  BY <1>1, <1>2 DEF RowInv
<1> QED BY <1>1, <1>3 DEF StoreInv

\* Every step of any caller preserves the invariant, one case per operation.
LEMMA StoreNextInv == StoreInv /\ [StoreNext]_<<now, storeVars>> => StoreInv'
<1> SUFFICES ASSUME StoreInv, [StoreNext]_<<now, storeVars>> PROVE StoreInv'
  OBVIOUS
<1>1. CASE UNCHANGED <<now, storeVars>>
  BY <1>1 DEF StoreInv, storeVars
<1>2. CASE Tick
  BY <1>2, EffectStoreAssumption DEF Tick, StoreInv, storeVars
<1>3. CASE StoreRecover
  BY <1>3, RecoverInv DEF StoreRecover
<1>4. ASSUME NEW e \in Effects, StoreEnqueue(e) PROVE StoreInv'
  <2>1. PICK origin \in Origins, expires \in {now, now + EffectDeadline} :
            EnqueueEffect(e, origin, expires)
    BY <1>4 DEF StoreEnqueue
  <2>2. now' = now /\ attempts' = attempts /\ receipt' = receipt
    BY <1>4, Zenon DEF StoreEnqueue
  <2>3. CASE State(e) # "absent"
    BY <2>1, <2>2, <2>3 DEF EnqueueEffect, StoreInv
  <2>4. CASE State(e) = "absent"
    <3> DEFINE row == [state   |-> IF expires <= now THEN "expired" ELSE "queued",
                       origin  |-> origin, owner |-> NoOne, until |-> 0,
                       expires |-> expires, updated |-> now]
    <3>1. now \in Nat /\ expires \in Nat
      BY EffectStoreAssumption DEF StoreInv
    <3>2. /\ row \in Row
          /\ row.state \in {"expired", "queued"}
          /\ row.owner = NoOne
      BY <3>1, Zenon DEF Row, EffectStates
    <3>3. effect' = [effect EXCEPT ![e] = row]
      BY <2>1, <2>4, Zenon DEF EnqueueEffect
    <3>4. RowInv(effect[e], attempts[e]) /\ effect[e].state = "absent"
      BY <2>4, Zenon DEF StoreInv, State
    <3> HIDE DEF row
    <3>5. RowInv(row, attempts[e])
      BY <3>2, <3>4, Zenon DEF RowInv
    <3>6. attempts' = [attempts EXCEPT ![e] = attempts[e]]
      BY <2>2 DEF StoreInv
    <3> QED BY <2>2, <3>3, <3>5, <3>6, OneRow, Zenon
  <2> QED BY <2>3, <2>4
<1>5. ASSUME NEW e \in Effects, StoreClaim(e) PROVE StoreInv'
  <2>1. PICK w \in Workers : ClaimEffect(e, w)
    BY <1>5 DEF StoreClaim
  <2>2. UNCHANGED <<now, receipt>>
    BY <1>5 DEF StoreClaim
  <2>3. RowInv(effect[e], attempts[e]) /\ now \in Nat
    BY EffectStoreAssumption DEF StoreInv
  <2>4. /\ effect[e].state = "queued"
        /\ effect' = [effect EXCEPT ![e] =
                        [effect[e] EXCEPT !.state = "executing", !.owner = w,
                                  !.until = now + Lease, !.updated = now]]
        /\ attempts' = [attempts EXCEPT ![e] = Append(attempts[e], "open")]
    BY <2>1 DEF ClaimEffect, ClaimableStates, State
  <2>5. RowInv([effect[e] EXCEPT !.state = "executing", !.owner = w,
                                 !.until = now + Lease, !.updated = now],
               Append(attempts[e], "open"))
    BY <2>3, <2>4, RowClaimed, Zenon
  <2> QED BY <2>2, <2>4, <2>5, OneRow, Zenon
<1>6. ASSUME NEW e \in Effects, StoreRelease(e) PROVE StoreInv'
  <2> DEFINE row == [effect[e] EXCEPT !.owner = NoOne, !.until = 0, !.updated = now]
  <2>1. UNCHANGED <<now, receipt>> /\ attempts' = [attempts EXCEPT ![e] = attempts[e]]
    BY <1>6 DEF StoreRelease, StoreInv
  <2>2. effect[e].state = "executing" /\ effect' = [effect EXCEPT ![e] = row]
    BY <1>6 DEF StoreRelease, ReleaseClaim, State
  <2>3. RowInv(effect[e], attempts[e]) /\ now \in Nat /\ effect[e] \in Row
    BY EffectStoreAssumption DEF StoreInv
  <2>4. row \in Row /\ row.state = effect[e].state
    BY <2>3, Zenon DEF Row
  <2> HIDE DEF row
  <2>5. RowInv(row, attempts[e])
    BY <2>2, <2>3, <2>4, Zenon DEF RowInv
  <2> QED BY <2>1, <2>2, <2>5, OneRow, Zenon
<1>7. ASSUME NEW e \in Effects, StoreTransition(e) PROVE StoreInv'
  BY <1>7, TransitionInv, Zenon DEF StoreTransition
<1>8. ASSUME NEW e \in Effects, StoreReceipt(e) PROVE StoreInv'
  BY <1>8 DEF StoreReceipt, RecordTransportReceipt, StoreInv
<1> QED BY <1>1, <1>2, <1>3, <1>4, <1>5, <1>6, <1>7, <1>8, Zenon DEF StoreNext

\* The inductive invariant holds throughout.
LEMMA StoreInvariance == StoreSpec => []StoreInv
BY StoreInitInv, StoreNextInv, PTL DEF StoreSpec

\* Every row and every list of attempts stays within what store.py can write.
THEOREM StoreTyped == StoreSpec => []StoreTypeOK
BY StoreInvariance, StoreInvImplies, PTL

\* claim_effect opens exactly one attempt, and transition and
\* recover_executing close it with the claim: effects and attempts stay in step
\* for every set of effects and workers and any order of calls.
THEOREM ClaimsAreBooked == StoreSpec => []ClaimBookkeeping
BY StoreInvariance, StoreInvImplies, PTL

\* Nothing is attempted after a sent attempt: the claim of claim_effect leaves
\* no way back from an effect that was delivered.
THEOREM StoreCorrect == StoreSpec => []NoAttemptAfterSent
BY StoreInvariance, StoreInvImplies, PTL

-----------------------------------------------------------------------------
\* The invariant of the composed outbox

\* Where a task stands between its claim and the end of its transport call.
Inside == {"claimed", "calling", "written", "acked"}

\* States no claim has ever led to.
Untouched == {"absent", "queued", "blocked", "expired", "cancelled"}

\* States in which a task may still be inside: recovery, the reconciler and an
\* operator move the effect without asking the task.
Overtaken == {"executing", "unknown", "unknown_nonrepeatable", "sent"}

\* An effect is claimed at most once in its life: a state that allows a claim,
\* or ends before one, has seen no attempt, no command and no receipt, and at
\* most one task is inside.
ClaimInv ==
    /\ \A e \in Effects : State(e) \in Untouched =>
          /\ attempts[e] = <<>>
          /\ frames[e] = 0
          /\ accepted[e] = 0
          /\ receipt[e] = "none"
    /\ \A t \in Tasks : pc[t] \in Inside => State(op[t]) \in Overtaken
    /\ \A t, u \in Tasks :
          pc[t] \in Inside /\ pc[u] \in Inside /\ op[t] = op[u] => t = u

\* Local evidence never calls for a requeue, and confirms only what a receipt
\* with a provider id confirms.
EvidenceInv ==
    \A e \in Effects :
        /\ State(e) # "failed" =>
              \A i \in 1..Len(attempts[e]) : attempts[e][i] # "failed"
        /\ State(e) # "planned"
        /\ finding[e] \in {"none", "confirmed", "inconclusive"}
        /\ finding[e] = "confirmed" => receipt[e] = "provider"

\* A task inside knows how many commands are out, nobody else has stored a
\* receipt for it, and a reply of sent is true.
CallInv ==
    \A t \in Tasks :
        /\ pc[t] \notin Inside \/ pc[t] = "claimed" => part[t] = 0
        /\ pc[t] \in {"claimed", "calling"} => frames[op[t]] = part[t]
        /\ pc[t] = "written" \/ (pc[t] = "acked" /\ Channel = "whatsapp")
              => frames[op[t]] = part[t] + 1
        /\ pc[t] \in Inside \ {"acked"} => receipt[op[t]] = "none"
        /\ pc[t] = "acked" /\ effect[op[t]].origin = "participation"
              => receipt[op[t]] # "none"
        /\ reply[t] = "sent" => State(op[t]) = "sent"

\* What the WhatsApp send adds: commands and their confirmations are counted.
WireInv ==
    /\ \A e \in Effects :
          /\ accepted[e] <= frames[e]
          /\ Channel = "whatsapp" =>
                /\ frames[e] <= Parts
                /\ receipt[e] # "none" => accepted[e] = Parts
                /\ State(e) = "sent" => accepted[e] = Parts \/ e \in operator
          /\ State(e) = "sent" /\ effect[e].origin = "participation"
                => receipt[e] # "none" \/ e \in operator
    /\ Channel = "whatsapp" =>
          \A t \in Tasks :
              /\ part[t] < Parts
              /\ pc[t] = "acked" => accepted[op[t]] = Parts

\* A refusal that counts as proof comes before the first command.
RefusalInv ==
    \A e \in Effects :
        State(e) = "failed" /\ (Channel = "telegram" \/ Parts = 1)
            => frames[e] = 0

\* A task at work has submitted its effect.
SubmittedInv == \A t \in Tasks : pc[t] # "idle" => State(op[t]) # "absent"

\* What an effect listed by a tick may have become meanwhile.
Listed == {"unknown", "unknown_nonrepeatable", "sent"}

TickInv ==
    /\ tick \in [at : 0..MaxTime, todo : SUBSET Effects]
    /\ \A e \in tick.todo : State(e) \in Listed
    /\ finding \in [Effects -> ProbeOutcomes \cup {"none"}]

OutboxInv ==
    /\ StoreInv
    /\ GatewayTypeOK
    /\ operator \subseteq Effects
    /\ SubmittedInv
    /\ TickInv
    /\ ClaimInv
    /\ EvidenceInv
    /\ CallInv
    /\ WireInv
    /\ RefusalInv

\* The invariant holds at first: nothing is submitted, nobody is at work.
LEMMA OutboxInitInv == Init => OutboxInv
<1> SUFFICES ASSUME Init PROVE OutboxInv
  OBVIOUS
<1>1. StoreInv
  BY StoreInitInv, Zenon DEF Init
<1>2. /\ \A e \in Effects : State(e) = "absent"
      /\ \A e \in Effects : attempts[e] = <<>> /\ receipt[e] = "none"
  BY DEF Init, StoreInit, NoRow, State
<1>3. GatewayTypeOK /\ \A t \in Tasks : pc[t] = "idle"
  BY Zenon DEF Init, GatewayInit, GatewayTypeOK, PCs
<1>4. ClaimInv /\ EvidenceInv
  BY <1>2, <1>3 DEF Init, GatewayInit, ReconcilerInit, ClaimInv, EvidenceInv, Inside
<1>5. CallInv
  BY <1>3, Zenon DEF Init, GatewayInit, CallInv, Inside
<1>6. WireInv /\ RefusalInv
  BY <1>2, <1>3, EffectGatewayAssumption DEF Init, GatewayInit, WireInv, RefusalInv
<1>7. TickInv
  <2>1. tick = NoTick /\ finding = [e \in Effects |-> "none"]
    BY Zenon DEF Init, ReconcilerInit
  <2>2. 0 \in 0..MaxTime
    BY EffectStoreAssumption
  <2> QED BY <2>1, <2>2 DEF NoTick, TickInv
<1> QED BY <1>1, <1>3, <1>4, <1>5, <1>6, <1>7, Zenon DEF OutboxInv, Init, SubmittedInv

-----------------------------------------------------------------------------
\* What a compare-and-set does to the tables, in the terms of the invariant.
LEMMA TransitionFacts ==
    ASSUME StoreInv, NEW e \in Effects, NEW target \in EffectStates \ {"executing"},
           NEW expected, "absent" \notin expected, NEW kind, NEW w,
           Transition(e, expected, target, kind, w)
    PROVE  /\ \A d \in Effects : d # e =>
                 effect'[d] = effect[d] /\ attempts'[d] = attempts[d]
           /\ effect'[e].origin = effect[e].origin
           /\ \/ effect'[e] = effect[e] /\ attempts'[e] = attempts[e]
              \/ /\ State(e) \in expected
                 /\ ValidTransition(State(e), target, kind, w, effect[e].owner)
                 /\ effect'[e].state = target
                 /\ State(e) # "executing" => attempts'[e] = attempts[e]
                 /\ Len(attempts'[e]) = Len(attempts[e])
                 /\ \A i \in 1..Len(attempts[e]) :
                       attempts'[e][i] \in {attempts[e][i], target}
<1>1. /\ effect[e] \in Row /\ attempts[e] \in Seq(Outcomes)
      /\ effect \in [Effects -> Row] /\ attempts \in [Effects -> Seq(Outcomes)]
  BY DEF StoreInv
<1>2. CASE UNCHANGED <<effect, attempts>>
  BY <1>2, Zenon
<1>3. CASE ~ UNCHANGED <<effect, attempts>>
  <2>1. /\ State(e) \in expected
        /\ ValidTransition(State(e), target, kind, w, effect[e].owner)
        /\ effect' = [effect EXCEPT ![e] = Moved(effect[e], target)]
        /\ attempts' = IF State(e) = "executing"
                       THEN [attempts EXCEPT ![e] = CloseAttempts(attempts[e], target)]
                       ELSE attempts
    BY <1>3, Zenon DEF Transition
  <2>2. /\ \A d \in Effects : d # e =>
              effect'[d] = effect[d] /\ attempts'[d] = attempts[d]
        /\ effect'[e] = Moved(effect[e], target)
    BY <1>1, <2>1, Zenon
  <2>3. effect'[e].state = target /\ effect'[e].origin = effect[e].origin
    BY <1>1, <2>2 DEF Moved, Row
  <2>4. State(e) # "executing" => attempts'[e] = attempts[e]
    BY <2>1, Zenon
  <2>5. /\ Len(attempts'[e]) = Len(attempts[e])
        /\ \A i \in 1..Len(attempts[e]) :
              attempts'[e][i] \in {attempts[e][i], target}
    <3>1. CASE State(e) # "executing"
      BY <2>4, <3>1, Zenon
    <3>2. CASE State(e) = "executing"
      <4>1. attempts'[e] = CloseAttempts(attempts[e], target)
        BY <1>1, <2>1, <3>2, Zenon
      <4>2. State(e) \in EffectStates
        BY <3>2, Zenon DEF EffectStates
      <4>3. target \in Outcomes
        BY <2>1, <3>2, <4>2, ValidTransitionFacts, Zenon DEF Outcomes
      <4>4. /\ Len(CloseAttempts(attempts[e], target)) = Len(attempts[e])
            /\ \A i \in 1..Len(attempts[e]) :
                  CloseAttempts(attempts[e], target)[i] =
                      IF attempts[e][i] = "open" THEN target ELSE attempts[e][i]
        BY <1>1, <4>3, CloseAttemptsFacts, Zenon
      <4> QED BY <4>1, <4>4, Zenon
    <3> QED BY <3>1, <3>2, Zenon
  <2> QED BY <2>1, <2>2, <2>3, <2>4, <2>5, Zenon
<1> QED BY <1>2, <1>3, Zenon

-----------------------------------------------------------------------------
\* Every step of the outbox is a step of the store under some caller.

\* A compare-and-set that does not requeue is one of StoreSpec, whatever
\* evidence it carries.
LEMMA TransitionIsStoreStep ==
    ASSUME NEW e \in Effects,
           NEW target \in EffectStates \ {"executing", "queued"},
           NEW expected, "absent" \notin expected, NEW kind,
           NEW w \in Workers \cup {NoOne},
           Transition(e, expected, target, kind, w), UNCHANGED <<now, receipt>>
    PROVE  [StoreNext]_<<now, storeVars>>
<1>1. CASE UNCHANGED <<effect, attempts>>
  BY <1>1, Zenon DEF storeVars
<1>2. CASE ~ UNCHANGED <<effect, attempts>>
  <2>1. /\ State(e) # "absent"
        /\ ValidTransition(State(e), target, kind, w, effect[e].owner)
    BY <1>2, Zenon DEF Transition
  <2>2. ValidTransition(State(e), target, "policy", w, effect[e].owner)
    BY <2>1, Zenon DEF ValidTransition
  <2>3. Transition(e, {State(e)}, target, "policy", w)
    BY <1>2, <2>2 DEF Transition
  <2>4. StoreTransition(e)
    BY <2>1, <2>3, Zenon DEF StoreTransition
  <2> QED BY <2>4 DEF StoreNext
<1> QED BY <1>1, <1>2

\* The gateway's steps: one store operation each, or none.
LEMMA GatewayIsStoreStep ==
    ASSUME OutboxInv, GatewayNext PROVE [StoreNext]_<<now, storeVars>>
<1> USE DEF OutboxInv
<1>0. worker \in Workers \cup {NoOne} /\ NoOne \in Workers \cup {NoOne}
  BY EffectGatewayAssumption, Zenon DEF worker
<1>1. ASSUME NEW t \in Tasks, NEW e \in Effects, Submit(t, e)
      PROVE  [StoreNext]_<<now, storeVars>>
  BY <1>1, Zenon DEF Submit, StoreNext, StoreEnqueue, Origins
<1>2. ASSUME NEW t \in Tasks,
             SendAttemptRefused(t) \/ CallTransport(t) \/ WriteCommand(t)
                \/ NextCommand(t)
      PROVE  [StoreNext]_<<now, storeVars>>
  BY <1>2 DEF SendAttemptRefused, CallTransport, WriteCommand, NextCommand
<1>3. ASSUME NEW t \in Tasks PROVE op[t] \in Effects
  BY Zenon DEF GatewayTypeOK
<1>4. ASSUME NEW t \in Tasks, CapacityBlock(t)
      PROVE  [StoreNext]_<<now, storeVars>>
  <2>1. CASE UNCHANGED <<effect, attempts>>
    BY <1>4, <2>1 DEF CapacityBlock, storeVars
  <2>2. CASE Transition(op[t], {"queued"}, "blocked", "policy", NoOne)
    BY <1>0, <1>3, <1>4, <2>2, TransitionIsStoreStep, Zenon
       DEF CapacityBlock, EffectStates
  <2> QED BY <1>4, <2>1, <2>2, Zenon DEF CapacityBlock
<1>5. ASSUME NEW t \in Tasks, NotExecuted(t)
      PROVE  [StoreNext]_<<now, storeVars>>
  <2>1. CASE UNCHANGED <<effect, attempts>>
    BY <1>5, <2>1 DEF NotExecuted, storeVars
  <2>2. ASSUME NEW target \in DeniedStates,
               Transition(op[t], {"queued"}, target, "policy", NoOne)
        PROVE  [StoreNext]_<<now, storeVars>>
    BY <1>0, <1>3, <1>5, <2>2, TransitionIsStoreStep, Zenon
       DEF NotExecuted, DeniedStates, EffectStates
  <2> QED BY <1>5, <2>1, <2>2, Zenon DEF NotExecuted, DeniedStates
<1>6. ASSUME NEW t \in Tasks, Claim(t) PROVE [StoreNext]_<<now, storeVars>>
  <2>1. attempts[op[t]] = <<>>
    BY <1>3, <1>6, Zenon DEF Claim, ClaimInv, Untouched
  <2>2. StoreClaim(op[t])
    BY <1>6, <2>1, EffectGatewayAssumption, EffectStoreAssumption
       DEF Claim, StoreClaim, worker
  <2> QED BY <1>3, <2>2, Zenon DEF StoreNext
<1>7. ASSUME NEW t \in Tasks, TransportReturned(t)
      PROVE  [StoreNext]_<<now, storeVars>>
  <2>1. pc[t] \in {"calling", "written"}
    BY <1>7, Zenon DEF TransportReturned, SendReturns
  <2>2. State(op[t]) # "absent"
    BY <2>1, Zenon DEF ClaimInv, Inside, Overtaken
  <2>3. PICK r \in ReceiptsReported :
          \/ /\ Transition(op[t], {"executing"}, "unknown", "dispatch_unknown", worker)
             /\ UNCHANGED receipt
          \/ /\ IF r = "none" THEN UNCHANGED receipt
                              ELSE RecordTransportReceipt(op[t], r)
             /\ UNCHANGED <<effect, attempts>>
    BY <1>7, Zenon DEF TransportReturned
  <2>4. now' = now
    BY <1>7, Zenon DEF TransportReturned
  <2>5. r \in Receipts
    BY DEF ReceiptsReported, Receipts
  <2>6. CASE Transition(op[t], {"executing"}, "unknown", "dispatch_unknown", worker)
             /\ UNCHANGED receipt
    BY <1>0, <1>3, <2>4, <2>6, TransitionIsStoreStep, Zenon DEF EffectStates
  <2>7. CASE UNCHANGED <<effect, attempts, receipt>>
    BY <2>4, <2>7 DEF storeVars
  <2>8. CASE r # "none" /\ RecordTransportReceipt(op[t], r)
             /\ UNCHANGED <<effect, attempts>>
    BY <1>3, <2>2, <2>4, <2>5, <2>8, Zenon DEF StoreReceipt, StoreNext
  <2> QED BY <2>3, <2>6, <2>7, <2>8, Zenon
<1>8. ASSUME NEW t \in Tasks, FinishSent(t)
      PROVE  [StoreNext]_<<now, storeVars>>
  BY <1>0, <1>3, <1>8, TransitionIsStoreStep, Zenon DEF FinishSent, EffectStates
<1>9. ASSUME NEW t \in Tasks, RefusedBeforeDispatch(t) \/ ForwardUnavailable(t)
      PROVE  [StoreNext]_<<now, storeVars>>
  BY <1>0, <1>3, <1>9, TransitionIsStoreStep, Zenon
     DEF RefusedBeforeDispatch, ForwardUnavailable, EffectStates
<1>10. ASSUME NEW t \in Tasks, Unproven(t)
       PROVE  [StoreNext]_<<now, storeVars>>
  BY <1>0, <1>3, <1>10, TransitionIsStoreStep, Zenon DEF Unproven, EffectStates
<1>11. ASSUME NEW e \in Effects, CancelQueued(e)
       PROVE  [StoreNext]_<<now, storeVars>>
  BY <1>0, <1>11, TransitionIsStoreStep, Zenon DEF CancelQueued, EffectStates
<1> QED BY <1>1, <1>2, <1>4, <1>5, <1>6, <1>7, <1>8, <1>9, <1>10, <1>11, Zenon DEF
           GatewayNext

\* The reconciler's steps; its evidence never asks for a requeue.
LEMMA ReconcilerIsStoreStep ==
    ASSUME OutboxInv, ReconcilerNext PROVE [StoreNext]_<<now, storeVars>>
<1> USE DEF OutboxInv
<1>1. CASE TickBegins
  BY <1>1, Zenon DEF TickBegins, StoreRecover, StoreNext
<1>2. ASSUME NEW e \in Effects, EscalateUnplanned(e) \/ EscalateOverdue(e)
      PROVE  [StoreNext]_<<now, storeVars>>
  BY <1>2, TransitionIsStoreStep, Zenon DEF EscalateUnplanned, EscalateOverdue,
     Escalate, EffectStates
<1>3. ASSUME NEW e \in Effects, WaitForProbe(e) \/ StartProbe(e)
      PROVE  [StoreNext]_<<now, storeVars>>
  BY <1>3 DEF WaitForProbe, StartProbe
<1>4. ASSUME NEW e \in Effects, ProbeAnswers(e)
      PROVE  [StoreNext]_<<now, storeVars>>
  <2>1. finding[e] \in {"confirmed", "inconclusive"}
    BY <1>4 DEF ProbeAnswers, EvidenceInv
  <2>2. UNCHANGED <<now, receipt>>
    BY <1>4 DEF ProbeAnswers
  <2>3. \/ UNCHANGED <<effect, attempts>>
        \/ Transition(e, {"unknown", "unknown_nonrepeatable"}, "sent", "probe", NoOne)
        \/ Transition(e, {"unknown", "unknown_nonrepeatable"},
                      "unknown_nonrepeatable", "probe", NoOne)
    BY <1>4, <2>1 DEF ProbeAnswers
  <2>4. CASE UNCHANGED <<effect, attempts>>
    BY <2>2, <2>4, Zenon DEF storeVars
  <2> QED BY <2>2, <2>3, <2>4, TransitionIsStoreStep, Zenon DEF EffectStates
<1> QED BY <1>1, <1>2, <1>3, <1>4, Zenon DEF ReconcilerNext

\* The step simulation of the store.
LEMMA OutboxIsStoreStep ==
    ASSUME OutboxInv, [Next]_vars PROVE [StoreNext]_<<now, storeVars>>
<1>1. CASE UNCHANGED vars
  BY <1>1 DEF vars, storeVars
<1>2. CASE Gateway
  BY <1>2, GatewayIsStoreStep, Zenon DEF Gateway
<1>3. CASE Reconcile
  BY <1>3, ReconcilerIsStoreStep, Zenon DEF Reconcile
<1>4. CASE Provider
  BY <1>4 DEF Provider, ProviderAccepts
<1>5. CASE Clock
  BY <1>5 DEF Clock, StoreNext
<1>6. CASE Operator
  BY <1>6, TransitionIsStoreStep, Zenon DEF Operator, OperatorConfirms, EffectStates
<1>7. CASE Crash \/ StartupDone
  BY <1>7, Zenon DEF Crash, StartupDone
<1>8. CASE Restart
  BY <1>8, Zenon DEF Restart, TickBegins, StoreRecover, StoreNext
<1>9. CASE RestartFails
  BY <1>9, Zenon DEF RestartFails, TickCutShort, StoreRecover, StoreNext
<1> QED BY <1>1, <1>2, <1>3, <1>4, <1>5, <1>6, <1>7, <1>8, <1>9, Zenon DEF Next

-----------------------------------------------------------------------------
\* Preservation of the invariant.  Its parts other than StoreInv:
Rest ==
    GatewayTypeOK /\ operator \subseteq Effects /\ ClaimInv /\ EvidenceInv
        /\ CallInv /\ WireInv /\ RefusalInv

\* Nothing of the invariant depends on the clock, the probes or the phase.
LEMMA QuietStep ==
    ASSUME OutboxInv, UNCHANGED <<storeVars, gatewayVars, providerVars, operator>>,
           \A e \in Effects :
              /\ finding'[e] \in {"none", "confirmed", "inconclusive"}
              /\ finding'[e] = "confirmed" => receipt[e] = "provider"
    PROVE  Rest'
<1> USE DEF OutboxInv, storeVars, gatewayVars, providerVars
<1>1. GatewayTypeOK' /\ ClaimInv' /\ CallInv' /\ WireInv' /\ RefusalInv'
  BY ZenonT(30) DEF GatewayTypeOK, ClaimInv, CallInv, WireInv, RefusalInv, State
<1>2. EvidenceInv'
  BY DEF EvidenceInv, State
<1> QED BY <1>1, <1>2 DEF Rest

\* Tasks outside their claim move on, and effects nobody has claimed are
\* inserted or refused: blocked, cancelled or expired.
LEMMA BeforeClaim ==
    ASSUME OutboxInv, GatewayTypeOK',
           \A u \in Tasks :
              \/ /\ pc'[u] = pc[u] /\ op'[u] = op[u]
                 /\ part'[u] = part[u] /\ reply'[u] = reply[u]
              \/ /\ pc[u] \notin Inside /\ pc'[u] \notin Inside /\ part'[u] = part[u]
                 /\ reply'[u] = "sent" => effect'[op'[u]].state = "sent",
           \A d \in Effects :
              \/ effect'[d] = effect[d]
              \/ /\ State(d) \in {"absent", "queued"}
                 /\ effect'[d].state \in {"queued", "blocked", "cancelled", "expired"},
           UNCHANGED <<attempts, receipt, providerVars, finding, operator>>
    PROVE  Rest'
<1> USE DEF OutboxInv, providerVars
<1>1. ASSUME NEW u \in Tasks, pc'[u] \in Inside
      PROVE  /\ pc'[u] = pc[u] /\ op'[u] = op[u] /\ part'[u] = part[u]
             /\ op[u] \in Effects /\ State(op[u]) \in Overtaken
             /\ effect'[op[u]] = effect[op[u]]
  <2>1. pc'[u] = pc[u] /\ op'[u] = op[u] /\ part'[u] = part[u]
    BY <1>1, Zenon
  <2>2. op[u] \in Effects /\ State(op[u]) \in Overtaken
    BY <1>1, <2>1 DEF GatewayTypeOK, ClaimInv
  <2> QED BY <2>1, <2>2, Zenon DEF Overtaken
<1>2. ClaimInv'
  <2>1. \A d \in Effects : effect'[d].state \in Untouched => State(d) \in Untouched
    BY Zenon DEF State, Untouched
  <2> QED BY <1>1, <2>1 DEF ClaimInv, State
<1>3. EvidenceInv'
  BY SMTT(30) DEF EvidenceInv, State
<1>4. CallInv'
  <2> SUFFICES ASSUME NEW u \in Tasks
      PROVE /\ pc'[u] \notin Inside \/ pc'[u] = "claimed" => part'[u] = 0
            /\ pc'[u] \in {"claimed", "calling"} => frames[op'[u]] = part'[u]
            /\ pc'[u] = "written" \/ (pc'[u] = "acked" /\ Channel = "whatsapp")
                  => frames[op'[u]] = part'[u] + 1
            /\ pc'[u] \in Inside \ {"acked"} => receipt[op'[u]] = "none"
            /\ pc'[u] = "acked" /\ effect'[op'[u]].origin = "participation"
                  => receipt[op'[u]] # "none"
            /\ reply'[u] = "sent" => effect'[op'[u]].state = "sent"
    BY Zenon DEF CallInv, State
  <2>1. op[u] \in Effects
    BY DEF GatewayTypeOK
  <2>2. State(op[u]) = "sent" => effect'[op[u]].state = "sent"
    BY <2>1, Zenon DEF State
  <2>3. reply'[u] = "sent" => effect'[op'[u]].state = "sent"
    BY <2>2 DEF CallInv
  <2>4. pc'[u] \notin Inside => part'[u] = 0
    BY Zenon DEF CallInv
  <2>5. CASE pc'[u] \in Inside
    <3>1. /\ pc'[u] = pc[u] /\ op'[u] = op[u] /\ part'[u] = part[u]
          /\ effect'[op[u]] = effect[op[u]]
      BY <1>1, <2>5, Zenon
    <3>2. /\ pc[u] = "claimed" => part[u] = 0
          /\ pc[u] \in {"claimed", "calling"} => frames[op[u]] = part[u]
          /\ pc[u] = "written" \/ (pc[u] = "acked" /\ Channel = "whatsapp")
                => frames[op[u]] = part[u] + 1
          /\ pc[u] \in Inside \ {"acked"} => receipt[op[u]] = "none"
          /\ pc[u] = "acked" /\ effect[op[u]].origin = "participation"
                => receipt[op[u]] # "none"
      BY ZenonT(30) DEF CallInv
    <3> HIDE DEF OutboxInv
    <3> QED BY <2>3, <2>5, <3>1, <3>2
  <2>6. CASE pc'[u] \notin Inside
    BY <2>3, <2>4, <2>6, Zenon DEF Inside
  <2> QED BY <2>5, <2>6
<1>5. WireInv' /\ RefusalInv'
  <2>1. \A d \in Effects : effect'[d].state \in {"sent", "failed"} =>
            effect'[d] = effect[d]
    OBVIOUS
  <2>2. \A u \in Tasks : part'[u] = part[u]
    BY Zenon
  <2>3. \A u \in Tasks : pc'[u] = "acked" => pc[u] = "acked" /\ op'[u] = op[u]
    BY <1>1, Zenon DEF Inside
  <2>4. \A d \in Effects : /\ effect'[d].state = "sent" => State(d) = "sent"
                           /\ effect'[d].state = "failed" => State(d) = "failed"
    BY <2>1, Zenon DEF State
  <2>5. WireInv'
    <3>1. \A d \in Effects : effect'[d].state = "sent" => effect'[d] = effect[d]
      BY <2>1, Zenon
    <3>2. ASSUME NEW d \in Effects
          PROVE  /\ accepted[d] <= frames[d]
                 /\ Channel = "whatsapp" =>
                       /\ frames[d] <= Parts
                       /\ receipt[d] # "none" => accepted[d] = Parts
                       /\ effect'[d].state = "sent" =>
                             accepted[d] = Parts \/ d \in operator
                 /\ effect'[d].state = "sent" /\ effect'[d].origin = "participation"
                       => receipt[d] # "none" \/ d \in operator
      BY <2>4, <3>1, Zenon DEF WireInv, State
    <3>3. Channel = "whatsapp" =>
             \A u \in Tasks : /\ part'[u] < Parts
                              /\ pc'[u] = "acked" => accepted[op'[u]] = Parts
      BY <2>2, <2>3, ZenonT(30) DEF WireInv
    <3> QED BY <3>2, <3>3, Zenon DEF WireInv, State
  <2>6. RefusalInv'
    BY <2>4, Zenon DEF RefusalInv, State
  <2> QED BY <2>5, <2>6, Zenon
<1> QED BY <1>2, <1>3, <1>4, <1>5 DEF Rest

\* A task inside ends its call and reports what it knows; frames may lose a
\* command the bridge has dropped.
LEMMA CallEnds ==
    ASSUME OutboxInv, NEW t \in Tasks, pc[t] \in Inside,
           NEW target \in {"sent", "failed", "unknown"}, NEW kind, NEW s,
           s \in EffectStates, s = "sent" => effect'[op[t]].state = "sent",
           Transition(op[t], {"executing"}, target, kind, worker),
           Return(t, s),
           UNCHANGED <<receipt, providerVars, finding, operator>>,
           target = "sent" => pc[t] = "acked",
           target = "failed" => pc[t] \in {"claimed", "calling"}
                                /\ (pc[t] = "calling" => Channel = "whatsapp")
    PROVE  Rest'
<1> USE DEF OutboxInv, providerVars
<1> DEFINE e == op[t]
<1>0. e \in Effects /\ State(e) \in Overtaken
  BY ZenonT(30) DEF GatewayTypeOK, ClaimInv
<1>1. target \in EffectStates \ {"executing"} /\ target # "executing"
  BY DEF EffectStates
<1>2. /\ \A d \in Effects : d # e =>
            effect'[d] = effect[d] /\ attempts'[d] = attempts[d]
      /\ effect'[e].origin = effect[e].origin
      /\ \/ effect'[e] = effect[e] /\ attempts'[e] = attempts[e]
         \/ /\ State(e) = "executing" /\ effect'[e].state = target
            /\ Len(attempts'[e]) = Len(attempts[e])
            /\ \A i \in 1..Len(attempts[e]) :
                  attempts'[e][i] \in {attempts[e][i], target}
  <2>1. "absent" \notin {"executing"}
    OBVIOUS
  <2>2. /\ \A d \in Effects : d # e =>
              effect'[d] = effect[d] /\ attempts'[d] = attempts[d]
        /\ effect'[e].origin = effect[e].origin
        /\ \/ effect'[e] = effect[e] /\ attempts'[e] = attempts[e]
           \/ /\ State(e) \in {"executing"}
              /\ effect'[e].state = target
              /\ Len(attempts'[e]) = Len(attempts[e])
              /\ \A i \in 1..Len(attempts[e]) :
                    attempts'[e][i] \in {attempts[e][i], target}
    BY <1>0, <1>1, <2>1, TransitionFacts, ZenonT(30)
  <2> QED BY <2>2, Zenon
<1>3. GatewayTypeOK' /\ pc'[t] = "idle" /\ part'[t] = 0 /\ reply'[t] = s /\ op' = op
      /\ \A u \in Tasks : u # t =>
            pc'[u] = pc[u] /\ part'[u] = part[u] /\ reply'[u] = reply[u]
  BY DEF Return, GatewayTypeOK, PCs
<1>4. \A u \in Tasks : u # t /\ pc[u] \in Inside => op[u] # e
  BY ZenonT(30) DEF ClaimInv
<1> HIDE DEF e
<1>5. ClaimInv'
  <2>1. \A d \in Effects : effect'[d].state \in Untouched => State(d) \in Untouched
    BY <1>0, <1>2, ZenonT(30) DEF State, Untouched
  <2>2. \A d \in Effects : effect'[d].state \in Untouched =>
            attempts'[d] = <<>> /\ frames[d] = 0 /\ accepted[d] = 0
            /\ receipt[d] = "none"
    BY <1>0, <1>2, <2>1, ZenonT(30) DEF ClaimInv, State, Untouched, Overtaken
  <2>3. \A u \in Tasks : pc'[u] \in Inside =>
            u # t /\ pc[u] \in Inside /\ op[u] # e /\ op[u] \in Effects
    BY <1>3, <1>4, Zenon DEF Inside, GatewayTypeOK
  <2>4. \A u \in Tasks : pc'[u] \in Inside => effect'[op[u]].state \in Overtaken
    BY <1>2, <2>3, Zenon DEF ClaimInv, State
  <2>5. \A u, v \in Tasks :
            pc'[u] \in Inside /\ pc'[v] \in Inside /\ op[u] = op[v] => u = v
    BY <2>3, Zenon DEF ClaimInv
  <2> QED BY <1>3, <2>2, <2>4, <2>5, Zenon DEF ClaimInv, State
<1>6. EvidenceInv'
  <2> SUFFICES ASSUME NEW d \in Effects
      PROVE /\ effect'[d].state # "failed" =>
                  \A i \in 1..Len(attempts'[d]) : attempts'[d][i] # "failed"
            /\ effect'[d].state # "planned"
            /\ finding[d] \in {"none", "confirmed", "inconclusive"}
            /\ finding[d] = "confirmed" => receipt[d] = "provider"
    BY Zenon DEF EvidenceInv, State
  <2>1. /\ effect[d].state # "failed" =>
              \A i \in 1..Len(attempts[d]) : attempts[d][i] # "failed"
        /\ effect[d].state # "planned"
        /\ finding[d] \in {"none", "confirmed", "inconclusive"}
        /\ finding[d] = "confirmed" => receipt[d] = "provider"
    BY Zenon DEF EvidenceInv, State
  <2>2. CASE effect'[d] = effect[d] /\ attempts'[d] = attempts[d]
    BY <2>1, <2>2, Zenon
  <2>3. CASE ~(effect'[d] = effect[d] /\ attempts'[d] = attempts[d])
    <3>1. /\ effect[d].state = "executing" /\ effect'[d].state = target
          /\ Len(attempts'[d]) = Len(attempts[d])
          /\ \A i \in 1..Len(attempts[d]) :
                attempts'[d][i] \in {attempts[d][i], target}
      BY <1>2, <2>3, Zenon DEF State
    <3> HIDE DEF OutboxInv
    <3> QED BY <2>1, <3>1, Zenon
  <2> QED BY <2>2, <2>3
<1>7. CallInv'
  <2> SUFFICES ASSUME NEW u \in Tasks
      PROVE /\ pc'[u] \notin Inside \/ pc'[u] = "claimed" => part'[u] = 0
            /\ pc'[u] \in {"claimed", "calling"} => frames[op[u]] = part'[u]
            /\ pc'[u] = "written" \/ (pc'[u] = "acked" /\ Channel = "whatsapp")
                  => frames[op[u]] = part'[u] + 1
            /\ pc'[u] \in Inside \ {"acked"} => receipt[op[u]] = "none"
            /\ pc'[u] = "acked" /\ effect'[op[u]].origin = "participation"
                  => receipt[op[u]] # "none"
            /\ reply'[u] = "sent" => effect'[op[u]].state = "sent"
    BY <1>3, Zenon DEF CallInv, State
  <2>1. CASE u = t
    BY <1>3, <2>1, Zenon DEF Inside
  <2>2. CASE u # t
    <3>1. op[u] \in Effects
      BY Zenon DEF GatewayTypeOK
    <3>2. effect'[op[u]].origin = effect[op[u]].origin
      BY <1>2, <3>1, Zenon
    <3>3. State(op[u]) = "sent" => effect'[op[u]].state = "sent"
      BY <1>2, <3>1 DEF State
    <3> QED BY <1>3, <2>2, <3>2, <3>3, ZenonT(30) DEF CallInv
  <2> QED BY <2>1, <2>2, ZenonT(30)
<1>8. WireInv'
  <2>1. ASSUME NEW d \in Effects, effect'[d].state = "sent"
        PROVE  \/ State(d) = "sent"
               \/ d = e /\ pc[t] = "acked"
    BY <1>2, <2>1 DEF State
  <2>2. ASSUME NEW d \in Effects
        PROVE  /\ accepted[d] <= frames[d]
               /\ Channel = "whatsapp" =>
                     /\ frames[d] <= Parts
                     /\ receipt[d] # "none" => accepted[d] = Parts
                     /\ effect'[d].state = "sent" =>
                           accepted[d] = Parts \/ d \in operator
    BY <2>1, Zenon DEF WireInv, e
  <2>3. ASSUME NEW d \in Effects
        PROVE  effect'[d].state = "sent" /\ effect'[d].origin = "participation"
                  => receipt[d] # "none" \/ d \in operator
    BY <1>2, <2>1, SMTT(30) DEF WireInv, CallInv, State, e
  <2>4. Channel = "whatsapp" =>
            \A u \in Tasks :
               /\ part'[u] < Parts
               /\ pc'[u] = "acked" => accepted[op[u]] = Parts
    <3>1. 0 < Parts
      <4> HIDE DEF OutboxInv
      <4> QED BY EffectGatewayAssumption
    <3> QED BY <1>3, <3>1, ZenonT(30) DEF WireInv
  <2> QED BY <1>3, <2>2, <2>3, <2>4, Zenon DEF WireInv, State
<1>9. RefusalInv'
  <2> SUFFICES ASSUME NEW d \in Effects, effect'[d].state = "failed",
                      Channel = "telegram" \/ Parts = 1
               PROVE  frames[d] = 0
    BY Zenon DEF RefusalInv, State
  <2>1. CASE effect'[d] = effect[d]
    BY <2>1, Zenon DEF RefusalInv, State
  <2>2. CASE effect'[d] # effect[d]
    <3>1. /\ d = e
          /\ pc[t] \in {"claimed", "calling"}
          /\ pc[t] = "calling" => Channel = "whatsapp"
      BY <1>2, <2>2, Zenon
    <3>2. /\ frames[e] = part[t]
          /\ pc[t] = "claimed" => part[t] = 0
          /\ Channel = "whatsapp" => part[t] < Parts
      BY <3>1, Zenon DEF CallInv, WireInv, e
    <3>3. part[t] \in Nat
      BY DEF GatewayTypeOK
    <3> HIDE DEF OutboxInv
    <3> QED BY <3>1, <3>2, <3>3, EffectGatewayAssumption
  <2> QED BY <2>1, <2>2, Zenon
<1> QED BY <1>3, <1>5, <1>6, <1>7, <1>8, <1>9, Zenon DEF Rest

\* A crash loses the tasks and the findings, nothing else.
LEMMA CrashKeeps ==
    ASSUME OutboxInv, Crash PROVE Rest'
<1> USE DEF OutboxInv
<1>1. /\ \A t \in Tasks : pc'[t] = "idle" /\ part'[t] = 0 /\ reply'[t] = "none"
      /\ \A e \in Effects : finding'[e] = "none"
      /\ UNCHANGED <<effect, attempts, receipt, op, frames, accepted, operator>>
  BY DEF Crash, storeVars, providerVars
<1>2. GatewayTypeOK'
  BY Zenon DEF Crash, providerVars, GatewayTypeOK, PCs
<1>3. ClaimInv'
  BY <1>1, Zenon DEF ClaimInv, Inside, State
<1>4. EvidenceInv' /\ RefusalInv'
  BY <1>1 DEF EvidenceInv, RefusalInv, State
<1>5. CallInv'
  BY <1>1, Zenon DEF CallInv, Inside
<1>6. WireInv'
  BY <1>1, EffectGatewayAssumption DEF WireInv, State
<1> QED BY <1>1, <1>2, <1>3, <1>4, <1>5, <1>6, Zenon DEF Rest

-----------------------------------------------------------------------------
\* Inside the transport call, and decisions from outside

\* A task inside moves on without touching the effect's row.
LEMMA CallGoesOn ==
    ASSUME OutboxInv, NEW t \in Tasks,
           CallTransport(t) \/ WriteCommand(t) \/ NextCommand(t),
           UNCHANGED <<finding, operator>>
    PROVE  Rest'
<1> USE DEF OutboxInv
<1> DEFINE e == op[t]
<1>1. /\ pc[t] \in {"claimed", "calling", "written"}
      /\ pc' = [pc EXCEPT ![t] = pc'[t]] /\ pc'[t] \in {"calling", "written"}
      /\ UNCHANGED <<effect, attempts, receipt, op, reply, accepted>>
  BY DEF CallTransport, WriteCommand, NextCommand, Goto, storeVars, providerVars,
         GatewayTypeOK
<1>2. e \in Effects /\ State(e) \in Overtaken
  BY <1>1, ZenonT(30) DEF GatewayTypeOK, ClaimInv, Inside
<1>3. /\ \A d \in Effects : d # e => frames'[d] = frames[d]
      /\ frames'[e] \in {frames[e], frames[e] + 1}
      /\ \A u \in Tasks : u # t => pc'[u] = pc[u] /\ part'[u] = part[u]
      /\ pc[t] = "claimed" => part[t] = 0
      /\ pc'[t] = "calling" => frames'[e] = part'[t]
      /\ pc'[t] = "written" => frames'[e] = part'[t] + 1 /\ part'[t] = part[t]
      /\ GatewayTypeOK'
  <2>1. CASE CallTransport(t)
    BY <2>1, <1>2, ZenonT(30) DEF CallTransport, Goto, GatewayTypeOK, PCs, CallInv, providerVars
  <2>2. CASE WriteCommand(t)
    <3>1. /\ pc[t] = "calling" /\ pc' = [pc EXCEPT ![t] = "written"]
          /\ frames' = [frames EXCEPT ![e] = @ + 1]
          /\ UNCHANGED <<part, op, reply, accepted>>
      BY <2>2, Zenon DEF WriteCommand, Goto
    <3>2. frames[e] = part[t]
      BY <3>1, Zenon DEF CallInv
    <3>3. GatewayTypeOK'
      BY <1>2, <3>1 DEF GatewayTypeOK, PCs
    <3>4. /\ frames'[e] = frames[e] + 1
          /\ \A d \in Effects : d # e => frames'[d] = frames[d]
          /\ pc'[t] = "written"
          /\ \A u \in Tasks : u # t => pc'[u] = pc[u]
      BY <1>2, <3>1, Zenon DEF GatewayTypeOK
    <3> QED BY <3>1, <3>2, <3>3, <3>4, Zenon
  <2>3. CASE NextCommand(t)
    BY <2>3, <1>2, ZenonT(30) DEF NextCommand, Goto, GatewayTypeOK, PCs, CallInv, providerVars
  <2> QED BY <2>1, <2>2, <2>3, Zenon
<1>4. \A u \in Tasks : u # t /\ pc[u] \in Inside => op[u] # e
  BY <1>1, Zenon DEF ClaimInv, Inside
<1>5. pc \in [Tasks -> PCs] /\ receipt[e] = "none"
  BY <1>1, Zenon DEF GatewayTypeOK, CallInv, Inside
<1>6. Channel = "whatsapp" => part'[t] < Parts /\ frames'[e] <= Parts
  <2>1. CASE CallTransport(t)
    BY <2>1, <1>2, Zenon DEF CallTransport, WireInv, providerVars
  <2>2. CASE WriteCommand(t)
    <3>1. pc[t] = "calling" /\ part' = part /\ frames' = [frames EXCEPT ![e] = @ + 1]
      BY <2>2, Zenon DEF WriteCommand
    <3>2. frames[e] = part[t]
      BY <3>1, Zenon DEF CallInv
    <3>3. frames'[e] = frames[e] + 1 /\ part[t] \in Nat
      BY <1>2, <3>1 DEF GatewayTypeOK
    <3>4. Channel = "whatsapp" => part[t] < Parts
      BY Zenon DEF WireInv
    <3>5. part[t] < Parts => part[t] + 1 <= Parts
      BY <3>3, EffectGatewayAssumption
    <3> QED BY <3>1, <3>2, <3>3, <3>4, <3>5, Zenon
  <2>3. CASE NextCommand(t)
    BY <2>3, <1>2, ZenonT(30) DEF NextCommand, WireInv, providerVars, GatewayTypeOK
  <2> QED BY <2>1, <2>2, <2>3, Zenon
<1> HIDE DEF e
<1>7. ClaimInv'
  <2>1. \A d \in Effects : State(d) \in Untouched => d # e
    BY <1>2 DEF Untouched, Overtaken
  <2>2. \A d \in Effects : State(d) \in Untouched => frames'[d] = 0
    BY <1>3, <2>1, ZenonT(30) DEF ClaimInv
  <2>3. \A u \in Tasks : pc'[u] \in Inside <=> pc[u] \in Inside
    BY <1>1, <1>3, <1>5, ZenonT(30) DEF Inside
  <2> QED BY <1>1, <2>2, <2>3, Zenon DEF ClaimInv, State
<1>8. EvidenceInv'
  BY <1>1, ZenonT(30) DEF EvidenceInv, State
<1>9. CallInv'
  <2> SUFFICES ASSUME NEW u \in Tasks
      PROVE /\ pc'[u] \notin Inside \/ pc'[u] = "claimed" => part'[u] = 0
            /\ pc'[u] \in {"claimed", "calling"} => frames'[op[u]] = part'[u]
            /\ pc'[u] = "written" \/ (pc'[u] = "acked" /\ Channel = "whatsapp")
                  => frames'[op[u]] = part'[u] + 1
            /\ pc'[u] \in Inside \ {"acked"} => receipt[op[u]] = "none"
            /\ pc'[u] = "acked" /\ effect[op[u]].origin = "participation"
                  => receipt[op[u]] # "none"
            /\ reply[u] = "sent" => State(op[u]) = "sent"
    BY <1>1 DEF CallInv, State
  <2>1. CASE u = t
    BY <1>1, <1>3, <1>5, <2>1, Zenon DEF CallInv, Inside, e
  <2>2. CASE u # t
    <3>1. pc[u] \in Inside => frames'[op[u]] = frames[op[u]]
      BY <1>3, <1>4, <2>2, ZenonT(30) DEF GatewayTypeOK
    <3>2. pc'[u] = pc[u] /\ part'[u] = part[u]
      BY <1>3, <2>2, Zenon
    <3>3. /\ pc[u] \notin Inside \/ pc[u] = "claimed" => part[u] = 0
          /\ pc[u] \in {"claimed", "calling"} => frames[op[u]] = part[u]
          /\ pc[u] = "written" \/ (pc[u] = "acked" /\ Channel = "whatsapp")
                => frames[op[u]] = part[u] + 1
          /\ pc[u] \in Inside \ {"acked"} => receipt[op[u]] = "none"
          /\ pc[u] = "acked" /\ effect[op[u]].origin = "participation"
                => receipt[op[u]] # "none"
          /\ reply[u] = "sent" => State(op[u]) = "sent"
      BY Zenon DEF CallInv
    <3> HIDE DEF OutboxInv
    <3> QED BY <3>1, <3>2, <3>3, Zenon DEF Inside
  <2> QED BY <2>1, <2>2, ZenonT(30)
<1>10. WireInv'
  <2>1. ASSUME NEW d \in Effects
        PROVE  /\ accepted[d] <= frames'[d]
               /\ Channel = "whatsapp" => frames'[d] <= Parts
    <3>1. /\ accepted[d] <= frames[d]
          /\ Channel = "whatsapp" => frames[d] <= Parts
      BY Zenon DEF WireInv
    <3>2. accepted[d] \in Nat /\ frames[d] \in Nat
      BY Zenon DEF GatewayTypeOK
    <3>3. accepted[d] <= frames[d] + 1
      BY <3>1, <3>2
    <3> QED BY <1>3, <1>6, <3>1, <3>3, Zenon
  <2>2. Channel = "whatsapp" =>
            \A u \in Tasks :
               /\ part'[u] < Parts
               /\ pc'[u] = "acked" => accepted[op[u]] = Parts
    BY <1>1, <1>3, <1>6, Zenon DEF WireInv
  <2> QED BY <1>1, <2>1, <2>2, Zenon DEF WireInv, State
<1>11. RefusalInv'
  BY <1>1, <1>2, <1>3, ZenonT(30) DEF RefusalInv, State, Overtaken
<1> QED BY <1>3, <1>7, <1>8, <1>9, <1>10, <1>11, Zenon DEF Rest

\* A queued effect is claimed: its first and only attempt.
LEMMA ClaimStep ==
    ASSUME OutboxInv, NEW t \in Tasks, Claim(t), UNCHANGED <<finding, operator>>
    PROVE  Rest'
<1> USE DEF OutboxInv, providerVars
<1> DEFINE e == op[t]
<1>1. /\ e \in Effects /\ State(e) = "queued" /\ pc[t] = "ready"
      /\ pc' = [pc EXCEPT ![t] = "claimed"]
      /\ UNCHANGED <<receipt, op, part, reply, frames, accepted>>
  BY Zenon DEF Claim, Goto, GatewayTypeOK
<1>2. /\ attempts[e] = <<>> /\ frames[e] = 0 /\ accepted[e] = 0
      /\ receipt[e] = "none"
  BY <1>1, Zenon DEF ClaimInv, Untouched
<1>3. /\ effect'[e].state = "executing"
      /\ attempts'[e] = <<"open">>
      /\ \A d \in Effects : d # e =>
            effect'[d] = effect[d] /\ attempts'[d] = attempts[d]
  <2>1. effect[e] \in Row /\ effect \in [Effects -> Row]
        /\ attempts \in [Effects -> Seq(Outcomes)]
    BY <1>1, Zenon DEF StoreInv
  <2>2. /\ effect' = [effect EXCEPT ![e] =
                        [effect[e] EXCEPT !.state = "executing", !.owner = worker,
                                  !.until = now + Lease, !.updated = now]]
        /\ attempts' = [attempts EXCEPT ![e] = Append(attempts[e], "open")]
    BY Zenon DEF Claim, ClaimEffect
  <2> QED BY <1>1, <1>2, <2>1, <2>2 DEF Row
<1>4. /\ GatewayTypeOK' /\ pc'[t] = "claimed"
      /\ \A u \in Tasks : u # t => pc'[u] = pc[u]
  BY <1>1 DEF GatewayTypeOK, PCs
<1>5. \A u \in Tasks : pc[u] \in Inside => u # t /\ op[u] # e /\ op[u] \in Effects
  BY <1>1, Zenon DEF ClaimInv, Inside, Overtaken, GatewayTypeOK
<1>6. part[t] = 0
  BY <1>1, ZenonT(30) DEF CallInv, Inside
<1> HIDE DEF e
<1>7. ClaimInv'
  <2>1. \A d \in Effects : effect'[d].state \in Untouched =>
            d # e /\ State(d) \in Untouched /\ attempts'[d] = attempts[d]
    BY <1>3, Zenon DEF Untouched, State
  <2>2. \A u \in Tasks : pc'[u] \in Inside => u = t \/ pc[u] \in Inside
    BY <1>4
  <2>3. \A u \in Tasks : pc'[u] \in Inside => effect'[op[u]].state \in Overtaken
    BY <1>3, <1>5, <2>2, ZenonT(30) DEF ClaimInv, Overtaken, State, e
  <2>4. \A u, v \in Tasks :
            pc'[u] \in Inside /\ pc'[v] \in Inside /\ op[u] = op[v] => u = v
    BY <1>5, <2>2, Zenon DEF ClaimInv, e
  <2> QED BY <1>1, <2>1, <2>3, <2>4, Zenon DEF ClaimInv, State
<1>8. EvidenceInv'
  <2>1. \A i \in 1..Len(attempts'[e]) : attempts'[e][i] # "failed"
    BY <1>3
  <2>2. ASSUME NEW d \in Effects
        PROVE  /\ effect'[d].state # "failed" =>
                     \A i \in 1..Len(attempts'[d]) : attempts'[d][i] # "failed"
               /\ effect'[d].state # "planned"
    <3>1. CASE d = e
      BY <1>3, <2>1, <3>1, Zenon
    <3>2. CASE d # e
      BY <1>3, <3>2, ZenonT(30) DEF EvidenceInv, State
    <3> QED BY <3>1, <3>2, Zenon
  <2>3. UNCHANGED <<finding, receipt>>
    BY <1>1
  <2> QED BY <2>2, <2>3, Zenon DEF EvidenceInv, State
<1>9. CallInv'
  <2> SUFFICES ASSUME NEW u \in Tasks
      PROVE /\ pc'[u] \notin Inside \/ pc'[u] = "claimed" => part[u] = 0
            /\ pc'[u] \in {"claimed", "calling"} => frames[op[u]] = part[u]
            /\ pc'[u] = "written" \/ (pc'[u] = "acked" /\ Channel = "whatsapp")
                  => frames[op[u]] = part[u] + 1
            /\ pc'[u] \in Inside \ {"acked"} => receipt[op[u]] = "none"
            /\ pc'[u] = "acked" /\ effect'[op[u]].origin = "participation"
                  => receipt[op[u]] # "none"
            /\ reply[u] = "sent" => effect'[op[u]].state = "sent"
    BY <1>1, ZenonT(30) DEF CallInv, State
  <2>1. reply[u] = "sent" => effect'[op[u]].state = "sent"
    BY <1>1, <1>3 DEF CallInv, State, GatewayTypeOK
  <2>2. CASE u = t
    BY <1>2, <1>4, <1>6, <2>1, <2>2, Zenon DEF e
  <2>3. CASE u # t
    <3>1. pc[u] = "acked" => effect'[op[u]] = effect[op[u]]
      BY <1>3, <1>5, Zenon DEF Inside
    <3> QED BY <1>4, <2>1, <2>3, <3>1, ZenonT(30) DEF CallInv
  <2> QED BY <2>2, <2>3, Zenon
<1>10. WireInv' /\ RefusalInv'
  <2>1. \A d \in Effects : effect'[d].state \in {"sent", "failed"} =>
            effect'[d] = effect[d]
    BY <1>3
  <2> QED BY <1>1, <1>4, <2>1, ZenonT(30) DEF WireInv, RefusalInv, State
<1> QED BY <1>4, <1>7, <1>8, <1>9, <1>10, Zenon DEF Rest

\* The transport returned and its receipt, if any, is stored.
LEMMA ReceiptStored ==
    ASSUME OutboxInv, NEW t \in Tasks, SendReturns(t), NEW r \in ReceiptsReported,
           effect[op[t]].origin = "participation" => r # "none",
           IF r = "none" THEN UNCHANGED receipt
                         ELSE RecordTransportReceipt(op[t], r),
           pc' = [pc EXCEPT ![t] = "acked"],
           UNCHANGED <<effect, attempts, op, part, reply, providerVars, finding,
                       operator>>
    PROVE  Rest'
<1> USE DEF OutboxInv, providerVars
<1> DEFINE e == op[t]
<1>1. pc[t] \in {"calling", "written"} /\ e \in Effects /\ r \in Receipts
  BY DEF SendReturns, GatewayTypeOK, ReceiptsReported, Receipts
<1>2. State(e) \in Overtaken /\ receipt[e] = "none"
  BY <1>1, ZenonT(30) DEF ClaimInv, CallInv, Inside
<1>3. \A u \in Tasks : u # t /\ pc[u] \in Inside => op[u] # e
  BY <1>1, Zenon DEF ClaimInv, Inside
<1>4. receipt'[e] = r /\ \A d \in Effects : d # e => receipt'[d] = receipt[d]
  BY <1>1, <1>2, ZenonT(30) DEF RecordTransportReceipt, StoreInv
<1>5. /\ GatewayTypeOK' /\ pc'[t] = "acked"
      /\ \A u \in Tasks : u # t => pc'[u] = pc[u]
  BY <1>1, Zenon DEF GatewayTypeOK, PCs
<1>6. Channel = "whatsapp" => pc[t] = "written" /\ part[t] + 1 = Parts
                              /\ accepted[e] = frames[e]
  BY Zenon DEF SendReturns
<1>7. Channel = "whatsapp" => frames[e] = part[t] + 1 /\ accepted[e] = Parts
  BY <1>6, ZenonT(30) DEF CallInv
<1> HIDE DEF e
<1>8. ClaimInv'
  <2>1. \A d \in Effects : State(d) \in Untouched => d # e
    BY <1>2, Zenon DEF Untouched, Overtaken
  <2>2. \A u \in Tasks : pc'[u] \in Inside => pc[u] \in Inside
    BY <1>1, <1>5, Zenon DEF Inside
  <2> QED BY <1>4, <2>1, <2>2, ZenonT(30) DEF ClaimInv, State
<1>9. EvidenceInv'
  BY <1>2, <1>4, Zenon DEF EvidenceInv, State
<1>10. CallInv'
  <2> SUFFICES ASSUME NEW u \in Tasks
      PROVE /\ pc'[u] \notin Inside \/ pc'[u] = "claimed" => part[u] = 0
            /\ pc'[u] \in {"claimed", "calling"} => frames[op[u]] = part[u]
            /\ pc'[u] = "written" \/ (pc'[u] = "acked" /\ Channel = "whatsapp")
                  => frames[op[u]] = part[u] + 1
            /\ pc'[u] \in Inside \ {"acked"} => receipt'[op[u]] = "none"
            /\ pc'[u] = "acked" /\ effect[op[u]].origin = "participation"
                  => receipt'[op[u]] # "none"
            /\ reply[u] = "sent" => State(op[u]) = "sent"
    BY ZenonT(30) DEF CallInv, State
  <2>1. CASE u = t
    BY <1>4, <1>5, <1>7, <2>1, Zenon DEF CallInv, Inside, e
  <2>2. CASE u # t
    <3>1. pc[u] \in Inside => receipt'[op[u]] = receipt[op[u]]
      BY <1>3, <1>4, <2>2, Zenon DEF GatewayTypeOK
    <3> QED BY <1>5, <2>2, <3>1, ZenonT(30) DEF CallInv, Inside
  <2> QED BY <2>1, <2>2, ZenonT(30)
<1>11. WireInv'
  <2>1. \A d \in Effects : receipt[d] # "none" => receipt'[d] # "none"
    BY <1>2, <1>4, Zenon
  <2>2. \A d \in Effects : Channel = "whatsapp" /\ receipt'[d] # "none" =>
            accepted[d] = Parts
    BY <1>4, <1>7, Zenon DEF WireInv
  <2>3. Channel = "whatsapp" =>
            \A u \in Tasks : pc'[u] = "acked" => accepted[op[u]] = Parts
    BY <1>5, <1>7, Zenon DEF WireInv, e
  <2> QED BY <2>1, <2>2, <2>3, Zenon DEF WireInv, State
<1>12. RefusalInv'
  BY Zenon DEF RefusalInv, State
<1> QED BY <1>5, <1>8, <1>9, <1>10, <1>11, <1>12, ZenonT(30) DEF Rest

\* The bridge drops the command of a forward: the call ends with one command
\* less, and with none left where the send has only one.
LEMMA ForwardStep ==
    ASSUME OutboxInv, NEW t \in Tasks, ForwardUnavailable(t),
           UNCHANGED <<finding, operator>>
    PROVE  Rest'
<1> USE DEF OutboxInv
<1> DEFINE e == op[t]
<1>1. /\ Channel = "whatsapp" /\ pc[t] = "written" /\ e \in Effects
      /\ State(e) \in Overtaken
      /\ accepted[e] < frames[e] /\ receipt[e] = "none"
      /\ frames[e] = part[t] + 1 /\ part[t] < Parts
  BY Zenon DEF ForwardUnavailable, GatewayTypeOK, ClaimInv, CallInv, WireInv, Inside
<1>2. /\ \A d \in Effects : d # e =>
            effect'[d] = effect[d] /\ attempts'[d] = attempts[d]
      /\ effect'[e].origin = effect[e].origin
      /\ \/ effect'[e] = effect[e] /\ attempts'[e] = attempts[e]
         \/ State(e) = "executing" /\ effect'[e].state = "failed"
  <2>1. "absent" \notin {"executing"} /\ "failed" \in EffectStates \ {"executing"}
    BY DEF EffectStates
  <2>2. Transition(e, {"executing"}, "failed", "not_executed", worker)
    BY Zenon DEF ForwardUnavailable
  <2>3. /\ \A d \in Effects : d # e =>
              effect'[d] = effect[d] /\ attempts'[d] = attempts[d]
        /\ effect'[e].origin = effect[e].origin
        /\ \/ effect'[e] = effect[e] /\ attempts'[e] = attempts[e]
           \/ State(e) \in {"executing"} /\ effect'[e].state = "failed"
    BY <1>1, <2>1, <2>2, TransitionFacts, Zenon
  <2> QED BY <2>3, Zenon
<1>3. /\ pc'[t] = "idle" /\ part'[t] = 0 /\ reply'[t] = "failed"
      /\ UNCHANGED <<op, receipt, accepted>>
      /\ \A u \in Tasks : u # t =>
            pc'[u] = pc[u] /\ part'[u] = part[u] /\ reply'[u] = reply[u]
      /\ frames'[e] = frames[e] - 1
      /\ \A d \in Effects : d # e => frames'[d] = frames[d]
  BY <1>1, Zenon DEF ForwardUnavailable, Return, GatewayTypeOK
<1>4. frames'[e] = part[t] /\ accepted[e] <= frames'[e] /\ frames'[e] <= Parts
      /\ accepted[e] # Parts
  <2>1. frames[e] \in Nat /\ accepted[e] \in Nat /\ part[t] \in Nat /\ Parts \in Nat
    BY <1>1, EffectGatewayAssumption DEF GatewayTypeOK
  <2>2. frames'[e] = frames[e] - 1 /\ accepted[e] < frames[e]
        /\ frames[e] = part[t] + 1 /\ part[t] < Parts
    BY <1>1, <1>3, ZenonT(30)
  <2> HIDE DEF OutboxInv, e
  <2> QED BY <2>1, <2>2
<1>5. GatewayTypeOK'
  BY <1>1, <1>3, <1>4 DEF ForwardUnavailable, Return, GatewayTypeOK, PCs, EffectStates
<1>6. \A u \in Tasks : u # t /\ pc[u] \in Inside => op[u] # e /\ op[u] \in Effects
  BY <1>1, Zenon DEF ClaimInv, Inside, GatewayTypeOK
<1> HIDE DEF e
<1>7. ClaimInv'
  <2>1. \A d \in Effects : effect'[d].state \in Untouched =>
            d # e /\ State(d) \in Untouched
    BY <1>1, <1>2, Zenon DEF Untouched, Overtaken, State
  <2>2. \A u \in Tasks : pc'[u] \in Inside => u # t /\ pc[u] \in Inside /\ op[u] # e
    BY <1>3, <1>6, Zenon DEF Inside
  <2>3. \A u \in Tasks : pc'[u] \in Inside => effect'[op[u]].state \in Overtaken
    BY <1>2, <1>6, <2>2, Zenon DEF ClaimInv, State
  <2>4. \A u, v \in Tasks :
            pc'[u] \in Inside /\ pc'[v] \in Inside /\ op[u] = op[v] => u = v
    BY <2>2, ZenonT(30) DEF ClaimInv
  <2> QED BY <1>2, <1>3, <2>1, <2>3, <2>4, ZenonT(30) DEF ClaimInv, State
<1>8. EvidenceInv'
  <2>1. \A d \in Effects : effect'[d].state # "failed"
            => effect'[d] = effect[d] /\ attempts'[d] = attempts[d]
    BY <1>2, Zenon
  <2>2. ASSUME NEW d \in Effects
        PROVE  /\ effect'[d].state # "failed" =>
                     \A i \in 1..Len(attempts'[d]) : attempts'[d][i] # "failed"
               /\ effect'[d].state # "planned"
    <3>1. CASE effect'[d].state = "failed"
      BY <3>1, Zenon
    <3>2. CASE effect'[d].state # "failed"
      BY <2>1, <3>2, ZenonT(30) DEF EvidenceInv, State
    <3> QED BY <3>1, <3>2
  <2> QED BY <1>3, <2>2, Zenon DEF EvidenceInv, State
<1>9. CallInv'
  <2> SUFFICES ASSUME NEW u \in Tasks
      PROVE /\ pc'[u] \notin Inside \/ pc'[u] = "claimed" => part'[u] = 0
            /\ pc'[u] \in {"claimed", "calling"} => frames'[op[u]] = part'[u]
            /\ pc'[u] = "written" \/ (pc'[u] = "acked" /\ Channel = "whatsapp")
                  => frames'[op[u]] = part'[u] + 1
            /\ pc'[u] \in Inside \ {"acked"} => receipt[op[u]] = "none"
            /\ pc'[u] = "acked" /\ effect'[op[u]].origin = "participation"
                  => receipt[op[u]] # "none"
            /\ reply'[u] = "sent" => effect'[op[u]].state = "sent"
    BY <1>3, ZenonT(30) DEF CallInv, State
  <2>1. CASE u = t
    BY <1>3, <2>1, Zenon DEF Inside
  <2>2. CASE u # t
    <3>1. reply[u] = "sent" => effect'[op[u]].state = "sent"
      <4>1. op[u] \in Effects /\ (reply[u] = "sent" => effect[op[u]].state = "sent")
        BY ZenonT(30) DEF CallInv, State, GatewayTypeOK
      <4>2. \A d \in Effects : effect[d].state = "sent" => effect'[d].state = "sent"
        BY <1>2, Zenon DEF State
      <4> QED BY <4>1, <4>2, Zenon
    <3>2. pc[u] \in Inside => /\ frames'[op[u]] = frames[op[u]]
                              /\ effect'[op[u]] = effect[op[u]]
      BY <1>2, <1>3, <1>6, <2>2, Zenon
    <3> QED BY <1>3, <2>2, <3>1, <3>2, ZenonT(30) DEF CallInv, Inside
  <2> QED BY <2>1, <2>2, Zenon
<1>10. WireInv'
  <2>1. \A d \in Effects : effect'[d].state = "sent" => effect'[d] = effect[d]
    BY <1>2
  <2>2. \A d \in Effects : accepted[d] <= frames'[d] /\ frames'[d] <= Parts
    BY <1>1, <1>3, <1>4, ZenonT(30) DEF WireInv
  <2>3. \A u \in Tasks : /\ part'[u] < Parts
                         /\ pc'[u] = "acked" => accepted[op[u]] = Parts
    BY <1>1, <1>3, EffectGatewayAssumption, SMTT(30) DEF WireInv
  <2> QED BY <1>3, <2>1, <2>2, <2>3, Zenon DEF WireInv, State
<1>11. RefusalInv'
  <2>1. Parts = 1 => frames'[e] = 0
    BY <1>1, <1>4, EffectGatewayAssumption DEF GatewayTypeOK
  <2> QED BY <1>1, <1>2, <1>3, <2>1, ZenonT(30) DEF RefusalInv, State
<1> QED BY <1>5, <1>7, <1>8, <1>9, <1>10, <1>11, Zenon DEF Rest

\* The provider performs a command that is out.
LEMMA ProviderStep ==
    ASSUME OutboxInv, NEW e \in Effects, ProviderAccepts(e),
           UNCHANGED <<finding, operator>>
    PROVE  Rest'
<1> USE DEF OutboxInv, storeVars, gatewayVars
<1>1. /\ accepted[e] < frames[e] /\ accepted'[e] = accepted[e] + 1
      /\ \A d \in Effects : d # e => accepted'[d] = accepted[d]
      /\ UNCHANGED <<effect, attempts, receipt, pc, op, part, reply, frames>>
  BY Zenon DEF ProviderAccepts, GatewayTypeOK
<1>2. GatewayTypeOK'
  BY <1>1 DEF ProviderAccepts, GatewayTypeOK
<1>3. Channel = "whatsapp" => accepted[e] # Parts
  <2>1. Channel = "whatsapp" => frames[e] <= Parts
    BY Zenon DEF WireInv
  <2>2. accepted[e] \in Nat /\ frames[e] \in Nat /\ Parts \in Nat
    BY EffectGatewayAssumption, Zenon DEF GatewayTypeOK
  <2> HIDE DEF OutboxInv
  <2> QED BY <1>1, <2>1, <2>2
<1>4. ClaimInv'
  BY <1>1 DEF ClaimInv, State, GatewayTypeOK
<1>5. EvidenceInv' /\ CallInv' /\ RefusalInv'
  <2>1. EvidenceInv'
    BY <1>1, Zenon DEF EvidenceInv, State
  <2>2. CallInv'
    BY <1>1, ZenonT(30) DEF CallInv, State
  <2>3. RefusalInv'
    BY <1>1, Zenon DEF RefusalInv, State
  <2> QED BY <2>1, <2>2, <2>3, Zenon
<1>6. WireInv'
  <2>1. \A d \in Effects : accepted'[d] <= frames[d]
    BY <1>1 DEF WireInv, GatewayTypeOK
  <2>2. \A d \in Effects : Channel = "whatsapp" /\ accepted[d] = Parts =>
            accepted'[d] = Parts
    BY <1>1, <1>3, Zenon
  <2>3. \A u \in Tasks : op[u] \in Effects
    BY DEF GatewayTypeOK
  <2> QED BY <1>1, <2>1, <2>2, <2>3, ZenonT(30) DEF WireInv, State
<1> QED BY <1>2, <1>4, <1>5, <1>6, Zenon DEF Rest

\* The calls do not move and no sent effect is taken back.
LEMMA CallsCarried ==
    ASSUME CallInv, UNCHANGED <<pc, op, part, reply, frames, receipt>>,
           \A u \in Tasks : op[u] \in Effects,
           \A d \in Effects : /\ State(d) = "sent" => effect'[d].state = "sent"
                              /\ effect'[d].origin = effect[d].origin
    PROVE  CallInv'
<1> SUFFICES ASSUME NEW u \in Tasks
             PROVE  /\ pc[u] \notin Inside \/ pc[u] = "claimed" => part[u] = 0
                    /\ pc[u] \in {"claimed", "calling"} => frames[op[u]] = part[u]
                    /\ pc[u] = "written" \/ (pc[u] = "acked" /\ Channel = "whatsapp")
                          => frames[op[u]] = part[u] + 1
                    /\ pc[u] \in Inside \ {"acked"} => receipt[op[u]] = "none"
                    /\ pc[u] = "acked" /\ effect'[op[u]].origin = "participation"
                          => receipt[op[u]] # "none"
                    /\ reply[u] = "sent" => effect'[op[u]].state = "sent"
  BY Zenon DEF CallInv, State
<1>1. /\ State(op[u]) = "sent" => effect'[op[u]].state = "sent"
      /\ effect'[op[u]].origin = effect[op[u]].origin
  BY Zenon
<1> QED BY <1>1, Zenon DEF CallInv

\* Recovery, the reconciler and the operator move effects that were claimed;
\* what they call sent has a provider receipt or the operator's word.
LEMMA VerdictStep ==
    ASSUME OutboxInv,
           \A d \in Effects :
              \/ effect'[d] = effect[d] /\ attempts'[d] = attempts[d]
              \/ /\ State(d) \in {"executing", "unknown", "unknown_nonrepeatable"}
                 /\ effect'[d].origin = effect[d].origin
                 /\ Len(attempts'[d]) = Len(attempts[d])
                 /\ \A i \in 1..Len(attempts[d]) :
                       attempts'[d][i] \in {attempts[d][i], "unknown"}
                 /\ \/ effect'[d].state \in {"unknown", "unknown_nonrepeatable"}
                    \/ /\ effect'[d].state = "sent"
                       /\ receipt[d] = "provider" \/ d \in operator',
           \A e \in Effects :
              /\ finding'[e] \in {"none", "confirmed", "inconclusive"}
              /\ finding'[e] = "confirmed" => receipt[e] = "provider",
           operator \subseteq operator', operator' \subseteq Effects,
           UNCHANGED <<receipt, gatewayVars, providerVars>>
    PROVE  Rest'
<1> USE DEF OutboxInv, gatewayVars, providerVars
<1>1. GatewayTypeOK'
  BY Zenon DEF GatewayTypeOK
<1>2. \A u \in Tasks : op[u] \in Effects
  BY Zenon DEF GatewayTypeOK
<1>3. ClaimInv'
  <2>1. \A d \in Effects : effect'[d].state \in Untouched =>
            effect'[d] = effect[d] /\ attempts'[d] = attempts[d]
    BY Zenon DEF Untouched
  <2>2. \A d \in Effects : State(d) \in Overtaken => effect'[d].state \in Overtaken
    BY Zenon DEF Overtaken, State
  <2> QED BY <1>2, <2>1, <2>2, Zenon DEF ClaimInv, State
<1>4. EvidenceInv'
  <2>1. ASSUME NEW d \in Effects, effect'[d].state # "failed"
        PROVE  \A i \in 1..Len(attempts'[d]) : attempts'[d][i] # "failed"
    <3>1. effect[d].state # "failed" =>
              \A i \in 1..Len(attempts[d]) : attempts[d][i] # "failed"
      BY Zenon DEF EvidenceInv, State
    <3>2. effect[d].state # "failed"
      BY <2>1, Zenon DEF State
    <3>3. \/ attempts'[d] = attempts[d]
          \/ /\ Len(attempts'[d]) = Len(attempts[d])
             /\ \A i \in 1..Len(attempts[d]) :
                   attempts'[d][i] \in {attempts[d][i], "unknown"}
      BY ZenonT(30)
    <3> HIDE DEF OutboxInv
    <3> QED BY <3>1, <3>2, <3>3, Zenon
  <2> QED BY <2>1, Zenon DEF EvidenceInv, State
<1>5. CallInv'
  <2>1. \A d \in Effects : /\ State(d) = "sent" => effect'[d].state = "sent"
                           /\ effect'[d].origin = effect[d].origin
    BY ZenonT(30) DEF State
  <2>2. UNCHANGED <<pc, op, part, reply, frames, receipt>>
    BY Zenon
  <2>3. CallInv
    BY Zenon
  <2> QED BY <1>2, <2>1, <2>2, <2>3, CallsCarried, Zenon
<1>6. WireInv'
  <2>1. \A d \in Effects : effect'[d].state = "sent" =>
            State(d) = "sent" \/ receipt[d] = "provider" \/ d \in operator'
    BY Zenon DEF State
  <2>2. \A d \in Effects : effect'[d].origin = effect[d].origin
    BY Zenon
  <2> QED BY <2>1, <2>2, Zenon DEF WireInv, State
<1>7. RefusalInv'
  BY ZenonT(30) DEF RefusalInv, State
<1> QED BY <1>1, <1>3, <1>4, <1>5, <1>6, <1>7, Zenon DEF Rest

-----------------------------------------------------------------------------
\* One step per action.

\* No store operation removes a row.
LEMMA RowsStay ==
    ASSUME StoreInv, [StoreNext]_<<now, storeVars>>, NEW e \in Effects,
           State(e) # "absent"
    PROVE  effect'[e].state # "absent"
<1>1. effect \in [Effects -> Row]
  BY DEF StoreInv
<1>2. \A target \in EffectStates :
         Moved(effect[e], target).state = target /\ target # "absent"
  BY <1>1 DEF Moved, Row, EffectStates
<1>3. CASE UNCHANGED effect
  BY <1>3, Zenon DEF State
<1>4. CASE StoreRecover
  <2>1. "unknown" \in EffectStates
    BY Zenon DEF EffectStates
  <2> QED BY <1>2, <1>4, <2>1, Zenon DEF StoreRecover, RecoverExecuting, State
<1>5. ASSUME NEW d \in Effects, StoreEnqueue(d) PROVE effect'[e].state # "absent"
  BY <1>1, <1>5, Zenon DEF StoreEnqueue, EnqueueEffect, State
<1>6. ASSUME NEW d \in Effects, StoreClaim(d) PROVE effect'[e].state # "absent"
  <2>1. PICK w \in Workers : ClaimEffect(d, w)
    BY <1>6, Zenon DEF StoreClaim
  <2>2. CASE d = e
    BY <1>1, <2>1, <2>2, Zenon DEF ClaimEffect, Row
  <2> QED BY <1>1, <2>1, <2>2, Zenon DEF ClaimEffect, State
<1>7. ASSUME NEW d \in Effects, StoreRelease(d) PROVE effect'[e].state # "absent"
  <2>1. PICK w \in Workers : ReleaseClaim(d, w)
    BY <1>7 DEF StoreRelease
  <2>2. CASE d = e
    BY <1>1, <2>1, <2>2, Zenon DEF ReleaseClaim, Row, State
  <2> QED BY <1>1, <2>1, <2>2, Zenon DEF ReleaseClaim, State
<1>8. ASSUME NEW d \in Effects, StoreTransition(d)
      PROVE  effect'[e].state # "absent"
  <2>1. PICK target \in EffectStates \ {"executing"},
             kind \in RequeueEvidenceKinds \cup {"policy"},
             w \in Workers \cup {NoOne} :
             Transition(d, {State(d)}, target, kind, w)
    BY <1>8, Zenon DEF StoreTransition
  <2>2. effect' = effect \/ effect' = [effect EXCEPT ![d] = Moved(effect[d], target)]
    BY <2>1, Zenon DEF Transition
  <2> QED BY <1>1, <1>2, <2>2 DEF State
<1>9. ASSUME NEW d \in Effects, StoreReceipt(d) PROVE effect'[e].state # "absent"
  BY <1>9 DEF StoreReceipt, State
<1>10. CASE Tick
  BY <1>10, Zenon DEF Tick, storeVars, State
<1> QED BY <1>3, <1>4, <1>5, <1>6, <1>7, <1>8, <1>9, <1>10, Zenon DEF StoreNext,
           storeVars

\* A task leaves idle only by submitting, and keeps to its effect until idle.
LEMMA TasksSubmit ==
    ASSUME OutboxInv, [Next]_vars, NEW t \in Tasks, pc'[t] # "idle"
    PROVE  \/ pc[t] # "idle" /\ op'[t] = op[t]
           \/ Submit(t, op'[t])
<1> USE DEF OutboxInv
<1>1. CASE UNCHANGED <<pc, op>>
  BY <1>1, Zenon
<1>2. CASE GatewayNext
  <2>1. ASSUME NEW u \in Tasks, NEW e \in Effects, Submit(u, e)
        PROVE  \/ pc[t] # "idle" /\ op'[t] = op[t]
               \/ Submit(t, op'[t])
    BY <2>1, Zenon DEF Submit, Goto, GatewayTypeOK
  <2>2. ASSUME NEW u \in Tasks, NEW l, pc[u] # "idle", pc' = [pc EXCEPT ![u] = l],
               op' = op
        PROVE  pc[t] # "idle" /\ op'[t] = op[t]
    BY <2>2 DEF GatewayTypeOK
  <2>3. ASSUME NEW e \in Effects, CancelQueued(e)
        PROVE  pc[t] # "idle" /\ op'[t] = op[t]
    BY <2>3, Zenon DEF CancelQueued, gatewayVars
  <2>4. ASSUME NEW u \in Tasks,
               \/ SendAttemptRefused(u) \/ CapacityBlock(u) \/ NotExecuted(u)
               \/ Claim(u) \/ CallTransport(u) \/ WriteCommand(u) \/ NextCommand(u)
        PROVE  pc[t] # "idle" /\ op'[t] = op[t]
    BY <2>2, <2>4, Zenon DEF SendAttemptRefused, CapacityBlock, NotExecuted, Claim,
       CallTransport, WriteCommand, NextCommand, Goto, Return
  <2>5. ASSUME NEW u \in Tasks,
               \/ TransportReturned(u) \/ FinishSent(u) \/ RefusedBeforeDispatch(u)
               \/ ForwardUnavailable(u) \/ Unproven(u)
        PROVE  pc[t] # "idle" /\ op'[t] = op[t]
    <3>1. pc[u] # "idle"
      BY <2>5, ZenonT(30) DEF TransportReturned, SendReturns, FinishSent, RefusedBeforeDispatch,
         ForwardUnavailable, Unproven
    <3>2. \/ pc' = [pc EXCEPT ![u] = "idle"] /\ op' = op
          \/ pc' = [pc EXCEPT ![u] = "acked"] /\ op' = op
      BY <2>5, ZenonT(30) DEF TransportReturned, FinishSent, RefusedBeforeDispatch,
         ForwardUnavailable, Unproven, Return, Goto
    <3> QED BY <2>2, <3>1, <3>2, Zenon
  <2> QED BY <1>2, <2>1, <2>3, <2>4, <2>5, Zenon DEF GatewayNext
<1>3. CASE Crash
  BY <1>3, Zenon DEF Crash
<1> QED BY <1>1, <1>2, <1>3, Zenon DEF Next, vars, Gateway, Reconcile, Provider,
        ProviderAccepts, Clock, Operator, Restart, RestartFails, StartupDone, gatewayVars

\* A submitted effect has a row and keeps it.
LEMMA SubmittedStep ==
    ASSUME OutboxInv, [Next]_vars, GatewayTypeOK' PROVE SubmittedInv'
<1> SUFFICES ASSUME NEW t \in Tasks, pc'[t] # "idle"
             PROVE  effect'[op'[t]].state # "absent"
  BY Zenon DEF SubmittedInv, State
<1>1. op'[t] \in Effects /\ op[t] \in Effects
  BY DEF GatewayTypeOK, OutboxInv
<1>2. [StoreNext]_<<now, storeVars>>
  BY OutboxIsStoreStep, Zenon
<1>3. CASE pc[t] # "idle" /\ op'[t] = op[t]
  BY <1>1, <1>2, <1>3, RowsStay, Zenon DEF OutboxInv, SubmittedInv
<1>4. CASE Submit(t, op'[t])
  <2>1. PICK origin, expires : EnqueueEffect(op'[t], origin, expires)
    BY <1>4, Zenon DEF Submit
  <2>2. CASE State(op'[t]) # "absent"
    BY <2>1, <2>2, ZenonT(30) DEF EnqueueEffect, State
  <2>3. CASE State(op'[t]) = "absent"
    BY <1>1, <2>1, <2>3, ZenonT(30) DEF EnqueueEffect, OutboxInv, StoreInv
  <2> QED BY <2>2, <2>3, Zenon
<1> QED BY <1>3, <1>4, TasksSubmit, ZenonT(30)

\* The gateway: acceptance, refusals, the claim, the call and its end.
LEMMA GatewayKeeps ==
    ASSUME OutboxInv, GatewayNext, UNCHANGED <<finding, operator>>
    PROVE  Rest'
<1> USE DEF OutboxInv
<1>0. \A t \in Tasks : op[t] \in Effects
  BY Zenon DEF GatewayTypeOK
<1>1. ASSUME NEW t \in Tasks, NEW e \in Effects, Submit(t, e) PROVE Rest'
  <2>1. /\ pc[t] = "idle" /\ pc' = [pc EXCEPT ![t] = "submitted"]
        /\ op' = [op EXCEPT ![t] = e] /\ reply' = [reply EXCEPT ![t] = "none"]
        /\ UNCHANGED <<attempts, receipt, part, providerVars>>
    BY <1>1, Zenon DEF Submit, Goto
  <2>2. PICK origin, expires : EnqueueEffect(e, origin, expires)
    BY <1>1, Zenon DEF Submit
  <2>3. \A d \in Effects :
            \/ effect'[d] = effect[d]
            \/ /\ State(d) \in {"absent", "queued"}
               /\ effect'[d].state \in {"queued", "blocked", "cancelled", "expired"}
    BY <2>2 DEF EnqueueEffect, StoreInv
  <2>4. GatewayTypeOK'
    BY <2>1, Zenon DEF GatewayTypeOK, PCs, providerVars
  <2>5. \A u \in Tasks :
            \/ /\ pc'[u] = pc[u] /\ op'[u] = op[u]
               /\ part'[u] = part[u] /\ reply'[u] = reply[u]
            \/ /\ pc[u] \notin Inside /\ pc'[u] \notin Inside /\ part'[u] = part[u]
               /\ reply'[u] = "sent" => effect'[op'[u]].state = "sent"
    BY <2>1, Zenon DEF GatewayTypeOK, Inside
  <2> QED BY <2>1, <2>3, <2>4, <2>5, BeforeClaim, Zenon
<1>2. ASSUME NEW t \in Tasks, SendAttemptRefused(t) PROVE Rest'
  <2>1. /\ pc[t] = "submitted" /\ pc' = [pc EXCEPT ![t] = "idle"]
        /\ UNCHANGED <<effect, attempts, receipt, op, part, reply, providerVars>>
    BY <1>2, Zenon DEF SendAttemptRefused, Goto, storeVars
  <2>2. GatewayTypeOK'
    BY <2>1, Zenon DEF GatewayTypeOK, PCs, providerVars
  <2>3. \A u \in Tasks :
            \/ /\ pc'[u] = pc[u] /\ op'[u] = op[u]
               /\ part'[u] = part[u] /\ reply'[u] = reply[u]
            \/ /\ pc[u] \notin Inside /\ pc'[u] \notin Inside /\ part'[u] = part[u]
               /\ reply'[u] = "sent" => effect'[op'[u]].state = "sent"
    BY <2>1, Zenon DEF GatewayTypeOK, Inside, CallInv, State
  <2> QED BY <2>1, <2>2, <2>3, BeforeClaim, ZenonT(30)
<1>3. ASSUME NEW t \in Tasks, NEW target \in DeniedStates, NEW kind,
             pc[t] \in {"submitted", "ready"},
             Transition(op[t], {"queued"}, target, kind, NoOne), Return(t, target),
             UNCHANGED <<receipt, providerVars>>
      PROVE  Rest'
  <2>1. target \in EffectStates \ {"executing"} /\ "absent" \notin {"queued"}
    BY DEF DeniedStates, EffectStates
  <2>2. /\ \A d \in Effects : d # op[t] =>
              effect'[d] = effect[d] /\ attempts'[d] = attempts[d]
        /\ \/ effect'[op[t]] = effect[op[t]] /\ attempts'[op[t]] = attempts[op[t]]
           \/ /\ State(op[t]) \in {"queued"} /\ effect'[op[t]].state = target
              /\ State(op[t]) # "executing" => attempts'[op[t]] = attempts[op[t]]
    BY <1>0, <1>3, <2>1, TransitionFacts, ZenonT(30)
  <2>3. \A d \in Effects :
            \/ effect'[d] = effect[d]
            \/ /\ State(d) \in {"absent", "queued"}
               /\ effect'[d].state \in {"queued", "blocked", "cancelled", "expired"}
    BY <1>0, <2>2, ZenonT(30) DEF DeniedStates
  <2>4. attempts' = attempts
    BY <1>3, Zenon DEF Transition
  <2>5. GatewayTypeOK' /\ part' = part
    <3>1. part[t] = 0
      BY <1>3, Zenon DEF CallInv, Inside
    <3> QED BY <1>3, <2>1, <3>1, Zenon DEF Return, GatewayTypeOK, PCs, providerVars
  <2>6. \A u \in Tasks :
            \/ /\ pc'[u] = pc[u] /\ op'[u] = op[u]
               /\ part'[u] = part[u] /\ reply'[u] = reply[u]
            \/ /\ pc[u] \notin Inside /\ pc'[u] \notin Inside /\ part'[u] = part[u]
               /\ reply'[u] = "sent" => effect'[op'[u]].state = "sent"
    BY <1>3, <2>5, ZenonT(30) DEF Return, GatewayTypeOK, Inside, DeniedStates
  <2> QED BY <1>3, <2>3, <2>4, <2>5, <2>6, BeforeClaim, Zenon
<1>4. ASSUME NEW t \in Tasks, CapacityBlock(t) PROVE Rest'
  <2>1. pc[t] = "submitted" /\ UNCHANGED <<receipt, providerVars>>
    BY <1>4, Zenon DEF CapacityBlock
  <2>2. CASE Transition(op[t], {"queued"}, "blocked", "policy", NoOne)
             /\ Return(t, "blocked")
    <3>1. "blocked" \in DeniedStates
      BY Zenon DEF DeniedStates
    <3> QED BY <1>3, <2>1, <2>2, <3>1
  <2>3. CASE Goto(t, "ready") /\ UNCHANGED <<effect, attempts, op, part, reply>>
    <3>1. GatewayTypeOK'
      BY <2>1, <2>3, ZenonT(30) DEF Goto, GatewayTypeOK, PCs, providerVars
    <3>2. \A u \in Tasks :
            \/ /\ pc'[u] = pc[u] /\ op'[u] = op[u]
               /\ part'[u] = part[u] /\ reply'[u] = reply[u]
            \/ /\ pc[u] \notin Inside /\ pc'[u] \notin Inside /\ part'[u] = part[u]
               /\ reply'[u] = "sent" => effect'[op'[u]].state = "sent"
      BY <2>1, <2>3, Zenon DEF Goto, GatewayTypeOK, Inside, CallInv, State
    <3> QED BY <2>1, <2>3, <3>1, <3>2, BeforeClaim, Zenon
  <2> QED BY <1>4, <2>2, <2>3, Zenon DEF CapacityBlock
<1>5. ASSUME NEW t \in Tasks, NotExecuted(t) PROVE Rest'
  <2>1. pc[t] = "ready" /\ UNCHANGED <<receipt, providerVars>>
    BY <1>5, Zenon DEF NotExecuted
  <2>2. CASE State(op[t]) # "queued"
    <3>1. Return(t, State(op[t])) /\ UNCHANGED <<effect, attempts>>
      BY <1>5, <2>2, Zenon DEF NotExecuted
    <3>2. State(op[t]) \in EffectStates
      <4>1. State(op[t]) # "absent"
        BY <2>1, ZenonT(30) DEF SubmittedInv
      <4> QED BY <1>0, <4>1, Zenon DEF StoreInv, Row, State
    <3>3. part[t] = 0
      BY <2>1, Zenon DEF CallInv, Inside
    <3>4. GatewayTypeOK'
      BY <2>1, <3>1, <3>2, ZenonT(30) DEF Return, GatewayTypeOK, PCs, providerVars
    <3>5. \A u \in Tasks :
            \/ /\ pc'[u] = pc[u] /\ op'[u] = op[u]
               /\ part'[u] = part[u] /\ reply'[u] = reply[u]
            \/ /\ pc[u] \notin Inside /\ pc'[u] \notin Inside /\ part'[u] = part[u]
               /\ reply'[u] = "sent" => effect'[op'[u]].state = "sent"
      BY <2>1, <3>1, <3>3, Zenon DEF Return, GatewayTypeOK, Inside, State
    <3> QED BY <2>1, <3>1, <3>4, <3>5, BeforeClaim, Zenon
  <2>3. CASE State(op[t]) = "queued"
    <3>1. PICK target \in DeniedStates :
            Transition(op[t], {"queued"}, target, "policy", NoOne) /\ Return(t, target)
      BY <1>5, <2>3, Zenon DEF NotExecuted, DeniedStates
    <3> QED BY <1>3, <2>1, <3>1
  <2> QED BY <2>2, <2>3, Zenon
<1>6. ASSUME NEW e \in Effects, CancelQueued(e) PROVE Rest'
  <2>1. /\ Transition(e, {"queued"}, "cancelled", "superseded", NoOne)
        /\ State(e) = "queued" /\ UNCHANGED <<receipt, gatewayVars, providerVars>>
    BY <1>6 DEF CancelQueued
  <2>2. "cancelled" \in EffectStates \ {"executing"} /\ "absent" \notin {"queued"}
    BY Zenon DEF EffectStates
  <2>3. /\ \A d \in Effects : d # e =>
              effect'[d] = effect[d] /\ attempts'[d] = attempts[d]
        /\ \/ effect'[e] = effect[e] /\ attempts'[e] = attempts[e]
           \/ /\ State(e) \in {"queued"} /\ effect'[e].state = "cancelled"
              /\ State(e) # "executing" => attempts'[e] = attempts[e]
    BY <2>1, <2>2, TransitionFacts, Zenon
  <2>4. \A d \in Effects :
            \/ effect'[d] = effect[d]
            \/ /\ State(d) \in {"absent", "queued"}
               /\ effect'[d].state \in {"queued", "blocked", "cancelled", "expired"}
    BY <2>3, Zenon
  <2>5. attempts' = attempts
    BY <2>1, Zenon DEF Transition
  <2>6. GatewayTypeOK'
    BY <2>1, ZenonT(30) DEF GatewayTypeOK, gatewayVars, providerVars
  <2> QED BY <2>1, <2>4, <2>5, <2>6, BeforeClaim, Zenon DEF gatewayVars
<1>7. ASSUME NEW t \in Tasks, FinishSent(t) PROVE Rest'
  <2>1. /\ pc[t] = "acked" /\ UNCHANGED <<receipt, providerVars>>
        /\ Transition(op[t], {"executing"}, "sent", "transport", worker)
        /\ Return(t, effect'[op[t]].state)
    BY <1>7, Zenon DEF FinishSent
  <2>2. pc[t] \in Inside /\ "sent" \in {"sent", "failed", "unknown"}
    BY <2>1, Zenon DEF Inside
  <2>3. effect'[op[t]].state \in EffectStates
    <3>1. "sent" \in EffectStates \ {"executing"} /\ "absent" \notin {"executing"}
      BY DEF EffectStates
    <3>2. effect'[op[t]] = effect[op[t]] \/ effect'[op[t]].state = "sent"
      BY <1>0, <2>1, <3>1, TransitionFacts, Zenon
    <3>3. State(op[t]) \in Overtaken
      BY <2>2, Zenon DEF ClaimInv
    <3> QED BY <3>2, <3>3, Zenon DEF State, Overtaken, EffectStates
  <2> DEFINE s == effect'[op[t]].state
  <2>4. s \in EffectStates /\ (s = "sent" => effect'[op[t]].state = "sent")
        /\ Return(t, s)
    BY <2>1, <2>3, Zenon
  <2> HIDE DEF s
  <2> QED BY <2>1, <2>2, <2>4, CallEnds, Zenon
<1>8. ASSUME NEW t \in Tasks, RefusedBeforeDispatch(t) PROVE Rest'
  <2>1. /\ pc[t] \in {"claimed", "calling"} /\ UNCHANGED <<receipt, providerVars>>
        /\ pc[t] = "calling" => Channel = "whatsapp"
        /\ Transition(op[t], {"executing"}, "failed", "not_executed", worker)
        /\ Return(t, "failed")
    BY <1>8, Zenon DEF RefusedBeforeDispatch
  <2>2. /\ pc[t] \in Inside /\ "failed" \in {"sent", "failed", "unknown"}
        /\ "failed" \in EffectStates
    BY <2>1, Zenon DEF Inside, EffectStates
  <2> QED BY <2>1, <2>2, CallEnds, ZenonT(30)
<1>9. ASSUME NEW t \in Tasks, Unproven(t) PROVE Rest'
  <2>1. /\ pc[t] \in {"claimed", "calling", "written"}
        /\ UNCHANGED <<receipt, providerVars>>
        /\ Transition(op[t], {"executing"}, "unknown", "dispatch_unknown", worker)
        /\ Return(t, "unknown")
    BY <1>9, Zenon DEF Unproven
  <2>2. /\ pc[t] \in Inside /\ "unknown" \in {"sent", "failed", "unknown"}
        /\ "unknown" \in EffectStates
    BY <2>1 DEF Inside, EffectStates
  <2> QED BY <2>1, <2>2, CallEnds, Zenon
<1>10. ASSUME NEW t \in Tasks, TransportReturned(t) PROVE Rest'
  <2>1. SendReturns(t) /\ pc[t] \in {"calling", "written"} /\ UNCHANGED providerVars
    BY <1>10, Zenon DEF TransportReturned, SendReturns
  <2>2. PICK r \in ReceiptsReported :
          IF effect[op[t]].origin = "participation" /\ r = "none"
          THEN /\ Transition(op[t], {"executing"}, "unknown", "dispatch_unknown",
                             worker)
               /\ Return(t, effect'[op[t]].state)
               /\ UNCHANGED receipt
          ELSE /\ IF r = "none" THEN UNCHANGED receipt
                                ELSE RecordTransportReceipt(op[t], r)
               /\ Goto(t, "acked")
               /\ UNCHANGED <<effect, attempts, op, part, reply>>
    BY <1>10, ZenonT(30) DEF TransportReturned
  <2>3. CASE effect[op[t]].origin = "participation" /\ r = "none"
    <3>1. /\ Transition(op[t], {"executing"}, "unknown", "dispatch_unknown", worker)
          /\ Return(t, effect'[op[t]].state) /\ UNCHANGED receipt
      BY <2>2, <2>3, Zenon
    <3>2. pc[t] \in Inside /\ "unknown" \in {"sent", "failed", "unknown"}
      BY <2>1, Zenon DEF Inside
    <3>3. effect'[op[t]].state \in EffectStates
      <4>1. "unknown" \in EffectStates \ {"executing"} /\ "absent" \notin {"executing"}
        BY DEF EffectStates
      <4>2. effect'[op[t]] = effect[op[t]] \/ effect'[op[t]].state = "unknown"
        BY <1>0, <3>1, <4>1, TransitionFacts, ZenonT(30)
      <4>3. State(op[t]) \in Overtaken
        BY <3>2, ZenonT(30) DEF ClaimInv
      <4> QED BY <4>2, <4>3, Zenon DEF State, Overtaken, EffectStates
    <3> DEFINE s == effect'[op[t]].state
    <3>4. s \in EffectStates /\ (s = "sent" => effect'[op[t]].state = "sent")
          /\ Return(t, s)
      BY <3>1, <3>3, Zenon
    <3> HIDE DEF s
    <3> QED BY <2>1, <3>1, <3>2, <3>4, CallEnds, ZenonT(30)
  <2>4. CASE ~ (effect[op[t]].origin = "participation" /\ r = "none")
    <3>1. /\ IF r = "none" THEN UNCHANGED receipt ELSE RecordTransportReceipt(op[t], r)
          /\ pc' = [pc EXCEPT ![t] = "acked"]
          /\ UNCHANGED <<effect, attempts, op, part, reply>>
      BY <2>2, <2>4, Zenon DEF Goto
    <3> QED BY <2>1, <2>4, <3>1, ReceiptStored, ZenonT(30)
  <2> QED BY <2>3, <2>4, Zenon
<1> QED BY <1>1, <1>2, <1>4, <1>5, <1>6, <1>7, <1>8, <1>9, <1>10, ClaimStep, CallGoesOn,
           ForwardStep, Zenon DEF GatewayNext

\* An expired claim becomes unknown, and its open attempt with it.
LEMMA RecoveryFacts ==
    ASSUME StoreInv, RecoverExecuting, NEW d \in Effects
    PROVE  \/ effect'[d] = effect[d] /\ attempts'[d] = attempts[d]
           \/ /\ State(d) = "executing"
              /\ effect'[d].state = "unknown"
              /\ effect'[d].origin = effect[d].origin
              /\ Len(attempts'[d]) = Len(attempts[d])
              /\ \A i \in 1..Len(attempts[d]) :
                    attempts'[d][i] \in {attempts[d][i], "unknown"}
<1>1. effect[d] \in Row /\ attempts[d] \in Seq(Outcomes)
  BY DEF StoreInv
<1>2. CASE d \notin ExpiredClaims
  BY <1>2, Zenon DEF RecoverExecuting
<1>3. CASE d \in ExpiredClaims
  <2>1. /\ effect'[d] = Moved(effect[d], "unknown")
        /\ attempts'[d] = CloseAttempts(attempts[d], "unknown")
        /\ State(d) = "executing"
    BY <1>3, Zenon DEF RecoverExecuting, ExpiredClaims
  <2>2. effect'[d].state = "unknown" /\ effect'[d].origin = effect[d].origin
    BY <1>1, <2>1, Zenon DEF Moved, Row
  <2>3. "unknown" \in Outcomes
    BY DEF Outcomes
  <2>4. /\ Len(CloseAttempts(attempts[d], "unknown")) = Len(attempts[d])
        /\ \A i \in 1..Len(attempts[d]) :
              CloseAttempts(attempts[d], "unknown")[i] =
                  IF attempts[d][i] = "open" THEN "unknown" ELSE attempts[d][i]
    BY <1>1, <2>3, CloseAttemptsFacts, Zenon
  <2> QED BY <2>1, <2>2, <2>4, Zenon
<1> QED BY <1>2, <1>3, Zenon

LEMMA RecoveryKeeps ==
    ASSUME OutboxInv, RecoverExecuting,
           UNCHANGED <<receipt, finding, gatewayVars, providerVars, operator>>
    PROVE  Rest'
<1>1. /\ \A d \in Effects : /\ finding[d] \in {"none", "confirmed", "inconclusive"}
                            /\ finding[d] = "confirmed" => receipt[d] = "provider"
      /\ operator \subseteq operator' /\ operator' \subseteq Effects
  BY Zenon DEF OutboxInv, EvidenceInv
<1>2. \A d \in Effects :
         \/ effect'[d] = effect[d] /\ attempts'[d] = attempts[d]
         \/ /\ State(d) = "executing"
            /\ effect'[d].state = "unknown"
            /\ effect'[d].origin = effect[d].origin
            /\ Len(attempts'[d]) = Len(attempts[d])
            /\ \A i \in 1..Len(attempts[d]) :
                  attempts'[d][i] \in {attempts[d][i], "unknown"}
  BY RecoveryFacts, Zenon DEF OutboxInv
<1> QED BY <1>1, <1>2, VerdictStep, Zenon

\* The reconciler's recovery, escalations, probes and verdicts.
LEMMA ReconcilerKeeps ==
    ASSUME OutboxInv, ReconcilerNext,
           UNCHANGED <<gatewayVars, providerVars, operator>>
    PROVE  Rest'
<1> USE DEF OutboxInv
<1>0. /\ \A d \in Effects : /\ finding[d] \in {"none", "confirmed", "inconclusive"}
                            /\ finding[d] = "confirmed" => receipt[d] = "provider"
      /\ operator \subseteq operator' /\ operator' \subseteq Effects
  BY Zenon DEF EvidenceInv
<1>1. CASE TickBegins
  <2>1. RecoverExecuting /\ UNCHANGED <<receipt, finding>>
    BY <1>1, ZenonT(30) DEF TickBegins
  <2> QED BY <2>1, RecoveryKeeps, Zenon
<1>2. ASSUME NEW e \in Effects, EscalateUnplanned(e) \/ EscalateOverdue(e)
      PROVE  Rest'
  <2>1. /\ Transition(e, {"unknown"}, "unknown_nonrepeatable", "probe", NoOne)
        /\ UNCHANGED <<receipt, finding>>
    BY <1>2, Zenon DEF EscalateUnplanned, EscalateOverdue, Escalate
  <2>2. /\ "unknown_nonrepeatable" \in EffectStates \ {"executing"}
        /\ "absent" \notin {"unknown"}
    BY DEF EffectStates
  <2>3. /\ \A d \in Effects : d # e =>
              effect'[d] = effect[d] /\ attempts'[d] = attempts[d]
        /\ effect'[e].origin = effect[e].origin
        /\ \/ effect'[e] = effect[e] /\ attempts'[e] = attempts[e]
           \/ /\ State(e) \in {"unknown"}
              /\ effect'[e].state = "unknown_nonrepeatable"
              /\ State(e) # "executing" => attempts'[e] = attempts[e]
    BY <2>1, <2>2, TransitionFacts, ZenonT(30)
  <2>4. \A d \in Effects :
          \/ effect'[d] = effect[d] /\ attempts'[d] = attempts[d]
          \/ /\ State(d) = "unknown"
             /\ effect'[d].state = "unknown_nonrepeatable"
             /\ effect'[d].origin = effect[d].origin
             /\ attempts'[d] = attempts[d]
    BY <2>3, ZenonT(30)
  <2> QED BY <1>0, <2>1, <2>4, VerdictStep, Zenon
<1>3. ASSUME NEW e \in Effects, WaitForProbe(e) PROVE Rest'
  BY <1>0, <1>3, QuietStep, Zenon DEF WaitForProbe
<1>4. ASSUME NEW e \in Effects, StartProbe(e) PROVE Rest'
  <2>1. /\ finding' = [finding EXCEPT ![e] = LocalEvidence(e)]
        /\ UNCHANGED storeVars
    BY <1>4, Zenon DEF StartProbe
  <2>2. /\ LocalEvidence(e) \in {"confirmed", "inconclusive"}
        /\ LocalEvidence(e) = "confirmed" => receipt[e] = "provider"
    <3>1. State(e) # "failed"
      BY <1>4, Zenon DEF StartProbe, Pending, TickInv, Listed
    <3>2. DOMAIN attempts[e] = 1..Len(attempts[e])
      BY DEF StoreInv
    <3> QED BY <3>1, <3>2, Zenon DEF EvidenceInv, LocalEvidence
  <2>3. /\ \A d \in Effects : d # e => finding'[d] = finding[d]
        /\ finding'[e] = LocalEvidence(e)
    BY <2>1, Zenon DEF TickInv
  <2>4. \A d \in Effects : /\ finding'[d] \in {"none", "confirmed", "inconclusive"}
                           /\ finding'[d] = "confirmed" => receipt[d] = "provider"
    BY <1>0, <2>2, <2>3, Zenon
  <2> QED BY <2>1, <2>4, QuietStep, Zenon
<1>5. ASSUME NEW e \in Effects, ProbeAnswers(e) PROVE Rest'
  <2>1. finding[e] \in {"confirmed", "inconclusive"}
    BY <1>5, Zenon DEF ProbeAnswers, EvidenceInv
  <2>2. UNCHANGED receipt /\ finding' = [finding EXCEPT ![e] = "none"]
    BY <1>5, Zenon DEF ProbeAnswers
  <2>3. \A d \in Effects : /\ finding'[d] \in {"none", "confirmed", "inconclusive"}
                           /\ finding'[d] = "confirmed" => receipt[d] = "provider"
    BY <1>0, <2>2, Zenon DEF TickInv
  <2>4. CASE UNCHANGED <<effect, attempts>>
    BY <1>0, <2>2, <2>3, <2>4, QuietStep, ZenonT(30) DEF storeVars
  <2>5. ASSUME NEW target \in {"sent", "unknown_nonrepeatable"},
               target = "sent" => finding[e] = "confirmed",
               Transition(e, {"unknown", "unknown_nonrepeatable"}, target, "probe",
                          NoOne)
        PROVE  Rest'
    <3>1. /\ target \in EffectStates \ {"executing"}
          /\ "absent" \notin {"unknown", "unknown_nonrepeatable"}
      BY DEF EffectStates
    <3>2. /\ \A d \in Effects : d # e =>
                effect'[d] = effect[d] /\ attempts'[d] = attempts[d]
          /\ effect'[e].origin = effect[e].origin
          /\ \/ effect'[e] = effect[e] /\ attempts'[e] = attempts[e]
             \/ /\ State(e) \in {"unknown", "unknown_nonrepeatable"}
                /\ effect'[e].state = target
                /\ State(e) # "executing" => attempts'[e] = attempts[e]
      BY <2>5, <3>1, TransitionFacts, ZenonT(30)
    <3>3. target = "sent" => receipt[e] = "provider"
      BY <1>0, <2>5, ZenonT(30)
    <3>4. \A d \in Effects :
            \/ effect'[d] = effect[d] /\ attempts'[d] = attempts[d]
            \/ /\ State(d) \in {"unknown", "unknown_nonrepeatable"}
               /\ effect'[d].origin = effect[d].origin
               /\ attempts'[d] = attempts[d]
               /\ \/ effect'[d].state = "unknown_nonrepeatable"
                  \/ effect'[d].state = "sent" /\ receipt[d] = "provider"
      BY <3>2, <3>3, Zenon
    <3> QED BY <1>0, <2>2, <2>3, <3>4, VerdictStep, Zenon
  <2>6. \/ UNCHANGED <<effect, attempts>>
        \/ /\ finding[e] = "confirmed"
           /\ Transition(e, {"unknown", "unknown_nonrepeatable"}, "sent", "probe",
                         NoOne)
        \/ Transition(e, {"unknown", "unknown_nonrepeatable"},
                      "unknown_nonrepeatable", "probe", NoOne)
    BY <1>5, <2>1, Zenon DEF ProbeAnswers
  <2> QED BY <2>4, <2>5, <2>6, Zenon
<1> QED BY <1>1, <1>2, <1>3, <1>4, <1>5, Zenon DEF ReconcilerNext

\* Outside the reconciler and the operator, nobody moves what a tick may have
\* listed: the gateway's compare-and-sets expect queued or executing.
LEMMA GatewayLeavesListed ==
    ASSUME OutboxInv, GatewayNext, NEW e \in Effects, State(e) \in Listed
    PROVE  effect'[e] = effect[e]
<1> USE DEF OutboxInv
<1>0. effect \in [Effects -> Row] /\ State(e) \notin {"absent", "queued", "executing"}
  BY Zenon DEF StoreInv, Listed
<1>1. ASSUME NEW d, NEW target, NEW kind, NEW w,
             \/ Transition(d, {"queued"}, target, kind, w)
             \/ Transition(d, {"executing"}, target, kind, w)
      PROVE  effect'[e] = effect[e]
  <2>1. CASE effect' = effect
    BY <2>1, Zenon
  <2>2. CASE effect' # effect
    <3>1. /\ State(d) \in {"queued", "executing"}
          /\ effect' = [effect EXCEPT ![d] = Moved(effect[d], target)]
      BY <1>1, <2>2, ZenonT(30) DEF Transition
    <3> QED BY <1>0, <3>1
  <2> QED BY <2>1, <2>2, Zenon
<1>2. ASSUME NEW t \in Tasks, NEW d \in Effects, Submit(t, d)
      PROVE  effect'[e] = effect[e]
  BY <1>0, <1>2, Zenon DEF Submit, EnqueueEffect
<1>3. ASSUME NEW t \in Tasks, Claim(t) PROVE effect'[e] = effect[e]
  BY <1>0, <1>3, Zenon DEF Claim, ClaimEffect
<1>4. ASSUME NEW t \in Tasks,
             \/ SendAttemptRefused(t) \/ CallTransport(t) \/ WriteCommand(t)
             \/ NextCommand(t)
      PROVE  effect'[e] = effect[e]
  BY <1>4, Zenon DEF SendAttemptRefused, CallTransport, WriteCommand, NextCommand, storeVars
<1>5. ASSUME NEW t \in Tasks,
             \/ CapacityBlock(t) \/ NotExecuted(t) \/ TransportReturned(t)
      PROVE  effect'[e] = effect[e]
  BY <1>1, <1>5, ZenonT(30) DEF CapacityBlock, NotExecuted, TransportReturned
<1>6. ASSUME NEW t \in Tasks,
             \/ FinishSent(t) \/ RefusedBeforeDispatch(t)
             \/ ForwardUnavailable(t) \/ Unproven(t)
      PROVE  effect'[e] = effect[e]
  BY <1>1, <1>6, ZenonT(30) DEF FinishSent, RefusedBeforeDispatch, ForwardUnavailable, Unproven
<1>7. ASSUME NEW d \in Effects, CancelQueued(d) PROVE effect'[e] = effect[e]
  BY <1>1, <1>7, Zenon DEF CancelQueued
<1> QED BY <1>2, <1>3, <1>4, <1>5, <1>6, <1>7, Zenon DEF GatewayNext

\* A listed effect stays unknown, escalated or sent while its tick runs.
LEMMA TickStep ==
    ASSUME OutboxInv, [Next]_vars PROVE TickInv'
<1> USE DEF OutboxInv
<1>0. /\ effect \in [Effects -> Row]
      /\ tick \in [at : 0..MaxTime, todo : SUBSET Effects]
      /\ \A d \in tick.todo : d \in Effects /\ State(d) \in Listed
      /\ finding \in [Effects -> ProbeOutcomes \cup {"none"}]
  BY DEF TickInv, StoreInv
<1>1. ASSUME tick' = tick, finding' = finding,
             \A d \in tick.todo : effect'[d] = effect[d]
                                  \/ effect'[d].state \in Listed
      PROVE  TickInv'
  BY <1>0, <1>1, Zenon DEF TickInv, State
<1>2. ASSUME TickBegins PROVE TickInv'
  <2>1. PICK candidates :
          /\ candidates = {d \in Effects : effect'[d].state = "unknown"}
          /\ tick' = IF candidates = {} THEN NoTick
                     ELSE [at |-> now, todo |-> candidates]
    BY <1>2, ZenonT(30) DEF TickBegins
  <2>2. now \in 0..MaxTime /\ 0 \in 0..MaxTime /\ finding' = finding
    <3>1. now \in 0..MaxTime
      BY Zenon DEF StoreInv
    <3>2. 0 \in 0..MaxTime
      <4> HIDE DEF OutboxInv
      <4> QED BY EffectStoreAssumption
    <3>3. finding' = finding
      BY <1>2, Zenon DEF TickBegins
    <3> QED BY <3>1, <3>2, <3>3, Zenon
  <2>3. /\ tick' \in [at : 0..MaxTime, todo : SUBSET Effects]
        /\ tick'.todo \subseteq candidates
    BY <2>1, <2>2, Zenon DEF NoTick
  <2> QED BY <1>0, <2>1, <2>2, <2>3, Zenon DEF TickInv, State, Listed
<1>3. ASSUME NEW e \in Effects, CandidateDone(e),
             finding' \in [Effects -> ProbeOutcomes \cup {"none"}],
             \A d \in tick.todo : effect'[d] = effect[d]
                                  \/ effect'[d].state \in Listed
      PROVE  TickInv'
  <2>1. /\ tick' \in [at : 0..MaxTime, todo : SUBSET Effects]
        /\ tick'.todo \subseteq tick.todo
    BY <1>0, <1>3, EffectStoreAssumption DEF CandidateDone, NoTick
  <2> QED BY <1>0, <1>3, <2>1, Zenon DEF TickInv, State
<1>4. ASSUME NEW e \in Effects, NEW target \in Listed, NEW expected, NEW kind,
             Transition(e, expected, target, kind, NoOne)
      PROVE  \A d \in tick.todo : effect'[d] = effect[d]
                                  \/ effect'[d].state \in Listed
  <2>1. Moved(effect[e], target).state = target
    BY <1>0, Zenon DEF Moved, Row
  <2>2. effect' = effect \/ effect' = [effect EXCEPT ![e] = Moved(effect[e], target)]
    BY <1>4 DEF Transition
  <2> QED BY <1>0, <1>4, <2>1, <2>2, Zenon
<1>5. CASE Gateway
  BY <1>0, <1>1, <1>5, GatewayLeavesListed, Zenon DEF Gateway, reconcilerVars
<1>6. CASE Reconcile
  <2>1. ASSUME NEW e \in Effects, EscalateUnplanned(e) \/ EscalateOverdue(e)
        PROVE  TickInv'
    <3>1. /\ Transition(e, {"unknown"}, "unknown_nonrepeatable", "probe", NoOne)
          /\ CandidateDone(e) /\ finding' = finding
      BY <2>1, Zenon DEF EscalateUnplanned, EscalateOverdue, Escalate
    <3>2. "unknown_nonrepeatable" \in Listed
      BY DEF Listed
    <3>3. \A d \in tick.todo : effect'[d] = effect[d] \/ effect'[d].state \in Listed
      BY <1>4, <3>1, <3>2, Zenon
    <3> QED BY <1>0, <1>3, <3>1, <3>3, Zenon
  <2>2. ASSUME NEW e \in Effects, WaitForProbe(e) PROVE TickInv'
    <3>1. CandidateDone(e) /\ finding' = finding /\ effect' = effect
      BY <2>2, ZenonT(30) DEF WaitForProbe, storeVars
    <3> QED BY <1>0, <1>3, <3>1, Zenon
  <2>3. ASSUME NEW e \in Effects, StartProbe(e) PROVE TickInv'
    <3>1. LocalEvidence(e) \in ProbeOutcomes \cup {"none"}
      BY DEF LocalEvidence, ProbeOutcomes
    <3>2. /\ finding' \in [Effects -> ProbeOutcomes \cup {"none"}]
          /\ UNCHANGED <<tick, effect>>
      BY <1>0, <2>3, <3>1, ZenonT(30) DEF StartProbe, storeVars
    <3> QED BY <1>0, <3>2, Zenon DEF TickInv, State
  <2>4. ASSUME NEW e \in Effects, ProbeAnswers(e) PROVE TickInv'
    <3>1. finding[e] \in {"confirmed", "inconclusive"}
      BY <2>4, Zenon DEF ProbeAnswers, EvidenceInv
    <3>2. \/ effect' = effect
          \/ Transition(e, {"unknown", "unknown_nonrepeatable"}, "sent", "probe", NoOne)
          \/ Transition(e, {"unknown", "unknown_nonrepeatable"},
                        "unknown_nonrepeatable", "probe", NoOne)
      BY <2>4, <3>1, Zenon DEF ProbeAnswers
    <3>3. CandidateDone(e) /\ finding' = [finding EXCEPT ![e] = "none"]
      BY <2>4 DEF ProbeAnswers
    <3>4. finding' \in [Effects -> ProbeOutcomes \cup {"none"}]
      BY <1>0, <3>3, Zenon
    <3>5. \A d \in tick.todo : effect'[d] = effect[d] \/ effect'[d].state \in Listed
      BY <1>4, <3>2, Zenon DEF Listed
    <3> QED BY <1>3, <3>3, <3>4, <3>5, Zenon
  <2> QED BY <1>2, <1>6, <2>1, <2>2, <2>3, <2>4, Zenon DEF Reconcile, ReconcilerNext
<1>7. CASE Operator
  <2>1. PICK e \in Effects : OperatorConfirms(e)
    BY <1>7, Zenon DEF Operator
  <2>2. /\ Transition(e, {"unknown_nonrepeatable"}, "sent", "operator", NoOne)
        /\ UNCHANGED reconcilerVars
    BY <2>1 DEF OperatorConfirms
  <2> QED BY <1>1, <1>4, <2>2, Zenon DEF reconcilerVars, Listed
<1>8. CASE Restart
  BY <1>2, <1>8, Zenon DEF Restart
<1>9. CASE Crash
  <2>1. tick' = NoTick /\ finding' = [e \in Effects |-> "none"]
    BY <1>9, Zenon DEF Crash
  <2>2. 0 \in 0..MaxTime
    BY EffectStoreAssumption
  <2>3. NoTick \in [at : 0..MaxTime, todo : SUBSET Effects] /\ NoTick.todo = {}
    BY <2>2, Zenon DEF NoTick
  <2>4. finding' \in [Effects -> ProbeOutcomes \cup {"none"}]
    BY <2>1, Zenon
  <2> QED BY <2>1, <2>3, <2>4, Zenon DEF TickInv
<1>10. CASE Provider \/ Clock \/ StartupDone \/ UNCHANGED vars
  BY <1>1, <1>10, Zenon DEF Provider, ProviderAccepts, Clock, Tick, StartupDone, vars,
     storeVars, reconcilerVars
<1>11. CASE RestartFails
  <2>1. RecoverExecuting /\ tick' = tick /\ finding' = finding
    BY <1>11, Zenon DEF RestartFails, TickCutShort
  <2>2. \A d \in Effects : effect'[d] = effect[d] \/ effect'[d].state = "unknown"
    BY <2>1, RecoveryFacts, Zenon
  <2> QED BY <1>0, <1>1, <2>1, <2>2, Zenon DEF Listed
<1> QED BY <1>5, <1>6, <1>7, <1>8, <1>9, <1>10, <1>11, Zenon DEF Next

\* An operator's word counts as proof of its own kind.
LEMMA OperatorKeeps ==
    ASSUME OutboxInv, Operator PROVE Rest'
<1> USE DEF OutboxInv
<1>1. PICK e \in Effects : OperatorConfirms(e) /\ operator' = operator \cup {e}
  BY Zenon DEF Operator
<1>2. /\ Transition(e, {"unknown_nonrepeatable"}, "sent", "operator", NoOne)
      /\ UNCHANGED <<receipt, finding, gatewayVars, providerVars>>
  BY <1>1, Zenon DEF OperatorConfirms, Operator, reconcilerVars
<1>3. /\ "sent" \in EffectStates \ {"executing"}
      /\ "absent" \notin {"unknown_nonrepeatable"}
  BY DEF EffectStates
<1>4. /\ \A d \in Effects : d # e =>
            effect'[d] = effect[d] /\ attempts'[d] = attempts[d]
      /\ effect'[e].origin = effect[e].origin
      /\ \/ effect'[e] = effect[e] /\ attempts'[e] = attempts[e]
         \/ /\ State(e) \in {"unknown_nonrepeatable"} /\ effect'[e].state = "sent"
            /\ State(e) # "executing" => attempts'[e] = attempts[e]
  BY <1>2, <1>3, TransitionFacts, ZenonT(30)
<1>5. \A d \in Effects :
        \/ effect'[d] = effect[d] /\ attempts'[d] = attempts[d]
        \/ /\ State(d) = "unknown_nonrepeatable"
           /\ effect'[d].origin = effect[d].origin
           /\ attempts'[d] = attempts[d]
           /\ effect'[d].state = "sent" /\ d \in operator'
  BY <1>1, <1>4, Zenon
<1>6. /\ \A d \in Effects : /\ finding'[d] \in {"none", "confirmed", "inconclusive"}
                            /\ finding'[d] = "confirmed" => receipt[d] = "provider"
      /\ operator \subseteq operator' /\ operator' \subseteq Effects
  BY <1>1, <1>2, Zenon DEF EvidenceInv
<1> QED BY <1>2, <1>5, <1>6, VerdictStep, Zenon

\* The invariant is inductive.
LEMMA OutboxNextInv == OutboxInv /\ [Next]_vars => OutboxInv'
<1> SUFFICES ASSUME OutboxInv, [Next]_vars PROVE OutboxInv'
  BY Zenon
<1>1. StoreInv'
  BY OutboxIsStoreStep, StoreNextInv, Zenon DEF OutboxInv
<1>2. Rest'
  <2>1. CASE Gateway
    BY <2>1, GatewayKeeps, Zenon DEF Gateway, reconcilerVars
  <2>2. CASE Reconcile
    BY <2>2, ReconcilerKeeps, Zenon DEF Reconcile
  <2>3. CASE Provider
    BY <2>3, ProviderStep, Zenon DEF Provider, reconcilerVars
  <2>4. CASE Operator
    BY <2>4, OperatorKeeps, Zenon
  <2>5. CASE Crash
    BY <2>5, CrashKeeps, Zenon
  <2>6. CASE Restart
    BY <2>6, ReconcilerKeeps, Zenon DEF Restart, ReconcilerNext
  <2>7. CASE Clock \/ StartupDone \/ UNCHANGED vars
    <3>1. UNCHANGED <<storeVars, gatewayVars, providerVars, operator, finding>>
      BY <2>7, Zenon DEF Clock, Tick, StartupDone, vars, reconcilerVars
    <3>2. \A e \in Effects : /\ finding'[e] \in {"none", "confirmed", "inconclusive"}
                             /\ finding'[e] = "confirmed" => receipt[e] = "provider"
      BY <3>1, Zenon DEF OutboxInv, EvidenceInv
    <3> QED BY <3>1, <3>2, QuietStep, Zenon
  <2>8. CASE RestartFails
    BY <2>8, RecoveryKeeps, Zenon DEF RestartFails, TickCutShort
  <2> QED BY <2>1, <2>2, <2>3, <2>4, <2>5, <2>6, <2>7, <2>8, Zenon DEF Next
<1>3. SubmittedInv' /\ TickInv'
  BY <1>2, SubmittedStep, TickStep, Zenon DEF Rest
<1> QED BY <1>1, <1>2, <1>3, Zenon DEF OutboxInv, Rest

\* Every reachable state satisfies it.
LEMMA OutboxInvariance == Spec => []OutboxInv
<1> QED BY OutboxInitInv, OutboxNextInv, PTL DEF Spec

-----------------------------------------------------------------------------
\* Theorems

\* Gateway, reconciler, operator, crashes and restarts together use the tables
\* of store.py only as any caller may: the outbox implements StoreSpec.
THEOREM OutboxUsesStore == Spec => UsesStore
<1>1. Init => StoreInit
  BY Zenon DEF Init
<1>2. OutboxInv /\ [Next]_vars => [StoreNext]_<<now, storeVars>>
  BY OutboxIsStoreStep
<1> QED BY <1>1, <1>2, OutboxInvariance, PTL DEF Spec, UsesStore, StoreSpec

\* What execute_ready reports to its caller is backed by the store, on either
\* channel: a reply of sent by the state of the row.
THEOREM RepliesAreBacked == Spec => []ReplySentIsTrue
<1>1. OutboxInv => ReplySentIsTrue
  BY Zenon DEF OutboxInv, CallInv, ReplySentIsTrue
<1> QED BY <1>1, OutboxInvariance, PTL

\* What execute_ready, the recoveries and the probes write for a participation
\* effect is backed by a receipt, unless an operator vouched for it.
THEOREM ParticipationIsReceipted == Spec => []ParticipationNeedsReceipt
<1>1. OutboxInv => ParticipationNeedsReceipt
  BY Zenon DEF OutboxInv, WireInv, ParticipationNeedsReceipt
<1> QED BY <1>1, OutboxInvariance, PTL

\* For the WhatsApp send, over any number of tasks, crashes, retries and
\* recoveries, the commands of an effect go out at most once.
THEOREM WhatsAppAtMostOnce ==
    ASSUME Channel = "whatsapp" PROVE Spec => []AtMostOnce
<1>1. OutboxInv => AtMostOnce
  BY Zenon DEF OutboxInv, WireInv, AtMostOnce
<1> QED BY <1>1, OutboxInvariance, PTL

\* For the WhatsApp send, an effect in state sent has been accepted by the
\* provider command by command, unless an operator vouched for it.
THEOREM WhatsAppSentIsTrue ==
    ASSUME Channel = "whatsapp" PROVE Spec => []SentIsTrue
<1>1. OutboxInv => SentIsTrue
  BY DEF OutboxInv, WireInv, SentIsTrue
<1> QED BY <1>1, OutboxInvariance, PTL

\* Where a send consists of one command, or is a Telegram send, a state that
\* says the effect did not run is right: is_pre_dispatch_error and the refusals
\* before the claim leave no command out and no task inside the transport call.
THEOREM NotRunVerdictsAreTrue ==
    ASSUME Channel = "telegram" \/ Parts = 1 PROVE Spec => []NotRunIsTrue
<1>1. OutboxInv => NotRunIsTrue
  BY DEF OutboxInv, ClaimInv, RefusalInv, NotRunIsTrue, NotRunStates, Untouched,
         Overtaken, Inside
<1> QED BY <1>1, OutboxInvariance, PTL

-----------------------------------------------------------------------------
\* The contract

\* The verdicts the states stand for.
LEMMA VerdictFacts ==
    /\ VerdictOf("sent") = "delivered"
    /\ VerdictOf("unknown_nonrepeatable") = "undecided"
    /\ \A s \in NotRunStates : VerdictOf(s) = "notrun"
    /\ \A s \in {"absent", "planned", "queued", "executing", "unknown"} :
          VerdictOf(s) = "open"
BY ZenonT(30) DEF VerdictOf, NotRunStates

\* One effect's state changes and nothing is issued or performed.
LEMMA ConcludeStep ==
    ASSUME OutboxInv', Parts = 1, NEW e \in Effects,
           UNCHANGED providerVars,
           \A d \in Effects : d # e => effect'[d].state = effect[d].state,
           \/ VerdictOf(effect'[e].state) = VerdictOf(State(e))
           \/ /\ VerdictOf(State(e)) = "open"
              /\ \/ effect'[e].state \in NotRunStates
                 \/ effect'[e].state = "sent" /\ accepted[e] = Parts
                 \/ effect'[e].state = "unknown_nonrepeatable"
           \/ State(e) = "unknown_nonrepeatable" /\ effect'[e].state = "sent"
    PROVE  [Contract!ContractNext]_(Contract!contractVars)
<1> DEFINE V == [d \in Effects |-> VerdictOf(State(d))]
           W == [d \in Effects |-> VerdictOf(effect'[d].state)]
<1>1. W = [V EXCEPT ![e] = VerdictOf(effect'[e].state)] /\ V[e] = VerdictOf(State(e))
  BY Zenon DEF State
<1>2. frames' = frames /\ accepted' = accepted
  BY Zenon DEF providerVars
<1>3. effect'[e].state \in NotRunStates => frames[e] = 0
  BY <1>2, ZenonT(30) DEF OutboxInv, ClaimInv, RefusalInv, NotRunStates, Untouched, State
<1>4. CASE VerdictOf(effect'[e].state) = VerdictOf(State(e))
  <2>1. W = V
    BY <1>4, ZenonT(30) DEF State
  <2> QED BY <1>2, <2>1, Zenon DEF Contract!contractVars, State
<1>5. CASE VerdictOf(State(e)) = "open" /\ effect'[e].state \in NotRunStates
  <2>1. Contract!Refuse(e)
    BY <1>1, <1>2, <1>3, <1>5, VerdictFacts, ZenonT(30)
       DEF Contract!Refuse, Contract!Conclude, State
  <2> QED BY <2>1, Zenon DEF Contract!ContractNext
<1>6. CASE VerdictOf(State(e)) = "open" /\ effect'[e].state = "sent"
           /\ accepted[e] = Parts
  <2>1. Contract!Deliver(e)
    BY <1>1, <1>2, <1>6, VerdictFacts, ZenonT(30)
       DEF Contract!Deliver, Contract!Conclude, State
  <2> QED BY <2>1, Zenon DEF Contract!ContractNext
<1>7. CASE VerdictOf(State(e)) = "open"
           /\ effect'[e].state = "unknown_nonrepeatable"
  <2>1. Contract!GiveUp(e)
    BY <1>1, <1>2, <1>7, VerdictFacts, ZenonT(30)
       DEF Contract!GiveUp, Contract!Conclude, State
  <2> QED BY <2>1, Zenon DEF Contract!ContractNext
<1>8. CASE State(e) = "unknown_nonrepeatable" /\ effect'[e].state = "sent"
  <2>1. Contract!Vouch(e)
    BY <1>1, <1>2, <1>8, VerdictFacts, ZenonT(30)
       DEF Contract!Vouch, Contract!Conclude, State
  <2> QED BY <2>1, Zenon DEF Contract!ContractNext
<1> QED BY <1>4, <1>5, <1>6, <1>7, <1>8, Zenon

\* The same for a compare-and-set, hit or missed.
LEMMA TransitionConcludes ==
    ASSUME OutboxInv, OutboxInv', Parts = 1, NEW e \in Effects,
           NEW target \in EffectStates \ {"executing"},
           NEW expected, "absent" \notin expected, NEW kind, NEW w,
           Transition(e, expected, target, kind, w), UNCHANGED providerVars,
           \A s \in expected :
              \/ /\ s \in {"queued", "executing", "unknown"}
                 /\ \/ target \in NotRunStates
                    \/ target \in {"unknown", "unknown_nonrepeatable"}
                    \/ target = "sent" /\ accepted[e] = Parts
              \/ /\ s = "unknown_nonrepeatable"
                 /\ target \in {"sent", "unknown_nonrepeatable"}
    PROVE  [Contract!ContractNext]_(Contract!contractVars)
<1>1. /\ \A d \in Effects : d # e => effect'[d].state = effect[d].state
      /\ \/ effect'[e] = effect[e]
         \/ State(e) \in expected /\ effect'[e].state = target
  BY TransitionFacts, ZenonT(30) DEF OutboxInv
<1>2. CASE effect'[e] = effect[e]
  BY <1>1, <1>2, ConcludeStep, ZenonT(30) DEF State
<1>3. CASE State(e) \in expected /\ effect'[e].state = target
  <2>1. State(e) \in {"queued", "executing", "unknown"} => VerdictOf(State(e)) = "open"
    BY VerdictFacts, Zenon
  <2>2. "unknown" \in {"absent", "planned", "queued", "executing", "unknown"}
    BY Zenon
  <2>3. target = "unknown" => VerdictOf(effect'[e].state) = "open"
    BY <1>3, <2>2, VerdictFacts, Zenon
  <2> QED BY <1>1, <1>3, <2>1, <2>3, ConcludeStep, Zenon
<1> QED BY <1>1, <1>2, <1>3, Zenon

\* Nothing the contract sees changes.
LEMMA ContractStutters ==
    ASSUME UNCHANGED providerVars,
           \A d \in Effects : VerdictOf(effect'[d].state) = VerdictOf(State(d))
    PROVE  [Contract!ContractNext]_(Contract!contractVars)
<1>1. [d \in Effects |-> VerdictOf(State(d))]'
        = [d \in Effects |-> VerdictOf(State(d))]
  BY DEF State
<1> QED BY <1>1, Zenon DEF Contract!contractVars, providerVars

\* Every gateway step is a step of the contract.
LEMMA GatewayKeepsContract ==
    ASSUME OutboxInv, OutboxInv', Channel = "whatsapp", Parts = 1, GatewayNext
    PROVE  [Contract!ContractNext]_(Contract!contractVars)
<1> DEFINE Goal == [Contract!ContractNext]_(Contract!contractVars)
<1>0. /\ \A t \in Tasks : op[t] \in Effects
      /\ effect \in [Effects -> Row]
      /\ frames \in [Effects -> Nat] /\ accepted \in [Effects -> Nat]
  BY DEF OutboxInv, GatewayTypeOK, StoreInv
<1>1. ASSUME UNCHANGED <<effect, providerVars>> PROVE Goal
  BY <1>1, ContractStutters, Zenon DEF State
<1>2. ASSUME NEW e \in Effects, NEW target \in DeniedStates, NEW kind,
             Transition(e, {"queued"}, target, kind, NoOne), UNCHANGED providerVars
      PROVE  Goal
  <2>1. /\ target \in EffectStates \ {"executing"} /\ "absent" \notin {"queued"}
        /\ target \in NotRunStates
    BY DEF DeniedStates, EffectStates, NotRunStates
  <2>2. \A s \in {"queued"} :
              \/ /\ s \in {"queued", "executing", "unknown"}
                 /\ \/ target \in NotRunStates
                    \/ target \in {"unknown", "unknown_nonrepeatable"}
                    \/ target = "sent" /\ accepted[e] = Parts
              \/ /\ s = "unknown_nonrepeatable"
                 /\ target \in {"sent", "unknown_nonrepeatable"}
    BY <2>1, Zenon
  <2> QED BY <1>2, <2>1, <2>2, TransitionConcludes
<1>3. ASSUME NEW e \in Effects, NEW target \in {"failed", "unknown", "sent"}, NEW kind,
             Transition(e, {"executing"}, target, kind, worker),
             UNCHANGED providerVars, target = "sent" => accepted[e] = Parts
      PROVE  Goal
  <2>1. /\ target \in EffectStates \ {"executing"} /\ "absent" \notin {"executing"}
        /\ target # "sent" => target = "unknown" \/ target \in NotRunStates
    BY Zenon DEF EffectStates, NotRunStates
  <2>2. \A s \in {"executing"} :
              \/ /\ s \in {"queued", "executing", "unknown"}
                 /\ \/ target \in NotRunStates
                    \/ target \in {"unknown", "unknown_nonrepeatable"}
                    \/ target = "sent" /\ accepted[e] = Parts
              \/ /\ s = "unknown_nonrepeatable"
                 /\ target \in {"sent", "unknown_nonrepeatable"}
    BY <1>3, <2>1, Zenon
  <2> QED BY <1>3, <2>1, <2>2, TransitionConcludes
<1>4. ASSUME NEW t \in Tasks, NEW e \in Effects, Submit(t, e) PROVE Goal
  <2>1. PICK origin, expires : EnqueueEffect(e, origin, expires)
    BY <1>4, ZenonT(30) DEF Submit
  <2>2. UNCHANGED providerVars
    BY <1>4, Zenon DEF Submit
  <2>3. CASE State(e) # "absent"
    BY <1>1, <2>1, <2>2, <2>3, Zenon DEF EnqueueEffect
  <2>4. CASE State(e) = "absent"
    <3>1. /\ effect'[e].state \in {"queued", "expired"}
          /\ \A d \in Effects : d # e => effect'[d].state = effect[d].state
      BY <1>0, <2>1, <2>4, Zenon DEF EnqueueEffect
    <3>2. /\ VerdictOf(State(e)) = "open" /\ VerdictOf("queued") = "open"
          /\ "expired" \in NotRunStates
      BY <2>4, VerdictFacts, Zenon DEF NotRunStates
    <3> QED BY <2>2, <3>1, <3>2, ConcludeStep, ZenonT(30)
  <2> QED BY <2>3, <2>4, ZenonT(30)
<1>5. ASSUME NEW t \in Tasks,
             SendAttemptRefused(t) \/ CallTransport(t) \/ NextCommand(t)
      PROVE  Goal
  BY <1>1, <1>5, Zenon DEF SendAttemptRefused, CallTransport, NextCommand, storeVars
<1>6. ASSUME NEW t \in Tasks, CapacityBlock(t) \/ NotExecuted(t) PROVE Goal
  <2>1. UNCHANGED providerVars
    BY <1>6, ZenonT(30) DEF CapacityBlock, NotExecuted
  <2>2. \/ UNCHANGED effect
        \/ \E target \in DeniedStates :
              Transition(op[t], {"queued"}, target, "policy", NoOne)
    BY <1>6, Zenon DEF CapacityBlock, NotExecuted, DeniedStates
  <2> QED BY <1>0, <1>1, <1>2, <2>1, <2>2, Zenon
<1>7. ASSUME NEW e \in Effects, CancelQueued(e) PROVE Goal
  BY <1>2, <1>7, ZenonT(30) DEF CancelQueued, DeniedStates
<1>8. ASSUME NEW t \in Tasks, Claim(t) PROVE Goal
  <2>1. /\ effect'[op[t]].state = "executing" /\ State(op[t]) = "queued"
        /\ \A d \in Effects : d # op[t] => effect'[d].state = effect[d].state
        /\ UNCHANGED providerVars
    BY <1>0, <1>8, Zenon DEF Claim, ClaimEffect, Row
  <2>2. VerdictOf("executing") = "open" /\ VerdictOf("queued") = "open"
    BY VerdictFacts
  <2> QED BY <1>0, <2>1, <2>2, ConcludeStep, Zenon
<1>9. ASSUME NEW t \in Tasks, WriteCommand(t) PROVE Goal
  <2>1. /\ frames' = [frames EXCEPT ![op[t]] = @ + 1]
        /\ UNCHANGED <<effect, accepted>> /\ pc[t] = "calling"
    BY <1>9, Zenon DEF WriteCommand, storeVars
  <2>2. frames[op[t]] < Parts
    BY <1>0, <2>1, ZenonT(30) DEF OutboxInv, CallInv, WireInv
  <2>3. VerdictOf(State(op[t])) # "notrun"
    <3>1. State(op[t]) \in Overtaken
      BY <2>1, ZenonT(30) DEF OutboxInv, ClaimInv, Inside
    <3> QED BY <3>1, VerdictFacts DEF Overtaken
  <2>4. Contract!Issue(op[t])
    BY <1>0, <2>1, <2>2, <2>3, Zenon DEF Contract!Issue, State
  <2> QED BY <1>0, <2>4, Zenon DEF Contract!ContractNext
<1>10. ASSUME NEW t \in Tasks, TransportReturned(t) PROVE Goal
  <2>1. /\ UNCHANGED providerVars
        /\ \/ UNCHANGED effect
           \/ Transition(op[t], {"executing"}, "unknown", "dispatch_unknown", worker)
    BY <1>10, ZenonT(30) DEF TransportReturned
  <2> QED BY <1>0, <1>1, <1>3, <2>1, Zenon
<1>11. ASSUME NEW t \in Tasks, FinishSent(t) PROVE Goal
  <2>1. /\ UNCHANGED providerVars /\ pc[t] = "acked"
        /\ Transition(op[t], {"executing"}, "sent", "transport", worker)
    BY <1>11, Zenon DEF FinishSent
  <2>2. accepted[op[t]] = Parts
    BY <2>1, Zenon DEF OutboxInv, WireInv
  <2> QED BY <1>0, <1>3, <2>1, <2>2, ZenonT(30)
<1>12. ASSUME NEW t \in Tasks, RefusedBeforeDispatch(t) \/ Unproven(t) PROVE Goal
  <2>1. /\ UNCHANGED providerVars
        /\ \/ Transition(op[t], {"executing"}, "failed", "not_executed", worker)
           \/ Transition(op[t], {"executing"}, "unknown", "dispatch_unknown", worker)
    BY <1>12, Zenon DEF RefusedBeforeDispatch, Unproven
  <2> QED BY <1>0, <1>3, <2>1, Zenon
<1>13. ASSUME NEW t \in Tasks, ForwardUnavailable(t) PROVE Goal
  <2> DEFINE e == op[t]
  <2>1. /\ accepted[e] < frames[e] /\ UNCHANGED accepted
        /\ frames' = [frames EXCEPT ![e] = @ - 1] /\ e \in Effects
        /\ Transition(e, {"executing"}, "failed", "not_executed", worker)
    BY <1>0, <1>13, Zenon DEF ForwardUnavailable
  <2>2. "failed" \in EffectStates \ {"executing"} /\ "absent" \notin {"executing"}
    BY DEF EffectStates
  <2>3. /\ \A d \in Effects : d # e => effect'[d].state = effect[d].state
        /\ \/ effect'[e] = effect[e]
           \/ State(e) \in {"executing"} /\ effect'[e].state = "failed"
    BY <2>1, <2>2, TransitionFacts, Zenon DEF OutboxInv
  <2> HIDE DEF e
  <2> DEFINE V == [d \in Effects |-> VerdictOf(State(d))]
             W == [d \in Effects |-> VerdictOf(effect'[d].state)]
  <2>4. CASE effect'[e] = effect[e]
    <3>1. W = V
      BY <2>3, <2>4, Zenon DEF State
    <3>2. Contract!Drop(e)
      BY <2>1, <3>1, Zenon DEF Contract!Drop, State
    <3> QED BY <2>1, <3>2 DEF Contract!ContractNext
  <2>5. CASE State(e) = "executing" /\ effect'[e].state = "failed"
    <3>1. VerdictOf("executing") = "open" /\ VerdictOf("failed") = "notrun"
      BY VerdictFacts DEF NotRunStates
    <3>2. W = [V EXCEPT ![e] = "notrun"] /\ V[e] = "open"
      BY <2>1, <2>3, <2>5, <3>1, ZenonT(30) DEF State
    <3>3. frames'[e] = 0
      BY <2>1, <2>5, Zenon DEF OutboxInv, RefusalInv, State
    <3>4. Contract!Drop(e)
      BY <2>1, <3>2, <3>3, Zenon DEF Contract!Drop, Contract!Conclude, State
    <3> QED BY <2>1, <3>4 DEF Contract!ContractNext
  <2> QED BY <2>3, <2>4, <2>5, Zenon
<1> QED BY <1>4, <1>5, <1>6, <1>7, <1>8, <1>9, <1>10, <1>11, <1>12, <1>13, ZenonT(30)
        DEF GatewayNext

\* Recovery reaches no verdict.
LEMMA RecoveryKeepsContract ==
    ASSUME OutboxInv, RecoverExecuting, UNCHANGED providerVars
    PROVE  [Contract!ContractNext]_(Contract!contractVars)
<1>1. \A d \in Effects :
          \/ effect'[d] = effect[d]
          \/ State(d) = "executing" /\ effect'[d].state = "unknown"
  BY RecoveryFacts, Zenon DEF OutboxInv
<1>2. VerdictOf("executing") = "open" /\ VerdictOf("unknown") = "open"
  BY VerdictFacts, Zenon
<1> QED BY <1>1, <1>2, ContractStutters, Zenon DEF State

\* So is every reconciler step.
LEMMA ReconcilerKeepsContract ==
    ASSUME OutboxInv, OutboxInv', Channel = "whatsapp", Parts = 1,
           ReconcilerNext, UNCHANGED providerVars
    PROVE  [Contract!ContractNext]_(Contract!contractVars)
<1> DEFINE Goal == [Contract!ContractNext]_(Contract!contractVars)
<1>1. ASSUME UNCHANGED effect PROVE Goal
  BY <1>1, ContractStutters, Zenon DEF State
<1>2. CASE TickBegins
  BY <1>2, RecoveryKeepsContract, Zenon DEF TickBegins
<1>3. ASSUME NEW e \in Effects, EscalateUnplanned(e) \/ EscalateOverdue(e) PROVE Goal
  <2>1. Transition(e, {"unknown"}, "unknown_nonrepeatable", "probe", NoOne)
    BY <1>3, Zenon DEF EscalateUnplanned, EscalateOverdue, Escalate
  <2>2. /\ "unknown_nonrepeatable" \in EffectStates \ {"executing"}
        /\ "absent" \notin {"unknown"}
        /\ \A s \in {"unknown"} : s \in {"queued", "executing", "unknown"}
    BY DEF EffectStates
  <2> QED BY <2>1, <2>2, TransitionConcludes
<1>4. ASSUME NEW e \in Effects, WaitForProbe(e) \/ StartProbe(e) PROVE Goal
  BY <1>1, <1>4, Zenon DEF WaitForProbe, StartProbe, storeVars
<1>5. ASSUME NEW e \in Effects, ProbeAnswers(e) PROVE Goal
  <2>1. /\ finding[e] \in {"confirmed", "inconclusive"}
        /\ finding[e] = "confirmed" => accepted[e] = Parts
    BY <1>5, Zenon DEF ProbeAnswers, OutboxInv, EvidenceInv, WireInv
  <2>2. \/ UNCHANGED effect
        \/ /\ finding[e] = "confirmed"
           /\ Transition(e, {"unknown", "unknown_nonrepeatable"}, "sent", "probe",
                         NoOne)
        \/ Transition(e, {"unknown", "unknown_nonrepeatable"},
                      "unknown_nonrepeatable", "probe", NoOne)
    BY <1>5, <2>1 DEF ProbeAnswers
  <2>3. /\ "unknown_nonrepeatable" \in EffectStates \ {"executing"}
        /\ "sent" \in EffectStates \ {"executing"}
        /\ "absent" \notin {"unknown", "unknown_nonrepeatable"}
        /\ \A s \in {"unknown", "unknown_nonrepeatable"} :
              \/ s \in {"queued", "executing", "unknown"}
              \/ s = "unknown_nonrepeatable"
    BY Zenon DEF EffectStates
  <2>4. CASE finding[e] = "confirmed"
             /\ Transition(e, {"unknown", "unknown_nonrepeatable"}, "sent", "probe",
                           NoOne)
    BY <2>1, <2>3, <2>4, TransitionConcludes, Zenon
  <2>5. CASE Transition(e, {"unknown", "unknown_nonrepeatable"},
                        "unknown_nonrepeatable", "probe", NoOne)
    BY <2>3, <2>5, TransitionConcludes, Zenon
  <2> QED BY <1>1, <2>2, <2>4, <2>5, Zenon
<1> QED BY <1>2, <1>3, <1>4, <1>5, Zenon DEF ReconcilerNext

\* The step simulation of the contract.
LEMMA OutboxKeepsContract ==
    ASSUME OutboxInv, OutboxInv', Channel = "whatsapp", Parts = 1, [Next]_vars
    PROVE  [Contract!ContractNext]_(Contract!contractVars)
<1>1. CASE Gateway
  BY <1>1, GatewayKeepsContract, Zenon DEF Gateway
<1>2. CASE Reconcile
  BY <1>2, ReconcilerKeepsContract, Zenon DEF Reconcile
<1>3. CASE Provider
  <2>1. PICK e \in Effects : ProviderAccepts(e)
    BY <1>3, ZenonT(30) DEF Provider
  <2>2. Contract!Perform(e)
    BY <2>1, Zenon DEF ProviderAccepts, Contract!Perform, storeVars, State
  <2> QED BY <2>2, Zenon DEF Contract!ContractNext
<1>4. CASE Operator
  <2>1. PICK e \in Effects : OperatorConfirms(e)
    BY <1>4 DEF Operator
  <2>2. /\ Transition(e, {"unknown_nonrepeatable"}, "sent", "operator", NoOne)
        /\ UNCHANGED providerVars
    BY <1>4, <2>1, Zenon DEF Operator, OperatorConfirms
  <2>3. /\ "sent" \in EffectStates \ {"executing"}
        /\ "absent" \notin {"unknown_nonrepeatable"}
        /\ \A s \in {"unknown_nonrepeatable"} : s = "unknown_nonrepeatable"
    BY Zenon DEF EffectStates
  <2> QED BY <2>2, <2>3, TransitionConcludes
<1>5. CASE Restart
  BY <1>5, ReconcilerKeepsContract, Zenon DEF Restart, ReconcilerNext
<1>6. CASE Clock \/ Crash \/ StartupDone \/ UNCHANGED vars
  <2>1. UNCHANGED <<effect, providerVars>>
    BY <1>6, Zenon DEF Clock, Tick, Crash, StartupDone, vars, storeVars
  <2> QED BY <2>1, ContractStutters, Zenon DEF State
<1>7. CASE RestartFails
  BY <1>7, RecoveryKeepsContract, Zenon DEF RestartFails, TickCutShort
<1> QED BY <1>1, <1>2, <1>3, <1>4, <1>5, <1>6, <1>7, Zenon DEF Next

\* For a WhatsApp send of one command the whole outbox, with its leases,
\* probes, tasks and crashes, implements EffectContract.
THEOREM OutboxImplementsContract ==
    ASSUME Channel = "whatsapp", Parts = 1 PROVE Spec => ImplementsContract
<1>1. Init => Contract!ContractInit
  <2> SUFFICES ASSUME Init PROVE Contract!ContractInit
    BY Zenon
  <2>1. \A e \in Effects : State(e) = "absent"
    BY Zenon DEF Init, StoreInit, NoRow, State
  <2>2. \A e \in Effects : VerdictOf(State(e)) = "open"
    BY <2>1, VerdictFacts, Zenon
  <2> QED BY <2>2 DEF Init, GatewayInit, Contract!ContractInit
<1>2. OutboxInv /\ OutboxInv' /\ [Next]_vars
        => [Contract!ContractNext]_(Contract!contractVars)
  BY OutboxKeepsContract, Zenon
<1> QED BY <1>1, <1>2, OutboxInvariance, PTL
        DEF Spec, ImplementsContract, Contract!ContractSpec

-----------------------------------------------------------------------------
\* The questions asked of an effect and the answer that is awaited.  Their
\* dates are in no set that the specification names.
ProbeOf(D) == [due : D, outcome : ProbeOutcomes \cup {"open"},
               owner : {"reconciler", NoOne}, until : D]

PlanOf(p, f) ==
    /\ \E D : p \in Seq(ProbeOf(D))
    /\ f \in ProbeOutcomes \cup {"none"}
    /\ Len(p) <= MaxProbes
    /\ \A k \in 1..Len(p) : p[k].outcome = "open" => k = Len(p)
    /\ f # "none" => /\ Len(p) > 0
                     /\ p[Len(p)].outcome = "open"
                     /\ p[Len(p)].owner = "reconciler"

PlanInv ==
    /\ probes = [e \in Effects |-> probes[e]]
    /\ finding = [e \in Effects |-> finding[e]]
    /\ \A e \in Effects : PlanOf(probes[e], finding[e])

\* Further dates.
LEMMA SeqGrows ==
    ASSUME NEW S, NEW T, \A q \in S : q \in T, NEW p \in Seq(S)
    PROVE  p \in Seq(T)
OBVIOUS

LEMMA DatesGrow ==
    ASSUME NEW D, NEW E, D \subseteq E, NEW p \in Seq(ProbeOf(D))
    PROVE  p \in Seq(ProbeOf(E))
<1>1. \A q \in ProbeOf(D) : q \in ProbeOf(E)
  BY Zenon DEF ProbeOf
<1> QED BY <1>1, SeqGrows, Zenon

\* schedule_probe behind a plan without an open probe.
LEMMA ProbeScheduled ==
    ASSUME NEW p, PlanOf(p, "none"), NEW x, Len(p) + 1 <= MaxProbes,
           \A k \in 1..Len(p) : p[k].outcome # "open"
    PROVE  /\ PlanOf(Append(p, NewProbe(x)), "none")
           /\ Len(Append(p, NewProbe(x))) = Len(p) + 1
           /\ Append(p, NewProbe(x))[Len(p) + 1].outcome = "open"
<1>1. PICK D : p \in Seq(ProbeOf(D))
  BY Zenon DEF PlanOf
<1> DEFINE E == (D \cup {x}) \cup {0}
           n == NewProbe(x)
           q == Append(p, n)
<1>2. p \in Seq(ProbeOf(E)) /\ Len(p) \in Nat
  <2>1. D \subseteq E
    OBVIOUS
  <2> HIDE DEF E
  <2>2. p \in Seq(ProbeOf(E))
    BY <1>1, <2>1, DatesGrow, ZenonT(30)
  <2> QED BY <2>2
<1>3. n \in ProbeOf(E) /\ n.outcome = "open"
  BY Zenon DEF NewProbe, ProbeOf
<1> HIDE DEF n, E
<1>4. /\ q \in Seq(ProbeOf(E))
      /\ Len(q) = Len(p) + 1
      /\ q[Len(p) + 1] = n
      /\ \A k \in 1..Len(p) : q[k] = p[k]
  BY <1>2, <1>3
<1> HIDE DEF q
<1>5. \A k \in 1..Len(q) : q[k].outcome = "open" => k = Len(q)
  <2> SUFFICES ASSUME NEW k \in 1..Len(q), k # Len(q) PROVE q[k].outcome # "open"
    BY Zenon
  <2>1. k \in 1..Len(p)
    BY <1>2, <1>4
  <2> QED BY <1>4, <2>1, Zenon
<1>6. PlanOf(q, "none")
  BY <1>4, <1>5, Zenon DEF PlanOf
<1> QED BY <1>3, <1>4, <1>6, Zenon DEF q, n

\* Writing the newest probe of a plan.
LEMMA NewestWritten ==
    ASSUME NEW D, NEW p \in Seq(ProbeOf(D)), NEW n \in ProbeOf(D), Len(p) > 0
    PROVE  LET q == [p EXCEPT ![Len(p)] = n]
           IN  /\ q \in Seq(ProbeOf(D)) /\ Len(q) = Len(p)
               /\ q[Len(p)] = n
               /\ \A k \in 1..Len(p) : k # Len(p) => q[k] = p[k]
OBVIOUS

\* claim_probe.
LEMMA ProbeClaimed ==
    ASSUME NEW p, PlanOf(p, "none"), Len(p) > 0, p[Len(p)].outcome = "open",
           NEW u, NEW f \in ProbeOutcomes
    PROVE  PlanOf([p EXCEPT ![Len(p)] = [@ EXCEPT !.owner = "reconciler",
                                                  !.until = u]], f)
<1>1. PICK D : p \in Seq(ProbeOf(D))
  BY Zenon DEF PlanOf
<1> DEFINE E == D \cup {u}
           n == [p[Len(p)] EXCEPT !.owner = "reconciler", !.until = u]
           q == [p EXCEPT ![Len(p)] = n]
<1>2. p \in Seq(ProbeOf(E)) /\ Len(p) \in Nat
  <2>1. D \subseteq E
    OBVIOUS
  <2> HIDE DEF E
  <2>2. p \in Seq(ProbeOf(E))
    BY <1>1, <2>1, DatesGrow, Zenon
  <2> QED BY <2>2
<1>3. p[Len(p)] \in ProbeOf(E)
  BY <1>2
<1>4. n \in ProbeOf(E) /\ n.outcome = "open" /\ n.owner = "reconciler"
  BY <1>3, Zenon DEF ProbeOf
<1> HIDE DEF n, E
<1>5. /\ q \in Seq(ProbeOf(E)) /\ Len(q) = Len(p)
      /\ q[Len(p)] = n
      /\ \A k \in 1..Len(p) : k # Len(p) => q[k] = p[k]
  BY <1>2, <1>4, NewestWritten
<1> HIDE DEF q
<1>6. PlanOf(q, f)
  BY <1>4, <1>5, Zenon DEF PlanOf
<1> QED BY <1>6, Zenon DEF q, n

\* finish_probe for the newest probe: nothing is awaited any more.
LEMMA ProbeFinished ==
    ASSUME NEW p, NEW f, PlanOf(p, f), Len(p) > 0, NEW o \in ProbeOutcomes
    PROVE  PlanOf(FinishProbe(p, Len(p), o), "none")
<1>1. PICK D : p \in Seq(ProbeOf(D))
  BY Zenon DEF PlanOf
<1> DEFINE E == D \cup {0}
           n == [p[Len(p)] EXCEPT !.outcome = o, !.owner = NoOne, !.until = 0]
           q == [p EXCEPT ![Len(p)] = n]
<1>2. p \in Seq(ProbeOf(E)) /\ Len(p) \in Nat
  <2>1. D \subseteq E
    OBVIOUS
  <2> HIDE DEF E
  <2>2. p \in Seq(ProbeOf(E))
    BY <1>1, <2>1, DatesGrow, Zenon
  <2> QED BY <2>2
<1>3. p[Len(p)] \in ProbeOf(E)
  BY <1>2
<1>4. n \in ProbeOf(E) /\ n.outcome = o
  BY <1>3, Zenon DEF ProbeOf
<1> HIDE DEF n, E
<1>5. /\ q \in Seq(ProbeOf(E)) /\ Len(q) = Len(p)
      /\ q[Len(p)] = n
      /\ \A k \in 1..Len(p) : k # Len(p) => q[k] = p[k]
  BY <1>2, <1>4, NewestWritten
<1> HIDE DEF q
<1>6. PlanOf(q, "none")
  BY <1>4, <1>5, Zenon DEF PlanOf
<1>7. PlanOf(p, "none")
  BY DEF PlanOf
<1>8. FinishProbe(p, Len(p), o) = q \/ FinishProbe(p, Len(p), o) = p
  BY DEF FinishProbe, q, n
<1> QED BY <1>6, <1>7, <1>8, Zenon

\* open_probe finds the newest probe.
LEMMA OpenIsNewest ==
    ASSUME PlanInv, NEW e \in Effects
    PROVE  /\ OpenProbes(e) \subseteq {Len(probes[e])}
           /\ OpenProbes(e) # {} => /\ OpenProbe(e) = Len(probes[e])
                                    /\ Len(probes[e]) > 0
                                    /\ probes[e][Len(probes[e])].outcome = "open"
           /\ OpenProbes(e) = {} =>
                 \A k \in 1..Len(probes[e]) : probes[e][k].outcome # "open"
<1>1. PICK p : p = probes[e]
  BY Zenon
<1>2. PlanOf(p, finding[e])
  BY <1>1, Zenon DEF PlanInv
<1>3. PICK D : p \in Seq(ProbeOf(D))
  BY <1>2, Zenon DEF PlanOf
<1>4. Len(p) \in Nat /\ DOMAIN p = 1..Len(p)
  BY <1>3
<1>5. OpenProbes(e) = {k \in 1..Len(p) : p[k].outcome = "open"}
  BY <1>1, <1>4, Zenon DEF OpenProbes
<1>6. OpenProbes(e) \subseteq {Len(p)}
  BY <1>2, <1>5, Zenon DEF PlanOf
<1>7. ASSUME OpenProbes(e) # {}
      PROVE  OpenProbe(e) = Len(p) /\ Len(p) > 0 /\ p[Len(p)].outcome = "open"
  <2>1. OpenProbes(e) = {Len(p)}
    BY <1>6, <1>7, Zenon
  <2>2. Len(p) > 0 /\ p[Len(p)].outcome = "open"
    BY <1>4, <1>5, <2>1
  <2>3. OpenProbe(e) = Len(p)
    BY <1>4, <2>1 DEF OpenProbe
  <2> QED BY <2>2, <2>3, Zenon
<1> QED BY <1>1, <1>5, <1>6, <1>7, Zenon

\* A step that changes the plan of one effect.
LEMMA OnePlanChanges ==
    ASSUME PlanInv, NEW e \in Effects, NEW p, NEW f, PlanOf(p, f),
           probes' = [probes EXCEPT ![e] = p],
           finding' = [finding EXCEPT ![e] = f]
    PROVE  PlanInv'
<1>1. /\ probes' = [d \in Effects |-> IF d = e THEN p ELSE probes[d]]
      /\ finding' = [d \in Effects |-> IF d = e THEN f ELSE finding[d]]
  BY Zenon DEF PlanInv
<1>2. \A d \in Effects : PlanOf(probes'[d], finding'[d])
  BY <1>1 DEF PlanInv
<1>3. /\ probes' = [d \in Effects |-> probes'[d]]
      /\ finding' = [d \in Effects |-> finding'[d]]
  BY <1>1, Zenon
<1> QED BY <1>2, <1>3, Zenon DEF PlanInv

LEMMA PlanInitially == Init => PlanInv
<1> SUFFICES ASSUME Init PROVE PlanInv
  OBVIOUS
<1>1. probes = [e \in Effects |-> <<>>] /\ finding = [e \in Effects |-> "none"]
  BY Zenon DEF Init, ReconcilerInit
<1>2. PlanOf(<<>>, "none")
  BY ReconcilerAssumption DEF PlanOf
<1> QED BY <1>1, <1>2, Zenon DEF PlanInv

\* The first probes of recovered effects, at the beginning of a tick.
LEMMA FirstProbes ==
    ASSUME PlanInv, NEW S, finding' = finding,
           probes' = [e \in Effects |-> IF e \in S /\ probes[e] = <<>>
                                        THEN <<NewProbe(now)>> ELSE probes[e]]
    PROVE  PlanInv'
<1>1. ASSUME NEW e \in Effects PROVE PlanOf(probes'[e], finding'[e])
  <2>1. PlanOf(probes[e], finding[e])
    BY DEF PlanInv
  <2>2. CASE e \in S /\ probes[e] = <<>>
    <3>1. finding[e] = "none"
      BY <2>1, <2>2 DEF PlanOf
    <3>2. PICK p : p = <<>>
      OBVIOUS
    <3>3. PlanOf(p, "none")
      BY <2>1, <2>2, <3>1, <3>2, Zenon
    <3>4. Len(p) + 1 <= MaxProbes /\ \A k \in 1..Len(p) : p[k].outcome # "open"
      BY <3>2, ReconcilerAssumption
    <3>5. PlanOf(Append(p, NewProbe(now)), "none")
      BY <3>3, <3>4, ProbeScheduled, Zenon
    <3>6. Append(p, NewProbe(now)) = <<NewProbe(now)>>
      BY <3>2
    <3>7. probes'[e] = <<NewProbe(now)>> /\ finding'[e] = "none"
      BY <2>2, <3>1, Zenon
    <3> QED BY <3>5, <3>6, <3>7, Zenon
  <2>3. CASE ~(e \in S /\ probes[e] = <<>>)
    <3>1. probes'[e] = probes[e] /\ finding'[e] = finding[e]
      BY <2>3, Zenon
    <3> QED BY <2>1, <3>1, Zenon
  <2> QED BY <2>2, <2>3, Zenon
<1> QED BY <1>1, ZenonT(30) DEF PlanInv

LEMMA TickPlans ==
    ASSUME PlanInv, TickBegins \/ TickCutShort
    PROVE  PlanInv'
<1>1. PICK S : /\ finding' = finding
               /\ probes' = [e \in Effects |-> IF e \in S /\ probes[e] = <<>>
                                               THEN <<NewProbe(now)>> ELSE probes[e]]
  BY Zenon DEF TickBegins, TickCutShort
<1> QED BY <1>1, FirstProbes, Zenon

\* The candidate's plan after schedule_probe.
LEMMA PlannedFacts ==
    ASSUME PlanInv, NEW e \in Effects, ~NoProbeLeft(e), finding[e] = "none"
    PROVE  /\ PlanOf(Planned(e), "none")
           /\ Current(e) = Len(Planned(e)) /\ Len(Planned(e)) > 0
           /\ Planned(e)[Len(Planned(e))].outcome = "open"
<1>1. PlanOf(probes[e], "none")
  BY Zenon DEF PlanInv
<1>2. CASE OpenProbes(e) # {}
  BY <1>1, <1>2, OpenIsNewest, Zenon DEF Planned, Current
<1>3. CASE OpenProbes(e) = {}
  <2> DEFINE n == Len(probes[e])
             x == ProbeDue(e, n + 1)
             q == Append(probes[e], NewProbe(x))
  <2>1. Planned(e) = q /\ Current(e) = n + 1
    BY <1>3, Zenon DEF Planned, Current
  <2>2. n \in Nat
    BY <1>1 DEF PlanOf
  <2>3. n + 1 <= MaxProbes
    BY <1>3, <2>2, ReconcilerAssumption DEF NoProbeLeft
  <2>4. \A k \in 1..n : probes[e][k].outcome # "open"
    BY <1>3, OpenIsNewest, Zenon
  <2> HIDE DEF x
  <2>5. PlanOf(q, "none") /\ Len(q) = n + 1 /\ q[n + 1].outcome = "open"
    BY <1>1, <2>3, <2>4, ProbeScheduled, Zenon
  <2> HIDE DEF q
  <2> QED BY <2>1, <2>2, <2>5
<1> QED BY <1>2, <1>3, Zenon

LEMMA ReconcilerPlans ==
    ASSUME PlanInv, ReconcilerNext
    PROVE  PlanInv'
<1>1. ASSUME NEW e \in Effects, EscalateUnplanned(e) PROVE PlanInv'
  BY <1>1, Zenon DEF EscalateUnplanned, PlanInv
<1>2. ASSUME NEW e \in Effects, EscalateOverdue(e) PROVE PlanInv'
  <2>1. /\ finding' = finding /\ finding[e] = "none"
        /\ OpenProbes(e) # {}
        /\ probes' = [probes EXCEPT ![e] =
                        FinishProbe(probes[e], OpenProbe(e), "inconclusive")]
    BY <1>2, Zenon DEF EscalateOverdue, Pending, PlanInv
  <2>2. PlanOf(probes[e], "none") /\ "inconclusive" \in ProbeOutcomes
    BY <2>1, Zenon DEF PlanInv, ProbeOutcomes
  <2>3. PlanOf(FinishProbe(probes[e], OpenProbe(e), "inconclusive"), "none")
    BY <2>1, <2>2, OpenIsNewest, ProbeFinished, Zenon
  <2>4. finding' = [finding EXCEPT ![e] = "none"]
    BY <2>1 DEF PlanInv
  <2> QED BY <2>1, <2>3, <2>4, OnePlanChanges, Zenon
<1>3. ASSUME NEW e \in Effects, WaitForProbe(e) PROVE PlanInv'
  <2>1. /\ finding' = finding /\ finding[e] = "none" /\ ~NoProbeLeft(e)
        /\ probes' = [probes EXCEPT ![e] = Planned(e)]
    BY <1>3, Zenon DEF WaitForProbe, Pending
  <2>2. finding' = [finding EXCEPT ![e] = "none"]
    BY <2>1, Zenon DEF PlanInv
  <2> QED BY <2>1, <2>2, PlannedFacts, OnePlanChanges, ZenonT(30)
<1>4. ASSUME NEW e \in Effects, StartProbe(e) PROVE PlanInv'
  <2> DEFINE p == Planned(e)
             u == tick.at + ProbeLease
             q == [p EXCEPT ![Len(p)] = [@ EXCEPT !.owner = "reconciler",
                                                  !.until = u]]
  <2>1. /\ finding[e] = "none" /\ ~NoProbeLeft(e)
        /\ probes' = [probes EXCEPT ![e] =
                        [p EXCEPT ![Current(e)] =
                            [@ EXCEPT !.owner = "reconciler", !.until = u]]]
        /\ finding' = [finding EXCEPT ![e] = LocalEvidence(e)]
    BY <1>4, Zenon DEF StartProbe, Pending
  <2>2. LocalEvidence(e) \in ProbeOutcomes
    BY DEF LocalEvidence, ProbeOutcomes
  <2>3. /\ PlanOf(p, "none") /\ Current(e) = Len(p) /\ Len(p) > 0
        /\ p[Len(p)].outcome = "open"
    BY <2>1, PlannedFacts, Zenon
  <2> HIDE DEF p, u
  <2>4. PlanOf(q, LocalEvidence(e))
    BY <2>2, <2>3, ProbeClaimed, Zenon
  <2>5. probes' = [probes EXCEPT ![e] = q]
    BY <2>1, <2>3, Zenon
  <2> HIDE DEF q
  <2> QED BY <2>1, <2>4, <2>5, OnePlanChanges, Zenon
<1>5. ASSUME NEW e \in Effects, ProbeAnswers(e) PROVE PlanInv'
  <2>1. /\ finding[e] # "none"
        /\ probes' = [probes EXCEPT ![e] =
                        FinishProbe(probes[e], OpenProbe(e), finding[e])]
        /\ finding' = [finding EXCEPT ![e] = "none"]
    BY <1>5, Zenon DEF ProbeAnswers, PlanInv
  <2>2. PlanOf(probes[e], finding[e])
    BY DEF PlanInv
  <2>3. finding[e] \in ProbeOutcomes /\ Len(probes[e]) > 0
    BY <2>1, <2>2, Zenon DEF PlanOf
  <2>4. OpenProbe(e) = Len(probes[e])
    <3>1. /\ Len(probes[e]) \in 1..Len(probes[e])
          /\ probes[e][Len(probes[e])].outcome = "open"
      BY <2>1, <2>2 DEF PlanOf
    <3> QED BY <3>1, OpenIsNewest, Zenon
  <2>5. PlanOf(FinishProbe(probes[e], OpenProbe(e), finding[e]), "none")
    BY <2>2, <2>3, <2>4, ProbeFinished, Zenon
  <2> QED BY <2>1, <2>5, OnePlanChanges, Zenon
<1>6. CASE TickBegins
  BY <1>6, TickPlans, Zenon
<1> QED BY <1>1, <1>2, <1>3, <1>4, <1>5, <1>6, Zenon DEF ReconcilerNext

\* What a candidate that dies has written is a plan.
LEMMA CutShortPlans ==
    ASSUME PlanInv, NEW e \in Effects, CandidateCutShort(e)
    PROVE  \A d \in Effects : PlanOf(probes'[d], "none")
<1>1. ASSUME NEW d \in Effects PROVE PlanOf(probes[d], "none")
  BY Zenon DEF PlanInv, PlanOf
<1>2. ASSUME NEW p, PlanOf(p, "none"), probes' = [probes EXCEPT ![e] = p]
      PROVE  \A d \in Effects : PlanOf(probes'[d], "none")
  <2>1. probes' = [d \in Effects |-> IF d = e THEN p ELSE probes[d]]
    BY <1>2, Zenon DEF PlanInv
  <2> QED BY <1>1, <1>2, <2>1, Zenon
<1>3. PlanOf(probes[e], finding[e])
  BY DEF PlanInv
<1>4. ASSUME finding[e] # "none"
      PROVE  PlanOf(FinishProbe(probes[e], OpenProbe(e), finding[e]), "none")
  <2>1. finding[e] \in ProbeOutcomes /\ Len(probes[e]) > 0
    BY <1>3, <1>4, Zenon DEF PlanOf
  <2>2. OpenProbe(e) = Len(probes[e])
    <3>1. /\ Len(probes[e]) \in 1..Len(probes[e])
          /\ probes[e][Len(probes[e])].outcome = "open"
      BY <1>3, <1>4 DEF PlanOf
    <3> QED BY <3>1, OpenIsNewest, Zenon
  <2> QED BY <1>3, <2>1, <2>2, ProbeFinished, Zenon
<1>5. ASSUME OpenProbes(e) # {}
      PROVE  PlanOf(FinishProbe(probes[e], OpenProbe(e), "inconclusive"), "none")
  <2>1. "inconclusive" \in ProbeOutcomes
    BY Zenon DEF ProbeOutcomes
  <2> QED BY <1>1, <1>5, <2>1, OpenIsNewest, ProbeFinished, Zenon
<1>6. ASSUME ~NoProbeLeft(e), finding[e] = "none" PROVE PlanOf(Planned(e), "none")
  BY <1>6, PlannedFacts, Zenon
<1>7. /\ \E p : probes' = [probes EXCEPT ![e] = p] /\ PlanOf(p, "none")
  BY <1>4, <1>5, <1>6, Zenon DEF CandidateCutShort, Pending
<1> QED BY <1>2, <1>7, Zenon

LEMMA PlanStep == PlanInv /\ [Next]_vars => PlanInv'
<1> SUFFICES ASSUME PlanInv, [Next]_vars PROVE PlanInv'
  OBVIOUS
<1>1. ASSUME UNCHANGED <<probes, finding>> PROVE PlanInv'
  BY <1>1, Zenon DEF PlanInv
<1>2. CASE Reconcile
  BY <1>2, ReconcilerPlans, Zenon DEF Reconcile
<1>3. CASE Crash
  <2>1. /\ finding' = [e \in Effects |-> "none"]
        /\ probes' = probes \/ \E e \in Effects : CandidateCutShort(e)
    BY <1>3, Zenon DEF Crash
  <2>2. \A e \in Effects : PlanOf(probes'[e], "none")
    <3>1. CASE probes' = probes
      BY <3>1, Zenon DEF PlanInv, PlanOf
    <3> QED BY <2>1, <3>1, CutShortPlans, Zenon
  <2>3. probes' = [e \in Effects |-> probes'[e]]
    BY <2>1, Zenon DEF PlanInv, CandidateCutShort
  <2> QED BY <2>1, <2>2, <2>3, Zenon DEF PlanInv
<1>4. CASE Restart \/ RestartFails
  BY <1>4, TickPlans, Zenon DEF Restart, RestartFails
<1>5. CASE Gateway \/ Provider \/ Clock \/ StartupDone \/ UNCHANGED vars
  BY <1>1, <1>5, Zenon DEF Gateway, Provider, Clock, StartupDone, vars, reconcilerVars
<1>6. CASE Operator
  BY <1>1, <1>6, Zenon DEF Operator, OperatorConfirms, reconcilerVars
<1> QED BY <1>2, <1>3, <1>4, <1>5, <1>6, Zenon DEF Next

\* For any number of effects, ticks, crashes and recoveries the reconciler asks
\* one question after the other, at most max_probes per effect, and an answer
\* that comes back finds its probe open and held (_reconcile_candidate,
\* claim_probe and finish_probe).
THEOREM ProbesAreInTurn == Spec => []ProbesInTurn
<1>1. PlanInv => ProbesInTurn
  <2> SUFFICES ASSUME PlanInv, NEW e \in Effects
               PROVE  /\ Len(probes[e]) <= MaxProbes
                      /\ OpenProbes(e) \subseteq {Len(probes[e])}
                      /\ finding[e] # "none" =>
                            /\ OpenProbes(e) # {}
                            /\ probes[e][Len(probes[e])].owner = "reconciler"
    BY Zenon DEF ProbesInTurn
  <2>1. PlanOf(probes[e], finding[e])
    BY Zenon DEF PlanInv
  <2>2. Len(probes[e]) <= MaxProbes
    BY <2>1, Zenon DEF PlanOf
  <2>3. ASSUME finding[e] # "none"
        PROVE  /\ OpenProbes(e) # {}
               /\ probes[e][Len(probes[e])].owner = "reconciler"
    <3>1. /\ Len(probes[e]) \in 1..Len(probes[e])
          /\ probes[e][Len(probes[e])].outcome = "open"
          /\ probes[e][Len(probes[e])].owner = "reconciler"
      BY <2>1, <2>3 DEF PlanOf
    <3> QED BY <3>1, OpenIsNewest, Zenon
  <2> QED BY <2>2, <2>3, OpenIsNewest, Zenon
<1> QED BY <1>1, PlanInitially, PlanStep, PTL DEF Spec
=============================================================================
