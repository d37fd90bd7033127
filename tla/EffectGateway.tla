---------------------------- MODULE EffectGateway ----------------------------
(***************************************************************************)
(* How a managed send runs: IntentEffectRouter._run and _capacity_block    *)
(* (processing/dispatch.py), EffectGateway.submit and execute_ready        *)
(* (processing/effects.py), BusEffectExecutor.execute and, below it, the   *)
(* send methods of the WhatsApp and Telegram channels.                     *)
(*                                                                         *)
(* A task is one coroutine inside _run.  All of them share one event loop  *)
(* and one worker id, so a step between two awaits is atomic towards other *)
(* tasks, but the process may die after any commit.  A task whose next     *)
(* step follows a commit with no await in between holds the loop: nothing  *)
(* else in the process may run until it has moved on.                      *)
(***************************************************************************)
EXTENDS EffectStore

CONSTANTS
    Tasks,      \* coroutines that submit and execute effects
    Channel,    \* "whatsapp" or "telegram": whose send method is called
    Parts       \* commands one WhatsApp send issues: its number of media files

ASSUME EffectGatewayAssumption ==
    /\ Channel \in {"whatsapp", "telegram"}
    /\ Parts \in Nat \ {0}
    /\ "effect-gateway" \in Workers

VARIABLES
    pc,         \* where a task stands in _run
    op,         \* the effect a task works on
    part,       \* commands of the current transport call already dealt with
    reply,      \* state in the receipt _run last returned to the task's caller
    frames,     \* send commands handed to the provider side, per effect
    accepted    \* how many of them the provider has accepted

gatewayVars == <<pc, op, part, reply>>
providerVars == <<frames, accepted>>

\* idle -> submitted -> ready -> claimed -> calling <-> written -> acked -> idle
\* acked: the transport returned, its receipt is stored, the state is not.
PCs == {"idle", "submitted", "ready", "claimed", "calling", "written", "acked"}

GatewayTypeOK ==
    /\ pc \in [Tasks -> PCs]
    /\ op \in [Tasks -> Effects]
    /\ part \in [Tasks -> Nat]
    /\ reply \in [Tasks -> EffectStates \cup {"none"}]
    /\ frames \in [Effects -> Nat]
    /\ accepted \in [Effects -> Nat]

GatewayInit ==
    /\ pc = [t \in Tasks |-> "idle"]
    /\ op \in [Tasks -> Effects]
    /\ part = [t \in Tasks |-> 0]
    /\ reply = [t \in Tasks |-> "none"]
    /\ frames = [e \in Effects |-> 0]
    /\ accepted = [e \in Effects |-> 0]

worker == "effect-gateway"

\* No task is between a commit and its next await.
LoopFree == \A t \in Tasks : pc[t] \notin {"claimed", "acked"}

Goto(t, l) == pc' = [pc EXCEPT ![t] = l]

\* _run returns a receipt that reports state s.
Return(t, s) ==
    /\ pc' = [pc EXCEPT ![t] = "idle"]
    /\ part' = [part EXCEPT ![t] = 0]
    /\ reply' = [reply EXCEPT ![t] = s]
    /\ UNCHANGED op

-----------------------------------------------------------------------------
\* Acceptance

\* submit and submit_participation.  A participation effect also expires with
\* its delivery reservation, which may be over already.
Submit(t, e) ==
    /\ LoopFree
    /\ pc[t] = "idle"
    /\ Goto(t, "submitted")
    /\ op' = [op EXCEPT ![t] = e]
    /\ reply' = [reply EXCEPT ![t] = "none"]
    /\ \E origin \in Origins :
         /\ State(e) # "absent" => origin = effect[e].origin
         /\ \/ EnqueueEffect(e, origin, now + EffectDeadline)
            \/ origin = "participation" /\ EnqueueEffect(e, origin, now)
    /\ UNCHANGED <<now, attempts, receipt, part, providerVars>>

\* The participation ledger refuses record_send_attempt (its reservation is
\* over): the exception leaves _run and the effect stays as it is.
SendAttemptRefused(t) ==
    /\ LoopFree
    /\ pc[t] = "submitted"
    /\ effect[op[t]].origin = "participation"
    /\ Goto(t, "idle")
    /\ UNCHANGED <<now, storeVars, op, part, reply, providerVars>>

\* _capacity_block.  Whether the chat is over its budget is decided elsewhere;
\* an over-budget effect is moved to blocked if it is queued, and the receipt
\* says blocked in any case.
CapacityBlock(t) ==
    /\ LoopFree
    /\ pc[t] = "submitted"
    /\ \/ /\ Transition(op[t], {"queued"}, "blocked", "policy", NoOne)
          /\ Return(t, "blocked")
       \/ /\ Goto(t, "ready")
          /\ UNCHANGED <<effect, attempts, op, part, reply>>
    /\ UNCHANGED <<now, receipt, providerVars>>

-----------------------------------------------------------------------------
\* execute_ready up to the claim

\* The state _state_for_reason gives a denied effect.
DeniedStates == {"cancelled", "expired", "blocked"}

\* Not queued, past its deadline, or denied by the authoriser.
NotExecuted(t) ==
    LET e == op[t] IN
    /\ LoopFree
    /\ pc[t] = "ready"
    /\ IF State(e) # "queued"
       THEN Return(t, State(e)) /\ UNCHANGED <<effect, attempts>>
       ELSE \E target \in IF effect[e].expires <= now THEN {"expired"}
                                                      ELSE DeniedStates :
              /\ Transition(e, {"queued"}, target, "policy", NoOne)
              /\ Return(t, target)
    /\ UNCHANGED <<now, receipt, providerVars>>

\* A mutated execute_ready that re-executes an unproven effect.
ClaimUnproven(t) ==
    LET e == op[t] IN
    /\ LoopFree
    /\ pc[t] = "ready"
    /\ State(e) \in {"queued", "unknown"}
    /\ effect[e].expires > now
    /\ effect' = [effect EXCEPT ![e] =
                    [@ EXCEPT !.state = "executing", !.owner = worker,
                              !.until = now + Lease, !.updated = now]]
    /\ attempts' = [attempts EXCEPT ![e] = Append(@, "open")]
    /\ Goto(t, "claimed")
    /\ UNCHANGED <<now, receipt, op, part, reply, providerVars>>

\* Authorised: the effect is claimed for the gateway's worker id.
Claim(t) ==
    LET e == op[t] IN
    /\ LoopFree
    /\ pc[t] = "ready"
    /\ State(e) = "queued"
    /\ effect[e].expires > now
    /\ ClaimEffect(e, worker)
    /\ Goto(t, "claimed")
    /\ UNCHANGED <<now, receipt, op, part, reply, providerVars>>

\* The executor's checks passed and the transport call has begun.
CallTransport(t) ==
    /\ pc[t] = "claimed"
    /\ Goto(t, "calling")
    /\ UNCHANGED <<now, storeVars, op, part, reply, providerVars>>

-----------------------------------------------------------------------------
\* The transport call

\* A send command leaves for the provider: each media file of a WhatsApp send
\* is a command, Telegram repeats a failed one once as plain text.
WriteCommand(t) ==
    /\ LoopFree
    /\ pc[t] = "calling"
    /\ part[t] < IF Channel = "whatsapp" THEN Parts ELSE 2
    /\ Goto(t, "written")
    /\ frames' = [frames EXCEPT ![op[t]] = @ + 1]
    /\ UNCHANGED <<now, storeVars, op, part, reply, accepted>>

\* The provider performs a command it was handed, no matter what has become of
\* the task or the process that wrote it.
ProviderAccepts(e) ==
    /\ accepted[e] < frames[e]
    /\ accepted' = [accepted EXCEPT ![e] = @ + 1]
    /\ UNCHANGED <<now, storeVars, gatewayVars, frames>>

\* WhatsApp: a media file is confirmed, the next one follows.  Telegram: the
\* formatted message failed, the error is swallowed, plain text follows.
NextCommand(t) ==
    /\ LoopFree
    /\ pc[t] = "written"
    /\ IF Channel = "whatsapp"
       THEN part[t] + 1 < Parts /\ accepted[op[t]] = frames[op[t]]
       ELSE part[t] = 0
    /\ Goto(t, "calling")
    /\ part' = [part EXCEPT ![t] = @ + 1]
    /\ UNCHANGED <<now, storeVars, op, reply, providerVars>>

\* The channel's send method returns without an exception.  WhatsApp returns
\* once the bridge confirmed every command.  Telegram also returns when the bot
\* is not running or the chat id is invalid, and when both sends failed.
SendReturns(t) ==
    IF Channel = "whatsapp"
    THEN /\ pc[t] = "written"
         /\ part[t] + 1 = Parts
         /\ accepted[op[t]] = frames[op[t]]
    ELSE \/ pc[t] = "calling" /\ part[t] = 0
         \/ pc[t] = "written" /\ (part[t] = 1 \/ accepted[op[t]] = frames[op[t]])

ReceiptsReported == IF Channel = "whatsapp" THEN Receipts ELSE {"none"}

\* A mutated handler that asks nobody for a receipt.
TransportReturnedUnchecked(t) ==
    /\ LoopFree
    /\ SendReturns(t)
    /\ \E r \in ReceiptsReported :
         IF r = "none" THEN UNCHANGED receipt ELSE RecordTransportReceipt(op[t], r)
    /\ Goto(t, "acked")
    /\ UNCHANGED <<now, effect, attempts, op, part, reply, providerVars>>

\* The executor reports sent.  Participation without a receipt is unproven;
\* otherwise the receipt, if any, is recorded before the state.
TransportReturned(t) ==
    LET e == op[t] IN
    /\ LoopFree
    /\ SendReturns(t)
    /\ \E r \in ReceiptsReported :
         IF effect[e].origin = "participation" /\ r = "none"
         THEN /\ Transition(e, {"executing"}, "unknown", "dispatch_unknown", worker)
              /\ Return(t, effect'[e].state)
              /\ UNCHANGED receipt
         ELSE /\ IF r = "none" THEN UNCHANGED receipt
                               ELSE RecordTransportReceipt(e, r)
              /\ Goto(t, "acked")
              /\ UNCHANGED <<effect, attempts, op, part, reply>>
    /\ UNCHANGED <<now, providerVars>>

\* A mutated second commit that reports what it wanted to write.
FinishSentBlindly(t) ==
    /\ pc[t] = "acked"
    /\ Transition(op[t], {"executing"}, "sent", "transport", worker)
    /\ Return(t, "sent")
    /\ UNCHANGED <<now, receipt, providerVars>>

\* The second commit; the receipt reports whatever state the effect has now.
FinishSent(t) ==
    /\ pc[t] = "acked"
    /\ Transition(op[t], {"executing"}, "sent", "transport", worker)
    /\ Return(t, effect'[op[t]].state)
    /\ UNCHANGED <<now, receipt, providerVars>>

\* The executor or the channel raises an error that is_pre_dispatch_error takes
\* as proof that nothing was dispatched: a pre-dispatch check refused, the
\* channel is not available, or the bridge is not connected.
RefusedBeforeDispatch(t) ==
    /\ \/ pc[t] = "claimed"
       \/ LoopFree /\ pc[t] = "calling" /\ Channel = "whatsapp"
    /\ Transition(op[t], {"executing"}, "failed", "not_executed", worker)
    /\ Return(t, "failed")
    /\ UNCHANGED <<now, receipt, providerVars>>

\* The bridge answers a forward with ERR_FORWARD_UNAVAILABLE and drops it.
ForwardUnavailable(t) ==
    /\ LoopFree
    /\ Channel = "whatsapp"
    /\ pc[t] = "written"
    /\ accepted[op[t]] < frames[op[t]]
    /\ Transition(op[t], {"executing"}, "failed", "not_executed", worker)
    /\ Return(t, "failed")
    /\ frames' = [frames EXCEPT ![op[t]] = @ - 1]
    /\ UNCHANGED <<now, receipt, accepted>>

\* A mutated handler that reads a timeout as a refusal.
UnprovenAsFailed(t) ==
    /\ \/ pc[t] = "claimed"
       \/ LoopFree /\ pc[t] \in {"calling", "written"}
    /\ Transition(op[t], {"executing"}, "failed", "dispatch_unknown", worker)
    /\ Return(t, "failed")
    /\ UNCHANGED <<now, receipt, providerVars>>

\* A mutated handler that takes a broken call for a delivery.
UnprovenAsSent(t) ==
    /\ \/ pc[t] = "claimed"
       \/ LoopFree /\ pc[t] \in {"calling", "written"}
    /\ Transition(op[t], {"executing"}, "sent", "dispatch_unknown", worker)
    /\ Return(t, "unknown")
    /\ UNCHANGED <<now, receipt, providerVars>>

\* Any other exception (a rejected payload, a timeout, a lost connection) or a
\* cancellation: the outcome is unproven.
Unproven(t) ==
    /\ \/ pc[t] = "claimed"
       \/ LoopFree /\ pc[t] \in {"calling", "written"}
    /\ Transition(op[t], {"executing"}, "unknown", "dispatch_unknown", worker)
    /\ Return(t, "unknown")
    /\ UNCHANGED <<now, receipt, providerVars>>

-----------------------------------------------------------------------------
\* A turn revision is bumped (cancel_stale_effects) or the chat is reset
\* (close_chat_threads) while the effect waits.
CancelQueued(e) ==
    /\ LoopFree
    /\ State(e) = "queued"
    /\ Transition(e, {"queued"}, "cancelled", "superseded", NoOne)
    /\ UNCHANGED <<now, receipt, gatewayVars, providerVars>>

GatewayNext ==
    \/ \E t \in Tasks :
          \/ \E e \in Effects : Submit(t, e)
          \/ SendAttemptRefused(t)
          \/ CapacityBlock(t)
          \/ NotExecuted(t)
          \/ Claim(t)
          \/ CallTransport(t)
          \/ WriteCommand(t)
          \/ NextCommand(t)
          \/ TransportReturned(t)
          \/ FinishSent(t)
          \/ RefusedBeforeDispatch(t)
          \/ ForwardUnavailable(t)
          \/ Unproven(t)
    \/ \E e \in Effects : CancelQueued(e)
=============================================================================
