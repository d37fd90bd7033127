---------------------------- MODULE EffectOutbox -----------------------------
(***************************************************************************)
(* The managed outbox as a whole: tasks that submit and execute effects,   *)
(* the reconciler beside them on the same event loop, a provider that may  *)
(* act late, and a process that may die at any moment and is started again *)
(* (app/bootstrap.py runs one recovery tick before any producer starts).   *)
(* The store and the provider survive a crash, everything else is lost.    *)
(***************************************************************************)
EXTENDS EffectGateway, Reconciler

CONSTANT MaxCrashes     \* bound: crashes in a behaviour

ASSUME EffectOutboxAssumption == MaxCrashes \in Nat

VARIABLES
    phase,      \* "down", "recovering" (startup tick) or "up"
    crashes,    \* crashes so far
    operator    \* history: effects an operator has declared sent

vars == <<now, storeVars, gatewayVars, providerVars, reconcilerVars,
          phase, crashes, operator>>

TypeOK ==
    /\ StoreTypeOK
    /\ GatewayTypeOK
    /\ ReconcilerTypeOK
    /\ phase \in {"down", "recovering", "up"}
    /\ crashes \in 0..MaxCrashes
    /\ operator \subseteq Effects

Init ==
    /\ StoreInit
    /\ GatewayInit
    /\ ReconcilerInit
    /\ phase = "up"
    /\ crashes = 0
    /\ operator = {}

Gateway ==
    /\ phase = "up"
    /\ GatewayNext
    /\ UNCHANGED <<reconcilerVars, phase, crashes, operator>>

\* The startup tick has begun with the process itself, so while recovering only
\* its candidates are handled.
Reconcile ==
    /\ LoopFree
    /\ phase = "up" \/ (phase = "recovering" /\ tick.todo # {})
    /\ ReconcilerNext
    /\ UNCHANGED <<gatewayVars, providerVars, phase, crashes, operator>>

Provider ==
    /\ \E e \in Effects : ProviderAccepts(e)
    /\ UNCHANGED <<reconcilerVars, phase, crashes, operator>>

Clock ==
    /\ Tick
    /\ UNCHANGED <<gatewayVars, providerVars, reconcilerVars, phase, crashes,
                   operator>>

Operator ==
    /\ phase = "up"
    /\ LoopFree
    /\ \E e \in Effects : OperatorConfirms(e) /\ operator' = operator \cup {e}
    /\ UNCHANGED <<gatewayVars, providerVars, phase, crashes>>

\* The process dies, in a task or between two commits of the reconciler.
Crash ==
    /\ phase # "down"
    /\ crashes < MaxCrashes
    /\ crashes' = crashes + 1
    /\ phase' = "down"
    /\ pc' = [t \in Tasks |-> "idle"]
    /\ part' = [t \in Tasks |-> 0]
    /\ reply' = [t \in Tasks |-> "none"]
    /\ tick' = NoTick
    /\ finding' = [e \in Effects |-> "none"]
    /\ \/ probes' = probes
       \/ LoopFree /\ \E e \in Effects : CandidateCutShort(e)
    /\ UNCHANGED <<now, storeVars, op, providerVars, operator>>

\* _start_processing_services: recover_once comes first.
Restart ==
    /\ phase = "down"
    /\ phase' = "recovering"
    /\ TickBegins
    /\ UNCHANGED <<gatewayVars, providerVars, crashes, operator>>

\* The process dies again in its startup tick.
RestartFails ==
    /\ phase = "down"
    /\ crashes < MaxCrashes
    /\ crashes' = crashes + 1
    /\ TickCutShort
    /\ UNCHANGED <<gatewayVars, providerVars, phase, operator>>

StartupDone ==
    /\ phase = "recovering"
    /\ tick.todo = {}
    /\ phase' = "up"
    /\ UNCHANGED <<now, storeVars, gatewayVars, providerVars, reconcilerVars,
                   crashes, operator>>

Next ==
    \/ Gateway
    \/ Reconcile
    \/ Provider
    \/ Clock
    \/ Operator
    \/ Crash
    \/ Restart
    \/ RestartFails
    \/ StartupDone

Spec == Init /\ [][Next]_vars

\* Synchronous code runs on; the loop gives the reconciler its turns; a dead
\* process is restarted; time passes.
Synchronous == ~LoopFree /\ Gateway

Fairness ==
    /\ WF_vars(Synchronous)
    /\ WF_vars(Reconcile)
    /\ WF_vars(Restart)
    /\ WF_vars(StartupDone)
    /\ WF_vars(Clock)

FairSpec == Spec /\ Fairness

-----------------------------------------------------------------------------
\* Safety

\* The system promises at most one execution per operation key: over crashes,
\* slow transport calls whose lease ran out, repeated submissions and the
\* reconciler's verdicts, the commands of one transport call go out once.
AtMostOnce == \A e \in Effects : frames[e] <= Parts

\* "sent" is proven: the provider accepted the effect's commands, or an
\* operator vouched for them.
SentIsTrue ==
    \A e \in Effects :
        State(e) = "sent" => accepted[e] = Parts \/ e \in operator

\* A state that says the effect did not run is right, and stays right while a
\* task that was overtaken by recovery is still inside its transport call.
NotRunIsTrue ==
    \A e \in Effects :
        State(e) \in NotRunStates \cup {"queued"} =>
            /\ frames[e] = 0
            /\ \A t \in Tasks :
                  op[t] = e => pc[t] \notin {"claimed", "calling", "written"}

\* The receipt handed to a caller never claims a delivery the store denies.
ReplySentIsTrue ==
    \A t \in Tasks : reply[t] = "sent" => State(op[t]) = "sent"

\* A participation effect is only called sent on the strength of a receipt.
ParticipationNeedsReceipt ==
    \A e \in Effects :
        State(e) = "sent" /\ effect[e].origin = "participation"
            => receipt[e] # "none" \/ e \in operator

\* The reconciler asks one question after the other and at most max_probes of
\* them, over ticks, crashes and recoveries: an open probe is the newest of its
\* effect, and an answer that is awaited belongs to one that the reconciler holds.
ProbesInTurn ==
    \A e \in Effects :
        /\ Len(probes[e]) <= MaxProbes
        /\ OpenProbes(e) \subseteq {Len(probes[e])}
        /\ finding[e] # "none" => /\ OpenProbes(e) # {}
                                 /\ probes[e][Len(probes[e])].owner = "reconciler"

-----------------------------------------------------------------------------
\* Liveness, for whatever comes due before the clock ends

\* A claim never outlives its lease for ever, whoever held it.
ExecutingEnds ==
    \A e \in Effects :
        (State(e) = "executing" /\ effect[e].until <= MaxTime)
            ~> State(e) # "executing"

\* An unproven effect is resolved or escalated once its deadline is over.
UnknownEnds ==
    \A e \in Effects :
        (State(e) = "unknown" /\ DeadlineOf(e) <= MaxTime)
            ~> State(e) \in {"sent", "unknown_nonrepeatable"}

\* A receipt stored just before the process died is not lost: the effect is
\* found sent once the process stays up.  Only a further death before the
\* probe's verdict is applied can leave it escalated instead, because an
\* overdue effect is escalated without a look at the receipt, or still open
\* with a deadline behind the bound on time.
StoredReceiptCounts ==
    \A e \in Effects : \A n \in 0..MaxCrashes :
        (/\ State(e) = "executing" /\ effect[e].until <= MaxTime
         /\ receipt[e] = "provider" /\ crashes = n)
            ~> \/ State(e) = "sent"
               \/ /\ crashes > n
                  /\ \/ State(e) = "unknown_nonrepeatable"
                     \/ State(e) = "unknown" /\ DeadlineOf(e) > MaxTime

-----------------------------------------------------------------------------
\* Refinement

\* The verdict the outbox has reached on an effect.
VerdictOf(s) ==
    CASE s = "sent"                  -> "delivered"
      [] s \in NotRunStates          -> "notrun"
      [] s = "unknown_nonrepeatable" -> "undecided"
      [] OTHER                       -> "open"

Contract == INSTANCE EffectContract
    WITH Actions   <- Effects,
         Commands  <- Parts,
         verdict   <- [e \in Effects |-> VerdictOf(State(e))],
         issued    <- frames,
         performed <- accepted

\* The outbox keeps the contract.
ImplementsContract == Contract!ContractSpec

\* Gateway and reconciler together use the store only in the ways StoreSpec
\* describes, with their clock, their crashes and their interleavings.
UsesStore == StoreSpec

-----------------------------------------------------------------------------
\* Statements of the repository that the code does not keep

\* _capacity_block: "The effect stays recorded as ``blocked`` with a reason".
\* At the least, a caller told so does not hold a receipt of a sent effect.
BlockedReplyIsTrue ==
    \A t \in Tasks : reply[t] = "blocked" => State(op[t]) # "sent"

\* _reconcile_candidate: "A plan that is still open when the deadline passes
\* must be closed and escalated".
EscalatedPlanIsClosed ==
    \A e \in Effects :
        State(e) = "unknown_nonrepeatable" => OpenProbes(e) = {}

\* The runbook: "A late receipt still corrects it to `sent`".
LateReceiptCorrects ==
    \A e \in Effects :
        (State(e) = "unknown_nonrepeatable" /\ receipt[e] = "provider")
            ~> State(e) = "sent"
=============================================================================
