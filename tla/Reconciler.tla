----------------------------- MODULE Reconciler ------------------------------
(***************************************************************************)
(* ReconciliationService of processing/reconcile.py with the table         *)
(* reconciliation_probes: unproven effects are probed from local evidence  *)
(* on a backoff schedule and either resolved or escalated.                 *)
(*                                                                         *)
(* A tick reads the clock, recovers expired claims, lists the unknown      *)
(* effects and handles each of them in a coroutine that keeps using the    *)
(* tick's clock reading.  Within one candidate there is an await (the      *)
(* probe): the evidence is gathered before it, applied after it.           *)
(***************************************************************************)
EXTENDS EffectStore

CONSTANTS
    Backoff,            \* backoff_seconds: seconds between consecutive probes
    MaxProbes,          \* max_probes
    ReconcileDeadline,  \* deadline_seconds
    ProbeLease          \* claim_lease_seconds of a probe

\* The validator of ProcessingReconciliationConfig.
ASSUME ReconcilerAssumption ==
    /\ Backoff \in Seq(Nat \ {0})
    /\ MaxProbes \in 1..Len(Backoff)
    /\ ReconcileDeadline \in Nat \ {0}
    /\ ProbeLease \in Nat \ {0}

VARIABLES
    probes,     \* reconciliation_probes, indexed by attempt_number
    tick,       \* the running tick: the clock it read, its unfinished candidates
    finding     \* evidence a probe in flight has gathered, or "none"

reconcilerVars == <<probes, tick, finding>>

ProbeOutcomes == {"confirmed", "not_executed", "inconclusive"}

ReconcilerTypeOK ==
    /\ probes \in [Effects -> Seq([due : Nat,
                                   outcome : ProbeOutcomes \cup {"open"},
                                   owner : {"reconciler", NoOne},
                                   until : Nat])]
    /\ tick \in [at : 0..MaxTime, todo : SUBSET Effects]
    /\ finding \in [Effects -> ProbeOutcomes \cup {"none"}]

NoTick == [at |-> 0, todo |-> {}]

ReconcilerInit ==
    /\ probes = [e \in Effects |-> <<>>]
    /\ tick = NoTick
    /\ finding = [e \in Effects |-> "none"]

-----------------------------------------------------------------------------
\* Helpers

\* Sum of backoff_seconds[:k]; a slice past the end adds nothing.
BackoffSum[k \in Nat] ==
    IF k = 0 THEN 0
    ELSE BackoffSum[k - 1] + (IF k <= Len(Backoff) THEN Backoff[k] ELSE 0)

ProbeDue(e, k) == effect[e].updated + BackoffSum[k]

DeadlineOf(e) == effect[e].updated + ReconcileDeadline

NewProbe(due) ==
    [due |-> due, outcome |-> "open", owner |-> NoOne, until |-> 0]

OpenProbes(e) == {k \in DOMAIN probes[e] : probes[e][k].outcome = "open"}

\* open_probe: the open probe with the highest attempt number.
OpenProbe(e) == CHOOSE k \in OpenProbes(e) : \A j \in OpenProbes(e) : j <= k

\* finish_probe: only the current lease holder finishes a probe.
FinishProbe(plan, k, outcome) ==
    IF plan[k].outcome = "open" /\ plan[k].owner = "reconciler"
    THEN [plan EXCEPT ![k] = [@ EXCEPT !.outcome = outcome,
                                       !.owner = NoOne, !.until = 0]]
    ELSE plan

\* A mutated probe that knows attempts only.
LocalEvidenceOfAttempts(e) ==
    IF \E i \in DOMAIN attempts[e] : attempts[e][i] = "failed"
    THEN "not_executed" ELSE "inconclusive"

\* LocalEvidenceProbe.probe.
LocalEvidence(e) ==
    IF receipt[e] = "provider" THEN "confirmed"
    ELSE IF \E i \in DOMAIN attempts[e] : attempts[e][i] = "failed"
         THEN "not_executed"
         ELSE "inconclusive"

-----------------------------------------------------------------------------
\* The tick

\* A mutated tick whose candidates are only what it has just recovered.
TickBeginsRecoveredOnly ==
    /\ tick.todo = {}
    /\ RecoverExecuting
    /\ probes' = [e \in Effects |->
                    IF e \in ExpiredClaims /\ probes[e] = <<>>
                    THEN <<NewProbe(now)>>
                    ELSE probes[e]]
    /\ tick' = IF ExpiredClaims = {} THEN NoTick
               ELSE [at |-> now, todo |-> ExpiredClaims]
    /\ UNCHANGED <<now, receipt, finding>>

\* recover_executing, a first probe due at once for what was recovered, and
\* the list of candidates.
TickBegins ==
    /\ tick.todo = {}
    /\ RecoverExecuting
    /\ probes' = [e \in Effects |->
                    IF e \in ExpiredClaims /\ probes[e] = <<>>
                    THEN <<NewProbe(now)>>
                    ELSE probes[e]]
    /\ LET candidates == {e \in Effects : effect'[e].state = "unknown"}
       IN tick' = IF candidates = {} THEN NoTick
                  ELSE [at |-> now, todo |-> candidates]
    /\ UNCHANGED <<now, receipt, finding>>

\* The coroutine of candidate e has not started; it is the one that ends now.
Pending(e) == e \in tick.todo /\ finding[e] = "none"

CandidateDone(e) ==
    tick' = IF tick.todo = {e} THEN NoTick
            ELSE [tick EXCEPT !.todo = @ \ {e}]

\* _escalate.
Escalate(e) ==
    Transition(e, {"unknown"}, "unknown_nonrepeatable", "probe", NoOne)

\* _reconcile_candidate finds no open probe and may plan no further one.
NoProbeLeft(e) ==
    LET k == Len(probes[e]) + 1 IN
    /\ OpenProbes(e) = {}
    /\ \/ k > MaxProbes
       \/ tick.at >= DeadlineOf(e)
       \/ ProbeDue(e, k) > DeadlineOf(e)

\* The candidate's plan after a missing probe has been scheduled.
Planned(e) ==
    IF OpenProbes(e) # {} THEN probes[e]
    ELSE Append(probes[e], NewProbe(ProbeDue(e, Len(probes[e]) + 1)))

\* The number of the probe the candidate works on.
Current(e) == IF OpenProbes(e) # {} THEN OpenProbe(e) ELSE Len(probes[e]) + 1

\* _reconcile_candidate: escalated, because no probe may be planned ...
EscalateUnplanned(e) ==
    /\ Pending(e)
    /\ NoProbeLeft(e)
    /\ Escalate(e)
    /\ CandidateDone(e)
    /\ UNCHANGED <<now, receipt, probes, finding>>

\* ... or because the deadline passed with a probe still open.
EscalateOverdue(e) ==
    /\ Pending(e)
    /\ OpenProbes(e) # {}
    /\ tick.at >= DeadlineOf(e)
    /\ probes' = [probes EXCEPT ![e] = FinishProbe(@, OpenProbe(e), "inconclusive")]
    /\ Escalate(e)
    /\ CandidateDone(e)
    /\ UNCHANGED <<now, receipt, finding>>

\* The current probe is not due yet.
WaitForProbe(e) ==
    /\ Pending(e)
    /\ ~NoProbeLeft(e)
    /\ tick.at < DeadlineOf(e)
    /\ Planned(e)[Current(e)].due > tick.at
    /\ probes' = [probes EXCEPT ![e] = Planned(e)]
    /\ CandidateDone(e)
    /\ UNCHANGED <<now, storeVars, finding>>

\* The current probe is claimed and the evidence gathered.  claim_probe always
\* succeeds: the reconciler is its only worker and an open probe left by a
\* dead process carries the same worker id.
StartProbe(e) ==
    /\ Pending(e)
    /\ ~NoProbeLeft(e)
    /\ tick.at < DeadlineOf(e)
    /\ Planned(e)[Current(e)].due <= tick.at
    /\ probes' = [probes EXCEPT ![e] =
                    [Planned(e) EXCEPT ![Current(e)] =
                        [@ EXCEPT !.owner = "reconciler",
                                  !.until = tick.at + ProbeLease]]]
    /\ finding' = [finding EXCEPT ![e] = LocalEvidence(e)]
    /\ UNCHANGED <<now, storeVars, tick>>

\* The probe has answered: it is finished and reconcile_effect applies it.
ProbeAnswers(e) ==
    LET target == CASE finding[e] = "confirmed"    -> "sent"
                    [] finding[e] = "not_executed" -> "queued"
                    [] OTHER -> "unknown_nonrepeatable"
    IN
    /\ e \in tick.todo /\ finding[e] # "none"
    /\ probes' = [probes EXCEPT ![e] = FinishProbe(@, OpenProbe(e), finding[e])]
    /\ IF finding[e] = "inconclusive" /\ now < DeadlineOf(e)
       THEN UNCHANGED <<effect, attempts>>
       ELSE Transition(e, {"unknown", "unknown_nonrepeatable"}, target,
                       IF finding[e] = "not_executed" THEN "not_executed" ELSE "probe",
                       NoOne)
    /\ finding' = [finding EXCEPT ![e] = "none"]
    /\ CandidateDone(e)
    /\ UNCHANGED <<now, receipt>>

\* The store commits call by call.  What a tick that dies at its beginning has
\* committed: recover_executing, and the first probe of some of the effects.
TickCutShort ==
    /\ ExpiredClaims # {}
    /\ RecoverExecuting
    /\ \E done \in SUBSET ExpiredClaims :
          probes' = [e \in Effects |->
                       IF e \in done /\ probes[e] = <<>> THEN <<NewProbe(now)>>
                                                         ELSE probes[e]]
    /\ UNCHANGED <<now, receipt, tick, finding>>

\* The first commit of a candidate that dies before its second: the probe is
\* finished and the effect not yet moved, or planned and not yet claimed.
CandidateCutShort(e) ==
    \/ /\ e \in tick.todo /\ finding[e] # "none"
       /\ probes' = [probes EXCEPT ![e] = FinishProbe(@, OpenProbe(e), finding[e])]
    \/ /\ Pending(e) /\ OpenProbes(e) # {} /\ tick.at >= DeadlineOf(e)
       /\ probes' = [probes EXCEPT ![e] =
                       FinishProbe(@, OpenProbe(e), "inconclusive")]
    \/ /\ Pending(e) /\ ~NoProbeLeft(e) /\ tick.at < DeadlineOf(e)
       /\ probes' = [probes EXCEPT ![e] = Planned(e)]

ReconcilerNext ==
    \/ TickBegins
    \/ \E e \in Effects :
          \/ EscalateUnplanned(e)
          \/ EscalateOverdue(e)
          \/ WaitForProbe(e)
          \/ StartProbe(e)
          \/ ProbeAnswers(e)

-----------------------------------------------------------------------------
\* operator_decision with confirmed_sent; every other decision leaves the
\* effect as it is.
OperatorConfirms(e) ==
    /\ State(e) = "unknown_nonrepeatable"
    /\ Transition(e, {"unknown_nonrepeatable"}, "sent", "operator", NoOne)
    /\ UNCHANGED <<now, receipt, reconcilerVars>>
=============================================================================
