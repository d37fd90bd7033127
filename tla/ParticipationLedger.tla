------------------------- MODULE ParticipationLedger -------------------------
(***************************************************************************)
(* The allowance for messages the assistant sends unasked: the delivery    *)
(* reservations of the speak-up log, the coroutine that drafts and submits *)
(* a comment, the owner's approval codes, and the reconciler that copies   *)
(* receipts from the processing store into the ledger.  The two databases  *)
(* commit separately, so a crash may fall between them.                    *)
(*                                                                         *)
(* The effect of a proposal is abstract here (EffectOutbox is its model):  *)
(* it is queued, executed at most once, and ends sent, failed or unknown.  *)
(* Code between two suspension points of the event loop is one step.       *)
(***************************************************************************)
EXTENDS Integers, FiniteSets

CONSTANTS
    Proposals,      \* opportunities that reached the comment path
    Approval,       \* those that need the owner's approval
    Jobs,           \* slots for coroutines: decisions and owner messages
    Categories,     \* capacity dimensions
    Dims,           \* Dims[p]: the dimensions proposal p must acquire
    Limit,          \* Limit[c]: accepted sends per window
    Rolling,        \* dimensions with a rolling window, the others use days
    Window, Day,    \* their lengths
    Lease,          \* DELIVERY_RESERVATION_TTL_MS
    OpportunityTTL, \* opportunity_ttl_seconds, also unsubmitted_ttl_ms
    ApprovalTTL,    \* approval_timeout_seconds
    Batch,          \* rows one reconciler pass reads
    MaxTime, MaxCrashes

ASSUME LedgerAssumption ==
    /\ Approval \subseteq Proposals /\ Jobs \subseteq Nat
    /\ Rolling \subseteq Categories
    /\ Dims \in [Proposals -> SUBSET Categories]
    /\ Limit \in [Categories -> Nat \ {0}]
    /\ {Window, Day, Lease, OpportunityTTL, ApprovalTTL, Batch} \subseteq Nat \ {0}
    /\ OpportunityTTL <= Lease
    /\ MaxTime \in Nat /\ MaxCrashes \in Nat

VARIABLES
    row,        \* delivery_reservations, one record per proposal
    status,     \* speakups.status
    approvalEnds, \* approval_expires_at_ms
    claim,      \* approval_claims.state
    effect,     \* state of the proposal's effect in the processing store;
                \* "failed" is failed, cancelled or expired, and "escalated"
                \* is unknown_nonrepeatable
    confirmed,  \* confirmed_ms of its transport receipt
    performed,  \* proposals whose message really went out
    evidence,   \* proposals with a recipient delivery signal
    job,        \* what each coroutine is doing, lost in a crash
    cached,     \* _proposals: proposals a submission has loaded, lost as well;
                \* under a resolved claim nobody looks there any more
    late,       \* history: accepted after the lease had ended
    now, crashes

durable == <<row, status, approvalEnds, claim>>
transport == <<effect, confirmed, performed, evidence>>
vars == <<durable, transport, job, cached, late, now, crashes>>

NoTime == -1
Times == 0 .. MaxTime
Released == {"failed", "cancelled", "expired"}
Accepted == {"transport_accepted", "delivered"}
Held == {"reserved", "submitted", "delivery_unknown"}

NoRow == [delivery |-> "none", attempt |-> "none", created |-> 0,
          accepted |-> NoTime]
Idle == [pc |-> "idle", p |-> "none"]

\* Every field keeps to the values its column or task may hold.
TypeOK ==
    /\ row \in [Proposals ->
           [delivery : {"none"} \cup Held \cup Accepted \cup Released,
            attempt : {"none", "unsubmitted", "submitted", "accepted",
                       "delivered", "unknown", "released"},
            created : Times, accepted : Times \cup {NoTime}]]
    /\ status \in [Proposals -> {"none", "proposed", "awaiting_approval",
                                 "submitted", "terminal"}]
    /\ approvalEnds \in [Proposals -> 0 .. MaxTime + ApprovalTTL]
    /\ claim \in [Proposals -> {"none", "claimed", "terminal"}]
    /\ effect \in [Proposals -> {"absent", "queued", "executing", "sent",
                                 "failed", "blocked", "unknown", "escalated"}]
    /\ confirmed \in [Proposals -> Times \cup {NoTime}]
    /\ performed \subseteq Proposals /\ evidence \subseteq performed
    /\ job \in [Jobs -> {Idle} \cup
           [pc : {"drafting", "previewing", "waiting", "calling", "running"},
            p : Proposals]]
    /\ {late, cached} \subseteq SUBSET Proposals
    /\ now \in Times /\ crashes \in 0 .. MaxCrashes

Init ==
    /\ row = [p \in Proposals |-> NoRow]
    /\ status = [p \in Proposals |-> "none"]
    /\ approvalEnds = [p \in Proposals |-> 0]
    /\ claim = [p \in Proposals |-> "none"]
    /\ effect = [p \in Proposals |-> "absent"]
    /\ confirmed = [p \in Proposals |-> NoTime]
    /\ performed = {} /\ evidence = {} /\ late = {} /\ cached = {}
    /\ job = [j \in Jobs |-> Idle]
    /\ now = 0 /\ crashes = 0

-----------------------------------------------------------------------------
(* The ledger: SpeakupLog.                                                 *)

LeaseEnded(p) == now >= row[p].created + Lease

\* The window of dimension c that a send at time t belongs to contains at.
InWindow(c, t, at) ==
    IF c \in Rolling THEN t - Window < at /\ at <= t
    ELSE at \div Day = t \div Day

\* Mutant: only accepted sends count, an open reservation holds nothing.
CountedAcceptedOnly(c, p) ==
    {q \in Proposals \ {p} :
        /\ c \in Dims[q]
        /\ row[q].delivery \in Accepted
        /\ InWindow(c, now, row[q].accepted)}

\* _held_or_accepted_count: sends accepted in the window and unexpired leases.
Counted(c, p) ==
    {q \in Proposals \ {p} :
        /\ row[q].delivery # "none"
        /\ c \in Dims[q]
        /\ \/ row[q].delivery \in Accepted /\ InWindow(c, now, row[q].accepted)
           \/ row[q].delivery \in Held /\ row[q].created > now - Lease}

\* reserve_delivery_sync acquires every dimension or none.
Capacity(p) == \A c \in Dims[p] : Cardinality(Counted(c, p)) < Limit[c]

\* mark_status touches the speakups row, which only a staged proposal has.
Marked(p, s) == IF status[p] = "none" THEN "none" ELSE s

\* record_send_attempt: what it leaves of the row, which is not what the
\* released states would suggest.
Attempted(r) ==
    [r EXCEPT !.attempt = "submitted",
              !.delivery = IF @ = "reserved" THEN "submitted" ELSE @]

\* Mutant: unknown evidence is refunded like a definite failure.
ReleasedRowUnknownToo(r, s) ==
    IF r.delivery \in Held
    THEN [r EXCEPT !.delivery = s, !.attempt = "released"]
    ELSE r

\* release_delivery: a consumed or released row is left alone.
ReleasedRow(r, s) ==
    IF r.delivery \in {"reserved", "submitted"}
    THEN [r EXCEPT !.delivery = s, !.attempt = "released"]
    ELSE r

\* project_transport_accepted: once, and never out of a released state.
AcceptedRow(r, at) ==
    IF r.delivery \in Held
    THEN [r EXCEPT !.delivery = "transport_accepted", !.attempt = "accepted",
                   !.accepted = at]
    ELSE r

\* project_recipient_delivery: evidence of receipt is also acceptance.
DeliveredRow(r, at) ==
    IF r.delivery = "delivered" THEN r
    ELSE [r EXCEPT !.delivery = "delivered", !.attempt = "delivered",
                   !.accepted = IF r.delivery = "transport_accepted" THEN @
                                ELSE at]

\* note_delivery_unknown: the hold stays until its lease ends.
UnknownRow(r) ==
    IF r.delivery \in {"reserved", "submitted"}
    THEN [r EXCEPT !.delivery = "delivery_unknown", !.attempt = "unknown"]
    ELSE r

\* The rows that pending_delivery_reservations still offers.
Pending == {p \in Proposals : row[p].delivery \in Held \cup {"transport_accepted"}}

\* Writes rows; the history variable follows.
Write(rows) ==
    /\ row' = rows
    /\ late' = late \cup {p \in Proposals : /\ row[p].delivery \notin Accepted
                                            /\ rows[p].delivery \in Accepted
                                            /\ LeaseEnded(p)}
WriteRow(p, r) == Write([row EXCEPT ![p] = r])

\* A new coroutine; the slots have no meaning, it takes the first free one.
Free(j) == job[j] = Idle /\ \A k \in Jobs : job[k] = Idle => j <= k

Become(j, pc) == job' = [job EXCEPT ![j].pc = pc]
End(j) == job' = [job EXCEPT ![j] = Idle]

-----------------------------------------------------------------------------
(* A decision of the runtime: reserve, draft, then submit or ask the owner. *)

Reserve(j, p) ==
    /\ Free(j)
    /\ row[p].delivery = "none"
    /\ Capacity(p)
    /\ WriteRow(p, [delivery |-> "reserved", attempt |-> "unsubmitted",
                    created |-> now, accepted |-> NoTime])
    /\ job' = [job EXCEPT ![j] = [pc |-> "drafting", p |-> p]]
    /\ UNCHANGED <<status, approvalEnds, claim, transport, cached, now, crashes>>

\* _release_comment, on every path that gives a reserved comment up.
Abandon(j) ==
    /\ job[j].pc = "drafting"
    /\ WriteRow(job[j].p, ReleasedRow(row[job[j].p], "failed"))
    /\ End(j)
    /\ UNCHANGED <<status, approvalEnds, claim, transport, cached, now, crashes>>

\* _within_opportunity_deadline; the opportunity is older than its reservation,
\* the judge's call lies between the two.
Fresh(p) == now < row[p].created + OpportunityTTL

\* enqueue_participation_effect: idempotent, and expired on arrival when the
\* lease that bounds expires_at_ms has ended.
Enqueued(p) ==
    IF effect[p] = "absent"
    THEN IF LeaseEnded(p) THEN "failed" ELSE "queued"
    ELSE effect[p]

\* EffectRouter._run up to execute_ready, and what an owner's approval makes
\* of its early returns.
Submit(j, p) ==
    /\ UNCHANGED <<approvalEnds, confirmed, performed, evidence, now, crashes>>
    /\ \/ /\ LeaseEnded(p)      \* record_send_attempt raises
          /\ effect' = [effect EXCEPT ![p] = Enqueued(p)]
          /\ status' = [status EXCEPT ![p] = Marked(p, "submitted")]
          /\ End(j)
          /\ UNCHANGED <<row, late, claim>>
       \/ /\ ~LeaseEnded(p)
          /\ effect' = [effect EXCEPT ![p] = Enqueued(p)]
          /\ WriteRow(p, Attempted(row[p]))
          /\ Become(j, "calling")
          /\ UNCHANGED <<status, claim>>
       \/ /\ ~LeaseEnded(p)     \* _capacity_block
          /\ effect' = [effect EXCEPT ![p] =
                            IF Enqueued(p) = "queued" THEN "blocked" ELSE @]
          /\ WriteRow(p, ReleasedRow(Attempted(row[p]), "failed"))
          /\ status' = [status EXCEPT ![p] = Marked(p, "submitted")]
          /\ claim' = [claim EXCEPT ![p] =
                           IF p \in Approval THEN "terminal" ELSE @]
          /\ End(j)

SubmitComment(j) ==
    /\ job[j].pc = "drafting"
    /\ job[j].p \notin Approval
    /\ Fresh(job[j].p)
    /\ Submit(j, job[j].p)
    /\ UNCHANGED cached

\* stage_participation_approval up to the preview to the owner.
Stage(j) ==
    /\ job[j].pc = "drafting"
    /\ job[j].p \in Approval
    /\ Fresh(job[j].p)
    /\ status' = [status EXCEPT ![job[j].p] = "proposed"]
    /\ approvalEnds' = [approvalEnds EXCEPT ![job[j].p] = now + ApprovalTTL]
    /\ Become(j, "previewing")
    /\ UNCHANGED <<row, late, claim, transport, cached, now, crashes>>

\* record_preview_effect, whatever became of the proposal meanwhile.
PreviewSent(j) ==
    /\ job[j].pc = "previewing"
    /\ status' = [status EXCEPT ![job[j].p] = "awaiting_approval"]
    /\ End(j)
    /\ UNCHANGED <<row, late, approvalEnds, claim, transport, cached, now, crashes>>

PreviewFailed(j) ==
    /\ job[j].pc = "previewing"
    /\ WriteRow(job[j].p, ReleasedRow(row[job[j].p], "failed"))
    /\ status' = [status EXCEPT ![job[j].p] = "terminal"]
    /\ End(j)
    /\ UNCHANGED <<approvalEnds, claim, transport, cached, now, crashes>>

-----------------------------------------------------------------------------
(* The owner's codes: SpeakupApprovalMiddleware and submit_proposal.       *)

\* spk-approve: the claim is written, then the commit lock is waited for.
Approve(j, p) ==
    /\ Free(j)
    /\ status[p] = "awaiting_approval"
    /\ approvalEnds[p] > now
    /\ claim[p] # "terminal"
    /\ claim' = [claim EXCEPT ![p] = "claimed"]
    /\ job' = [job EXCEPT ![j] = [pc |-> "waiting", p |-> p]]
    /\ UNCHANGED <<row, late, status, approvalEnds, transport, cached, now, crashes>>

\* spk-deny, or any code that comes too late: only an unsubmitted reservation
\* is released.
Close(p) ==
    /\ status[p] = "awaiting_approval"
    /\ WriteRow(p, IF row[p].attempt = "unsubmitted"
                   THEN ReleasedRow(row[p], IF approvalEnds[p] > now
                                            THEN "cancelled" ELSE "expired")
                   ELSE row[p])
    /\ status' = [status EXCEPT ![p] = "terminal"]
    /\ UNCHANGED <<approvalEnds, claim, transport, job, cached, now, crashes>>

LockFree ==
    \A k \in Jobs : job[k].pc \in {"calling", "running"}
                        => job[k].p \notin Approval

\* Mutant: the durable status is not looked at again behind the lock.
LoadableAlways(p) == status[p] = status[p]

\* _load_proposal: a terminal proposal is not loaded, unless an earlier
\* submission of this process has left it in _proposals.
Loadable(p) == p \in cached \/ status[p] # "terminal"

\* The submission goes on to the effect path.
Cleared(p) == claim[p] = "claimed" /\ Loadable(p) /\ approvalEnds[p] > now

\* submit_proposal refuses: the claim is resolved or the proposal terminal,
\* the approval has expired, or what was approved has changed.  A changed
\* admission leaves the status alone.  _approve resolves the claim.
Refuse(j) ==
    LET p == job[j].p IN
    /\ job[j].pc = "waiting"
    /\ LockFree
    /\ End(j)
    /\ claim' = [claim EXCEPT ![p] = "terminal"]
    /\ IF claim[p] = "claimed" /\ Loadable(p)
       THEN /\ WriteRow(p, ReleasedRow(row[p], IF approvalEnds[p] > now
                                               THEN "failed" ELSE "expired"))
            /\ \/ status' = [status EXCEPT ![p] = "terminal"]
               \/ approvalEnds[p] > now /\ UNCHANGED status
       ELSE UNCHANGED <<row, late, status>>
    /\ UNCHANGED <<approvalEnds, transport, cached, now, crashes>>

SubmitApproved(j) ==
    /\ job[j].pc = "waiting"
    /\ LockFree
    /\ Cleared(job[j].p)
    /\ Submit(j, job[j].p)
    /\ cached' = cached \cup {q \in {job[j].p} : claim'[q] = "claimed"}

-----------------------------------------------------------------------------
(* The effect of a proposal, and the caller that waits for it.             *)

\* _reservation_pre_dispatch and the part of ParticipationEffectAuthorizer
\* that looks at the ledger: it reads attempt_state.
Authorized(p) == row[p].attempt = "submitted" /\ ~LeaseEnded(p)

\* execute_ready claims a queued effect, or denies it: the other checks of the
\* authorizer may fail at any time.
Start(j) ==
    LET p == job[j].p IN
    /\ job[j].pc = "calling"
    /\ effect[p] = "queued"
    /\ \/ /\ Authorized(p)
          /\ effect' = [effect EXCEPT ![p] = "executing"]
          /\ Become(j, "running")
       \/ /\ \E denied \in {"blocked", "failed"} :
                 effect' = [effect EXCEPT ![p] = denied]
          /\ UNCHANGED job
    /\ UNCHANGED <<durable, confirmed, performed, evidence, late, cached, now, crashes>>

\* An executing effect ends; a crash leaves it without its caller.
Outcome(p) ==
    /\ effect[p] = "executing"
    /\ \/ /\ \E j \in Jobs : job[j] = [pc |-> "running", p |-> p]
          /\ \/ /\ effect' = [effect EXCEPT ![p] = "sent"]
                /\ confirmed' = [confirmed EXCEPT ![p] = now]
                /\ performed' = performed \cup {p}
             \/ /\ effect' = [effect EXCEPT ![p] = "failed"]
                /\ UNCHANGED <<confirmed, performed>>
       \/ /\ effect' = [effect EXCEPT ![p] = "unknown"]
          /\ performed' \in {performed, performed \cup {p}}
          /\ UNCHANGED confirmed
    /\ UNCHANGED <<durable, evidence, job, late, cached, now, crashes>>

\* A receipt that is stored after recovery has called the effect unknown.  The
\* transport's timeouts end its call before the deadline of the escalation.
LateReceipt(p) ==
    /\ effect[p] = "unknown"
    /\ p \in performed
    /\ confirmed[p] = NoTime
    /\ confirmed' = [confirmed EXCEPT ![p] = now]
    /\ UNCHANGED <<durable, effect, performed, evidence, job, late, cached, now, crashes>>

\* The probe of an unknown effect: a stored receipt confirms it, and without
\* one it is escalated in the end.  (A recorded failure would requeue it, but an
\* attempt that failed ends a participation effect.)
Probe(p) ==
    /\ effect[p] = "unknown"
    /\ effect' = [effect EXCEPT ![p] = IF confirmed[p] # NoTime THEN "sent"
                                                             ELSE "escalated"]
    /\ UNCHANGED <<durable, confirmed, performed, evidence, job, late, cached, now,
                   crashes>>

\* operator_decision with confirmed_sent, which stores no receipt and may err.
OperatorConfirms(p) ==
    /\ effect[p] = "escalated"
    /\ effect' = [effect EXCEPT ![p] = "sent"]
    /\ UNCHANGED <<durable, confirmed, performed, evidence, job, late, cached, now,
                   crashes>>

\* A recipient's delivery receipt or reaction reaches the signal table.  It is
\* looked up for a pending row under the message id the receipt has brought, so
\* one that comes earlier may as well come now, and a later one changes nothing.
Signal(p) ==
    /\ p \in performed \ evidence
    /\ confirmed[p] # NoTime /\ p \in Pending
    /\ evidence' = evidence \cup {p}
    /\ UNCHANGED <<durable, effect, confirmed, performed, job, late, cached, now, crashes>>

\* execute_ready returned: EffectRouter._run projects what it says, an acceptance
\* only with its receipt, and an approval resolves its claim.
Finish(j) ==
    LET p == job[j].p
        sent == effect[p] = "sent"
        definite == effect[p] \in {"failed", "blocked"}
    IN
    /\ \/ job[j].pc = "calling" /\ effect[p] # "queued"
       \/ job[j].pc = "running" /\ effect[p] # "executing"
    /\ WriteRow(p, IF sent /\ confirmed[p] # NoTime THEN AcceptedRow(row[p], now)
                   ELSE IF definite THEN ReleasedRow(row[p], "failed")
                   ELSE row[p])
    /\ status' = [status EXCEPT ![p] =
           Marked(p, IF sent \/ effect[p] = "failed"
                     THEN "terminal" ELSE "submitted")]
    /\ claim' = [claim EXCEPT ![p] =
           IF p \in Approval /\ (sent \/ definite) THEN "terminal" ELSE @]
    /\ End(j)
    /\ cached' = IF claim'[p] = "terminal" THEN cached \ {p} ELSE cached
    /\ UNCHANGED <<approvalEnds, transport, now, crashes>>

-----------------------------------------------------------------------------
(* ParticipationReceiptReconciler, and the crash it cleans up after.       *)

Rank(p) ==
    CASE row[p].delivery \in {"submitted", "transport_accepted"} -> 0
      [] row[p].delivery = "reserved" -> 1
      [] OTHER -> 2

Precedes(p, q) ==
    \/ Rank(p) < Rank(q)
    \/ Rank(p) = Rank(q) /\ row[p].created < row[q].created

\* pending_delivery_reservations: the first Batch rows of its order.
Batches ==
    {S \in SUBSET Pending :
        /\ \/ S = Pending /\ Cardinality(S) <= Batch
           \/ Cardinality(S) = Batch
        /\ \A p \in S, q \in Pending \ S : ~Precedes(q, p)}

ValidPendingApproval(p) ==
    status[p] = "awaiting_approval" /\ approvalEnds[p] > now

\* _project_recipient_evidence: a signal for the provider's message id.
Evidenced(p, r) ==
    IF confirmed[p] # NoTime /\ p \in evidence THEN DeliveredRow(r, now) ELSE r

\* Mutant: an effect that may have run is taken for one that did.
ProjectedTrusting(p) ==
    LET r == row[p] IN
    CASE r.delivery \in Held /\ effect[p] \in {"sent", "unknown"}
           -> AcceptedRow(r, now)
      [] OTHER -> r

\* Mutant: a row once noted as unknown only waits for recipient evidence.
ProjectedUnknownStays(p) ==
    LET r == row[p] IN
    CASE r.delivery \in {"transport_accepted", "delivery_unknown"}
           -> Evidenced(p, r)
      [] effect[p] = "sent" /\ confirmed[p] # NoTime -> AcceptedRow(r, confirmed[p])
      [] effect[p] = "unknown" -> UnknownRow(r)
      [] OTHER -> r

\* What one pass of reconcile makes of a row.
Projected(p) ==
    LET r == row[p] IN
    CASE \/ r.delivery = "transport_accepted"
         \/ r.delivery = "delivery_unknown" /\ effect[p] # "sent"
           -> Evidenced(p, r)
      [] r.delivery \in {"reserved", "submitted"} /\ effect[p] = "absent"
           -> IF /\ r.attempt = "unsubmitted"
                 /\ ~ValidPendingApproval(p)
                 /\ now >= r.created + OpportunityTTL
              THEN ReleasedRow(r, "expired") ELSE r
      [] effect[p] = "sent"
           -> IF confirmed[p] = NoTime THEN r
              ELSE Evidenced(p, AcceptedRow(r, confirmed[p]))
      [] effect[p] = "failed" /\ r.delivery = "submitted"
           -> ReleasedRow(r, "failed")
      [] effect[p] = "unknown" -> UnknownRow(r)
      [] OTHER -> r

ProjectBatch ==
    \E S \in Batches :
        LET rows == [p \in Proposals |-> IF p \in S THEN Projected(p) ELSE row[p]]
        IN  /\ Write(rows)
            /\ status' = [p \in Proposals |->
                   IF rows[p].delivery # row[p].delivery
                   THEN Marked(p, "terminal") ELSE status[p]]

Reconcile ==
    /\ ProjectBatch
    /\ UNCHANGED <<approvalEnds, claim, transport, job, cached, now, crashes>>

Crash ==
    /\ crashes < MaxCrashes
    /\ crashes' = crashes + 1
    /\ job' = [j \in Jobs |-> Idle] /\ cached' = {}
    /\ UNCHANGED <<approvalEnds, claim, confirmed, performed, evidence, now>>

\* The process dies and starts again; recover_once runs before any message is
\* taken in.
Restart ==
    /\ Crash
    /\ ProjectBatch
    /\ UNCHANGED effect

\* It dies between the effect's commit and record_send_attempt's; the pass of
\* the next start is a Reconcile step.
CrashBetweenCommits(j) ==
    LET p == job[j].p IN
    /\ \/ job[j].pc = "drafting" /\ p \notin Approval /\ Fresh(p)
       \/ job[j].pc = "waiting" /\ LockFree /\ Cleared(p)
    /\ Crash
    /\ effect' = [effect EXCEPT ![p] = Enqueued(p)]
    /\ UNCHANGED <<row, late, status>>

Tick ==
    /\ now < MaxTime
    /\ now' = now + 1
    /\ UNCHANGED <<durable, transport, job, cached, late, crashes>>

Next ==
    \/ \E j \in Jobs :
          \/ \E p \in Proposals : Reserve(j, p) \/ Approve(j, p)
          \/ Abandon(j) \/ SubmitComment(j)
          \/ Stage(j) \/ PreviewSent(j) \/ PreviewFailed(j)
          \/ Refuse(j) \/ SubmitApproved(j)
          \/ Start(j) \/ Finish(j) \/ CrashBetweenCommits(j)
    \/ \E p \in Proposals :
          \/ Close(p) \/ Signal(p)
          \/ Outcome(p) \/ LateReceipt(p) \/ Probe(p) \/ OperatorConfirms(p)
    \/ Reconcile \/ Restart \/ Tick

Spec == Init /\ [][Next]_vars

\* The reconciliation loop runs as long as the process does.
FairSpec == Spec /\ WF_vars(Reconcile)

-----------------------------------------------------------------------------
(* Properties.                                                             *)

\* In no window, rolling or calendar day, past or present, did the ledger let
\* more sends be accepted than the limit, however reservations, sends, crashes
\* and late projections interleave - except for those whose acceptance was
\* learnt after their lease had ended (_held_or_accepted_count lets an unknown
\* outcome hold capacity for the lease and no longer).
WindowKept ==
    \A c \in Categories, t \in 0 .. now :
        Cardinality({p \in Proposals :
            /\ c \in Dims[p]
            /\ row[p].delivery \in Accepted
            /\ InWindow(c, t, row[p].accepted)
            /\ p \notin late}) <= Limit[c]

\* The ledger charges only what went out: an accepted or delivered reservation
\* belongs to a message that was really sent, across crashes, probes and late
\* receipts (the reconciler "never invents evidence").
ChargedWasSent ==
    \A p \in Proposals : row[p].delivery \in Accepted => p \in performed

\* The owner decides: a message that needs approval goes out only under the
\* owner's claim, and never once a denial has cancelled its reservation, also
\* when approve and deny codes, crashes and the commit lock interleave.
OwnerDecides ==
    \A p \in Approval :
        p \in performed \/ effect[p] = "executing" =>
            claim[p] # "none" /\ row[p].delivery # "cancelled"

\* An accepted send is never refunded or charged a second time, and an unknown
\* outcome is never refunded (release_delivery, project_transport_accepted).
NeverRefunded ==
    [][\A p \in Proposals :
          /\ row[p].delivery \in Accepted =>
                 /\ row'[p].delivery \in Accepted
                 /\ row'[p].accepted = row[p].accepted
          /\ row[p].delivery = "delivery_unknown" =>
                 row'[p].delivery \in Accepted \cup {"delivery_unknown"}]_vars

\* A send the processing store holds the receipt of does not stay uncharged,
\* when one pass of the reconciler can read every pending row: again and again
\* there is no sent effect with a receipt and an open reservation.  (What an
\* operator confirms without a receipt holds its capacity until the lease ends
\* and is never charged.)
ConfirmedIsCharged ==
    []<>(\A p \in Proposals :
            ~(effect[p] = "sent" /\ confirmed[p] # NoTime /\ row[p].delivery \in Held))

\* What release_delivery says of itself: "Release an unsubmitted/definitely-
\* unaccepted reservation."  So nothing of a released reservation goes out.
ReleasedNeverSent ==
    \A p \in Proposals : row[p].delivery \in Released => p \notin performed

\* What submit_proposal says of a submission that raised: "Keep the hold until
\* the same deterministic effect is reconciled."
HoldIsReconciled ==
    \A p \in Proposals :
        status[p] = "submitted" /\ row[p].delivery \in {"reserved", "submitted"}
            ~> row[p].delivery \notin {"reserved", "submitted"}
=============================================================================
