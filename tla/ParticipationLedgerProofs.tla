---------------------- MODULE ParticipationLedgerProofs ----------------------
(***************************************************************************)
(* What the ledger guarantees for any proposals, limits, leases, slots and *)
(* crashes: only what went out is charged, a charge is never taken back,   *)
(* and what needs approval goes out by the owner's word alone.             *)
(***************************************************************************)
EXTENDS ParticipationLedger, TLAPS

Deliveries == {"none"} \cup Held \cup Accepted \cup Released
Attempts == {"none", "unsubmitted", "submitted", "accepted", "delivered",
             "unknown", "released"}
Row == [delivery : Deliveries, attempt : Attempts, created : Times,
        accepted : Times \cup {NoTime}]

\* What a write may make of a row without taking a charge back or refunding an
\* unknown outcome.
Keeps(r, s) ==
    /\ r.delivery \in Accepted =>
           s.delivery \in Accepted /\ s.accepted = r.accepted
    /\ r.delivery = "delivery_unknown" =>
           s.delivery \in Accepted \cup {"delivery_unknown"}

\* The helpers of SpeakupLog write rows, and keep what they must.
LEMMA AttemptedFacts ==
    ASSUME NEW r \in Row
    PROVE  /\ Attempted(r) \in Row
           /\ Keeps(r, Attempted(r))
           /\ Attempted(r).attempt = "submitted"
           /\ Attempted(r).delivery \in Accepted => r.delivery \in Accepted
           /\ Attempted(r).delivery = "none" <=> r.delivery = "none"
           /\ Attempted(r).delivery = "cancelled" => r.delivery = "cancelled"
BY Zenon DEF Attempted, Row, Keeps, Deliveries, Attempts, Held, Accepted, Released

LEMMA ReleasedRowFacts ==
    ASSUME NEW r \in Row, NEW s \in Released
    PROVE  /\ ReleasedRow(r, s) \in Row
           /\ Keeps(r, ReleasedRow(r, s))
           /\ ReleasedRow(r, s).delivery \in Accepted => r.delivery \in Accepted
           /\ ReleasedRow(r, s).delivery \in {r.delivery, s}
           /\ ReleasedRow(r, s).delivery = "none" <=> r.delivery = "none"
           /\ ReleasedRow(r, s).attempt \in {r.attempt, "released"}
BY Zenon DEF ReleasedRow, Row, Keeps, Deliveries, Attempts, Held, Accepted, Released

LEMMA AcceptedRowFacts ==
    ASSUME NEW r \in Row, NEW at \in Times
    PROVE  /\ AcceptedRow(r, at) \in Row
           /\ Keeps(r, AcceptedRow(r, at))
           /\ AcceptedRow(r, at).delivery \in {r.delivery, "transport_accepted"}
           /\ AcceptedRow(r, at).delivery = "none" <=> r.delivery = "none"
           /\ AcceptedRow(r, at).attempt \in {r.attempt, "accepted"}
BY Zenon DEF AcceptedRow, Row, Keeps, Deliveries, Attempts, Held, Accepted, Released

LEMMA DeliveredRowFacts ==
    ASSUME NEW r \in Row, NEW at \in Times
    PROVE  /\ DeliveredRow(r, at) \in Row
           /\ r.delivery \notin Released => Keeps(r, DeliveredRow(r, at))
           /\ DeliveredRow(r, at).delivery = "delivered"
           /\ DeliveredRow(r, at).attempt \in {r.attempt, "delivered"}
BY Zenon DEF DeliveredRow, Row, Keeps, Deliveries, Attempts, Held, Accepted, Released

LEMMA UnknownRowFacts ==
    ASSUME NEW r \in Row
    PROVE  /\ UnknownRow(r) \in Row
           /\ Keeps(r, UnknownRow(r))
           /\ UnknownRow(r).delivery \in Accepted => r.delivery \in Accepted
           /\ UnknownRow(r).delivery \in {r.delivery, "delivery_unknown"}
           /\ UnknownRow(r).attempt \in {r.attempt, "unknown"}
BY Zenon DEF UnknownRow, Row, Keeps, Deliveries, Attempts, Held, Accepted, Released

\* Some coroutine is at work on p.
Busy(p) == \E j \in Jobs : job[j].pc # "idle" /\ job[j].p = p

Preparing(j, p) == job[j].pc \in {"drafting", "previewing"} /\ job[j].p = p

Waiting(j, p) == job[j].pc = "waiting" /\ job[j].p = p

\* The owner has been asked about p.
Asked(p) ==
    \/ status[p] = "awaiting_approval"
    \/ claim[p] # "none"
    \/ row[p].delivery = "cancelled"

\* The effect of p was let through to execute_ready or beyond.
Launched(p) ==
    \/ p \in performed
    \/ effect[p] = "executing"
    \/ \E j \in Jobs : job[j].pc \in {"calling", "running"} /\ job[j].p = p

\* The inductive form of OwnerDecides for a proposal p that needs approval.  A
\* denial cancels only an unsubmitted reservation; by then the draft is done,
\* the status is terminal, and no submission has left p in _proposals, so no
\* later submission loads it.
OwnerInv(p) ==
    /\ row[p].delivery = "none" => /\ row[p].attempt = "none"
                                   /\ status[p] = "none" /\ claim[p] = "none"
                                   /\ p \notin cached /\ ~Busy(p)
                                   /\ ~Launched(p)
    /\ \A j, k \in Jobs : Preparing(j, p) /\ Preparing(k, p) => j = k
    /\ Asked(p) => \A j \in Jobs : ~Preparing(j, p)
    /\ \A j \in Jobs : Waiting(j, p) => claim[p] # "none"
    /\ p \in cached => /\ claim[p] # "none"
                       /\ \/ status[p] # "awaiting_approval"
                          \/ row[p].attempt # "unsubmitted"
    /\ row[p].delivery = "cancelled" => status[p] = "terminal" /\ p \notin cached
    /\ Launched(p) => /\ claim[p] # "none"
                      /\ row[p].attempt \notin {"none", "unsubmitted"}
                      /\ row[p].delivery # "cancelled"

LedgerInv ==
    /\ TypeOK
    /\ \A p \in Proposals : confirmed[p] # NoTime => p \in performed
    /\ ChargedWasSent
    /\ \A p \in Approval : OwnerInv(p)

-----------------------------------------------------------------------------
(* What a step may do to the rows.                                         *)

RowsSafe ==
    /\ row' \in [Proposals -> Row]
    /\ late' \subseteq Proposals
    /\ \A p \in Proposals :
           /\ Keeps(row[p], row'[p])
           /\ row'[p].delivery \in Accepted =>
                  row[p].delivery \in Accepted \/ p \in performed

LEMMA TypedRows ==
    TypeOK => row \in [Proposals -> Row] /\ NoTime \notin Times /\ now \in Times
BY LedgerAssumption DEF TypeOK, Row, Deliveries, Attempts, Times, NoTime

LEMMA WriteFacts ==
    ASSUME TypeOK, NEW rows \in [Proposals -> Row], Write(rows),
           \A p \in Proposals :
               /\ Keeps(row[p], rows[p])
               /\ rows[p].delivery \in Accepted =>
                      row[p].delivery \in Accepted \/ p \in performed
    PROVE  RowsSafe
<1>1. late' \subseteq Proposals
    BY DEF Write, TypeOK
<1> QED
    BY <1>1 DEF Write, RowsSafe

\* Writing one row.
LEMMA WriteRowFacts ==
    ASSUME TypeOK, NEW p \in Proposals, NEW r \in Row, WriteRow(p, r),
           Keeps(row[p], r),
           r.delivery \in Accepted => row[p].delivery \in Accepted \/ p \in performed
    PROVE  /\ RowsSafe
           /\ row' = [row EXCEPT ![p] = r]
           /\ row'[p] = r
           /\ \A q \in Proposals \ {p} : row'[q] = row[q]
<1> DEFINE rows == [row EXCEPT ![p] = r]
<1>1. rows \in [Proposals -> Row] /\ rows[p] = r
      /\ \A q \in Proposals \ {p} : rows[q] = row[q]
    BY TypedRows
<1>2. \A q \in Proposals : Keeps(row[q], row[q])
    BY DEF Keeps
<1>3. Write(rows)
    BY DEF WriteRow
<1>4. \A q \in Proposals :
          /\ Keeps(row[q], rows[q])
          /\ rows[q].delivery \in Accepted =>
                 row[q].delivery \in Accepted \/ q \in performed
    BY <1>1, <1>2
<1>5. RowsSafe
    BY <1>1, <1>3, <1>4, WriteFacts, Zenon
<1>6. row' = rows
    BY <1>3 DEF Write
<1> QED
    BY <1>1, <1>5, <1>6

\* A step that leaves the rows alone.
LEMMA SameRowsSafe ==
    ASSUME TypeOK, row' = row, late' = late
    PROVE  RowsSafe
<1>1. row \in [Proposals -> Row] /\ late \subseteq Proposals
    BY TypedRows, Zenon DEF TypeOK
<1> QED
    BY <1>1 DEF RowsSafe, Keeps

-----------------------------------------------------------------------------
(* The reconciler.                                                         *)

\* What a pass makes of a pending row: it releases, charges or notes it on
\* evidence of the processing store, and cancels nothing.
LEMMA ProjectedFacts ==
    ASSUME LedgerInv, NEW p \in Pending
    PROVE  /\ Projected(p) \in Row
           /\ Keeps(row[p], Projected(p))
           /\ Projected(p).delivery \in Accepted =>
                  row[p].delivery \in Accepted \/ p \in performed
           /\ Projected(p).delivery \notin {"none", "cancelled"}
           /\ Projected(p).attempt = row[p].attempt
              \/ Projected(p).attempt \notin {"none", "unsubmitted"}
<1> DEFINE r == row[p]
<1>1. /\ p \in Proposals /\ r \in Row
      /\ r.delivery \in {"reserved", "submitted", "delivery_unknown",
                         "transport_accepted"}
      /\ confirmed[p] \in Times \cup {NoTime} /\ now \in Times
      /\ NoTime \notin Times
      /\ evidence \subseteq performed
      /\ confirmed[p] # NoTime => p \in performed
    BY TypedRows, Zenon DEF LedgerInv, TypeOK, Pending, Held
<1>2. ASSUME NEW s \in Row, Keeps(r, s), s.delivery \notin Released \cup {"none"},
             s.delivery \in Accepted => r.delivery \in Accepted \/ p \in performed,
             s.attempt = r.attempt \/ s.attempt \notin {"none", "unsubmitted"}
      PROVE  /\ Evidenced(p, s) \in Row
             /\ Keeps(r, Evidenced(p, s))
             /\ Evidenced(p, s).delivery \in Accepted =>
                    r.delivery \in Accepted \/ p \in performed
             /\ Evidenced(p, s).delivery \notin {"none", "cancelled"}
             /\ Evidenced(p, s).attempt = r.attempt
                \/ Evidenced(p, s).attempt \notin {"none", "unsubmitted"}
    <2>1. CASE confirmed[p] # NoTime /\ p \in evidence
        <3>1. Evidenced(p, s) = DeliveredRow(s, now)
            BY <2>1 DEF Evidenced
        <3>2. /\ DeliveredRow(s, now) \in Row
              /\ Keeps(s, DeliveredRow(s, now))
              /\ DeliveredRow(s, now).delivery = "delivered"
              /\ DeliveredRow(s, now).attempt \in {s.attempt, "delivered"}
            BY <1>1, <1>2, DeliveredRowFacts, Zenon
        <3>3. Keeps(r, DeliveredRow(s, now))
            BY <1>2, <3>2, Zenon DEF Keeps, Accepted
        <3> QED
            BY <1>1, <1>2, <2>1, <3>1, <3>2, <3>3, Zenon
    <2>2. CASE ~(confirmed[p] # NoTime /\ p \in evidence)
        BY <1>2, <2>2, Zenon DEF Evidenced, Released
    <2> QED
        BY <2>1, <2>2, Zenon
<1>3. /\ Keeps(r, r) /\ r.delivery \notin Released \cup {"none"}
      /\ Projected(p) \in {r, Evidenced(p, r), ReleasedRow(r, "expired"),
                           ReleasedRow(r, "failed"), UnknownRow(r)}
         \/ /\ effect[p] = "sent" /\ confirmed[p] \in Times
            /\ Projected(p) = Evidenced(p, AcceptedRow(r, confirmed[p]))
    BY <1>1 DEF Projected, Keeps, Released
<1>4. CASE Projected(p) = r
    BY <1>1, <1>3, <1>4, Zenon DEF Released
<1>5. CASE Projected(p) = Evidenced(p, r)
    BY <1>1, <1>2, <1>3, <1>5, Zenon
<1>6. CASE \E s \in {"expired", "failed"} : Projected(p) = ReleasedRow(r, s)
    <2>1. PICK s \in {"expired", "failed"} : Projected(p) = ReleasedRow(r, s)
        BY <1>6
    <2>2. s \in Released
        BY DEF Released
    <2> QED
        BY <1>1, <2>1, <2>2, ReleasedRowFacts
<1>7. CASE Projected(p) = UnknownRow(r)
    BY <1>1, <1>7, UnknownRowFacts, Zenon
<1>8. CASE /\ effect[p] = "sent" /\ confirmed[p] \in Times
           /\ Projected(p) = Evidenced(p, AcceptedRow(r, confirmed[p]))
    <2> DEFINE s == AcceptedRow(r, confirmed[p])
    <2>1. /\ s \in Row /\ Keeps(r, s)
          /\ s.delivery \in {r.delivery, "transport_accepted"}
          /\ s.attempt \in {r.attempt, "accepted"}
        BY <1>1, <1>8, AcceptedRowFacts, Zenon
    <2>2. s.delivery \notin Released \cup {"none"}
        BY <1>1, <2>1, Zenon DEF Released
    <2> QED
        BY <1>1, <1>2, <1>8, <2>1, <2>2, Zenon
<1> QED
    BY <1>3, <1>4, <1>5, <1>6, <1>7, <1>8, Zenon

Statuses == {"none", "proposed", "awaiting_approval", "submitted", "terminal"}
Working == [pc : {"drafting", "previewing", "waiting", "calling", "running"},
            p : Proposals]

\* What a write that neither reserves nor denies makes of a row.
Gentle(r, s) ==
    /\ s.delivery = "none" <=> r.delivery = "none"
    /\ s.delivery = "cancelled" => r.delivery = "cancelled"
    /\ s.attempt = r.attempt \/ s.attempt \notin {"none", "unsubmitted"}

LEMMA ProjectBatchFacts ==
    ASSUME LedgerInv, ProjectBatch
    PROVE  /\ RowsSafe
           /\ status' \in [Proposals -> Statuses]
           /\ \A p \in Proposals :
                  /\ Gentle(row[p], row'[p])
                  /\ row[p].delivery = "none" => row'[p] = row[p]
                  /\ status'[p] = status[p]
                     \/ (status[p] # "none" /\ status'[p] = "terminal")
<1>1. PICK S \in Batches :
          LET rows == [p \in Proposals |-> IF p \in S THEN Projected(p) ELSE row[p]]
          IN  /\ Write(rows)
              /\ status' = [p \in Proposals |->
                     IF rows[p].delivery # row[p].delivery
                     THEN Marked(p, "terminal") ELSE status[p]]
    BY DEF ProjectBatch
<1> DEFINE rows == [p \in Proposals |-> IF p \in S THEN Projected(p) ELSE row[p]]
<1>2. S \subseteq Pending
    BY Zenon DEF Batches
<1>3. TypeOK /\ row \in [Proposals -> Row] /\ status \in [Proposals -> Statuses]
    BY TypedRows, Zenon DEF LedgerInv, TypeOK, Statuses
<1>4. ASSUME NEW p \in Proposals
      PROVE  /\ rows[p] \in Row /\ Keeps(row[p], rows[p])
             /\ rows[p].delivery \in Accepted =>
                    row[p].delivery \in Accepted \/ p \in performed
             /\ Gentle(row[p], rows[p])
             /\ row[p].delivery = "none" => rows[p] = row[p]
    <2>1. CASE p \in S
        <3>1. p \in Pending /\ rows[p] = Projected(p)
            BY <1>2, <2>1
        <3>2. row[p].delivery # "none"
            BY <3>1, Zenon DEF Pending, Held
        <3> QED
            BY <3>1, <3>2, ProjectedFacts DEF Gentle
    <2>2. CASE p \notin S
        BY <1>3, <2>2, Zenon DEF Keeps, Gentle
    <2> QED
        BY <2>1, <2>2, Zenon
<1>5. rows \in [Proposals -> Row]
    BY <1>4, Zenon
<1>6. Write(rows) /\ row' = rows
    BY <1>1, Zenon DEF Write
<1>7. RowsSafe
    BY <1>3, <1>4, <1>5, <1>6, WriteFacts, Zenon
<1>8. status' = [p \in Proposals |->
                   IF rows[p].delivery # row[p].delivery
                   THEN Marked(p, "terminal") ELSE status[p]]
    BY <1>1
<1>9. \A p \in Proposals : Marked(p, "terminal") \in Statuses
    BY DEF Marked, Statuses
<1>10. \A p \in Proposals :
           status'[p] = status[p] \/ (status[p] # "none" /\ status'[p] = "terminal")
    BY <1>8 DEF Marked
<1>11. status' \in [Proposals -> Statuses]
    BY <1>3, <1>8, <1>9, Zenon
<1> HIDE DEF rows
<1> QED
    BY <1>4, <1>6, <1>7, <1>10, <1>11, Zenon

\* The effect of a coroutine's step is about the proposal it works on.
LEMMA JobFacts ==
    ASSUME TypeOK, NEW j \in Jobs, job[j].pc # "idle"
    PROVE  job[j] \in Working /\ job[j].p \in Proposals
BY DEF TypeOK, Working, Idle

LEMMA SubmitFacts ==
    ASSUME LedgerInv, NEW j \in Jobs, NEW p \in Proposals, Submit(j, p)
    PROVE  /\ RowsSafe
           /\ Gentle(row[p], row'[p])
           /\ row' = [row EXCEPT ![p] = row'[p]]
           /\ \/ row'[p].attempt \notin {"none", "unsubmitted"}
              \/ /\ row' = row /\ End(j)
                 /\ status' = [status EXCEPT ![p] = Marked(p, "submitted")]
<1>1. TypeOK /\ row \in [Proposals -> Row] /\ row[p] \in Row
    BY TypedRows DEF LedgerInv
<1>2. CASE /\ UNCHANGED <<row, late>> /\ End(j)
           /\ status' = [status EXCEPT ![p] = Marked(p, "submitted")]
    BY <1>1, <1>2, SameRowsSafe, Zenon DEF Gentle
<1>3. CASE WriteRow(p, Attempted(row[p]))
    BY <1>1, <1>3, AttemptedFacts, WriteRowFacts DEF Gentle
<1>4. CASE WriteRow(p, ReleasedRow(Attempted(row[p]), "failed"))
    <2> DEFINE a == Attempted(row[p])
    <2> DEFINE s == ReleasedRow(a, "failed")
    <2>1. /\ a \in Row /\ Keeps(row[p], a) /\ a.attempt = "submitted"
          /\ a.delivery \in Accepted => row[p].delivery \in Accepted
          /\ a.delivery = "none" <=> row[p].delivery = "none"
          /\ a.delivery = "cancelled" => row[p].delivery = "cancelled"
        BY <1>1, AttemptedFacts
    <2>2. "failed" \in Released
        BY Zenon DEF Released
    <2> HIDE DEF a
    <2>3. /\ s \in Row /\ Keeps(a, s)
          /\ s.delivery \in Accepted => a.delivery \in Accepted
          /\ s.delivery \in {a.delivery, "failed"}
          /\ s.delivery = "none" <=> a.delivery = "none"
          /\ s.attempt \in {a.attempt, "released"}
        BY <2>1, <2>2, ReleasedRowFacts, Zenon
    <2> HIDE DEF s
    <2>4. Keeps(row[p], s)
        BY <2>1, <2>3 DEF Keeps, Accepted
    <2>5. WriteRow(p, s)
        BY <1>4 DEF s, a
    <2>6. RowsSafe /\ row' = [row EXCEPT ![p] = s] /\ row'[p] = s
        BY <1>1, <2>1, <2>3, <2>4, <2>5, WriteRowFacts, Zenon
    <2> QED
        BY <2>1, <2>3, <2>6, Zenon DEF Gentle
<1> QED
    BY <1>2, <1>3, <1>4 DEF Submit

-----------------------------------------------------------------------------
(* OwnerInv.                                                               *)

\* The jobs on p after the step are jobs on p before it, at the same stage.
SameStage(p) ==
    \A k \in Jobs :
        job'[k].pc # "idle" /\ job'[k].p = p =>
            /\ job[k].pc # "idle" /\ job[k].p = p
            /\ job'[k].pc \in {"drafting", "previewing"} =>
                   job[k].pc \in {"drafting", "previewing"}
            /\ job'[k].pc = "waiting" => job[k].pc = "waiting"
            /\ job'[k].pc \in {"calling", "running"} =>
                   job[k].pc \in {"calling", "running"}

\* A step that gives p no new right: it reserves, asks, approves, denies and
\* submits nothing of p.
QuietFor(p) ==
    /\ Gentle(row[p], row'[p])
    /\ row[p].delivery = "none" => row'[p] = row[p] /\ status'[p] = status[p]
    /\ status'[p] = "awaiting_approval" => status[p] = "awaiting_approval"
    /\ row[p].delivery = "cancelled" => status'[p] \in {status[p], "terminal"}
    /\ claim'[p] = "none" <=> claim[p] = "none"
    /\ p \in cached' => p \in cached
    /\ p \in performed' \/ effect'[p] = "executing" => Launched(p)
    /\ SameStage(p)

LEMMA QuietKeeps ==
    ASSUME NEW p \in Approval, OwnerInv(p), QuietFor(p)
    PROVE  OwnerInv(p)'
<1>1. \A k \in Jobs : /\ Preparing(k, p)' => Preparing(k, p)
                      /\ Waiting(k, p)' => Waiting(k, p)
    BY Zenon DEF QuietFor, SameStage, Preparing, Waiting
<1>2. Busy(p)' => Busy(p)
    BY Zenon DEF QuietFor, SameStage, Busy
<1>3. Launched(p)' => Launched(p)
    BY Zenon DEF QuietFor, SameStage, Launched
<1>4. Asked(p)' => Asked(p)
    BY Zenon DEF QuietFor, Gentle, Asked
<1>5. \A j, k \in Jobs : (Preparing(j, p) /\ Preparing(k, p))' => j = k
    BY <1>1, Zenon DEF OwnerInv
<1>6. row'[p].delivery = "none" =>
          /\ row'[p].attempt = "none" /\ status'[p] = "none" /\ claim'[p] = "none"
          /\ p \notin cached' /\ ~Busy(p)' /\ ~Launched(p)'
    BY <1>2, <1>3, Zenon DEF OwnerInv, QuietFor, Gentle
<1>7. p \in cached' => /\ claim'[p] # "none"
                       /\ \/ status'[p] # "awaiting_approval"
                          \/ row'[p].attempt # "unsubmitted"
    BY Zenon DEF OwnerInv, QuietFor, Gentle
<1>8. row'[p].delivery = "cancelled" => status'[p] = "terminal" /\ p \notin cached'
    BY DEF OwnerInv, QuietFor, Gentle
<1>9. Launched(p)' => /\ claim'[p] # "none"
                      /\ row'[p].attempt \notin {"none", "unsubmitted"}
                      /\ row'[p].delivery # "cancelled"
    BY <1>3, Zenon DEF OwnerInv, QuietFor, Gentle
<1>10. \A j \in Jobs : Waiting(j, p)' => claim'[p] # "none"
    BY <1>1, Zenon DEF OwnerInv, QuietFor
<1>11. Asked(p)' => \A j \in Jobs : ~Preparing(j, p)'
    BY <1>1, <1>4, Zenon DEF OwnerInv
<1> QED
    BY <1>5, <1>6, <1>7, <1>8, <1>9, <1>10, <1>11, Zenon DEF OwnerInv

\* A step that does nothing to p.
LEMMA Untouched ==
    ASSUME NEW p \in Approval, row'[p] = row[p], status'[p] = status[p],
           claim'[p] = claim[p], p \in cached' => p \in cached,
           p \in performed' => p \in performed,
           effect'[p] = "executing" => effect[p] = "executing", SameStage(p)
    PROVE  QuietFor(p)
BY Zenon DEF QuietFor, Gentle, Launched

\* A coroutine that ends, or stays at its stage, or works on another proposal.
LEMMA StageKept ==
    ASSUME TypeOK, NEW j \in Jobs, NEW p \in Approval,
           \/ End(j)
           \/ \E pc \in {"previewing", "calling", "running"} :
                 /\ Become(j, pc)
                 /\ \/ job[j].p # p
                    \/ pc = "previewing" /\ job[j].pc = "drafting"
                    \/ pc = "running" /\ job[j].pc = "calling"
           \/ \E pc \in {"drafting", "waiting"}, q \in Proposals \ {p} :
                 job' = [job EXCEPT ![j] = [pc |-> pc, p |-> q]]
           \/ job' = job
           \/ job' = [k \in Jobs |-> Idle]
    PROVE  SameStage(p)
<1>1. job \in [Jobs -> {Idle} \cup Working]
    BY Zenon DEF TypeOK, Working
<1>2. CASE End(j)
    BY <1>1, <1>2 DEF End, SameStage, Idle
<1>3. ASSUME NEW pc \in {"previewing", "calling", "running"}, Become(j, pc),
             \/ job[j].p # p
             \/ pc = "previewing" /\ job[j].pc = "drafting"
             \/ pc = "running" /\ job[j].pc = "calling"
      PROVE  SameStage(p)
    <2>1. /\ job'[j] = [job[j] EXCEPT !.pc = pc]
          /\ \A k \in Jobs \ {j} : job'[k] = job[k]
        BY <1>1, <1>3 DEF Become
    <2>2. job'[j].pc = pc /\ job'[j].p = job[j].p
        BY <1>1, <2>1 DEF Working, Idle
    <2> QED
        BY <1>3, <2>1, <2>2, Zenon DEF SameStage
<1>4. CASE \E pc \in {"drafting", "waiting"}, q \in Proposals \ {p} :
              job' = [job EXCEPT ![j] = [pc |-> pc, p |-> q]]
    BY <1>1, <1>4 DEF SameStage
<1>5. CASE job' = job \/ job' = [k \in Jobs |-> Idle]
    BY <1>5 DEF SameStage, Idle
<1> QED
    BY <1>2, <1>3, <1>4, <1>5, Zenon

-----------------------------------------------------------------------------
(* The steps.                                                              *)

\* TypeOK without the rows.
RestTyped ==
    /\ status \in [Proposals -> Statuses]
    /\ approvalEnds \in [Proposals -> 0 .. MaxTime + ApprovalTTL]
    /\ claim \in [Proposals -> {"none", "claimed", "terminal"}]
    /\ effect \in [Proposals -> {"absent", "queued", "executing", "sent",
                                 "failed", "blocked", "unknown", "escalated"}]
    /\ confirmed \in [Proposals -> Times \cup {NoTime}]
    /\ performed \subseteq Proposals /\ evidence \subseteq performed
    /\ job \in [Jobs -> {Idle} \cup Working]
    /\ cached \subseteq Proposals
    /\ now \in Times /\ crashes \in 0 .. MaxCrashes

ConfirmedWasPerformed == \A p \in Proposals : confirmed[p] # NoTime => p \in performed

LEMMA TypeParts ==
    TypeOK <=> row \in [Proposals -> Row] /\ late \subseteq Proposals /\ RestTyped
BY Zenon DEF TypeOK, RestTyped, Row, Deliveries, Attempts, Statuses, Working

LEMMA InvParts ==
    LedgerInv =>
        /\ TypeOK /\ RestTyped /\ row \in [Proposals -> Row]
        /\ ConfirmedWasPerformed
        /\ \A p \in Approval : p \in Proposals /\ OwnerInv(p)
BY TypeParts, LedgerAssumption, Zenon DEF LedgerInv, ConfirmedWasPerformed

LEMMA Assemble ==
    ASSUME LedgerInv, RowsSafe, RestTyped', ConfirmedWasPerformed',
           performed \subseteq performed',
           \A p \in Approval : QuietFor(p) \/ OwnerInv(p)'
    PROVE  LedgerInv'
<1>1. TypeOK'
    BY Zenon DEF TypeOK, RestTyped, RowsSafe, Row, Deliveries, Attempts, Statuses,
       Working
<1>2. ChargedWasSent'
    BY DEF RowsSafe, LedgerInv, ChargedWasSent
<1>3. \A p \in Approval : OwnerInv(p)'
    BY QuietKeeps, Zenon DEF LedgerInv
<1> QED
    BY <1>1, <1>2, <1>3, Zenon DEF LedgerInv, ConfirmedWasPerformed

\* Releasing the row of one proposal.
LEMMA ReleaseFacts ==
    ASSUME LedgerInv, NEW p \in Proposals, NEW s \in Released \ {"cancelled"},
           WriteRow(p, ReleasedRow(row[p], s))
    PROVE  /\ RowsSafe
           /\ Gentle(row[p], row'[p])
           /\ \A q \in Proposals \ {p} : row'[q] = row[q]
<1>1. TypeOK /\ row[p] \in Row /\ s \in Released
    BY InvParts, Zenon
<1>2. /\ ReleasedRow(row[p], s) \in Row
      /\ Keeps(row[p], ReleasedRow(row[p], s))
      /\ ReleasedRow(row[p], s).delivery \in Accepted => row[p].delivery \in Accepted
      /\ ReleasedRow(row[p], s).delivery \in {row[p].delivery, s}
      /\ ReleasedRow(row[p], s).delivery = "none" <=> row[p].delivery = "none"
      /\ ReleasedRow(row[p], s).attempt \in {row[p].attempt, "released"}
    BY <1>1, ReleasedRowFacts, Zenon
<1>3. RowsSafe /\ row'[p] = ReleasedRow(row[p], s)
      /\ \A q \in Proposals \ {p} : row'[q] = row[q]
    BY <1>1, <1>2, WriteRowFacts, Zenon
<1> QED
    BY <1>2, <1>3 DEF Gentle

\* The coroutine on p, and a proposal that is not reserved, exclude each other.
LEMMA Reserved ==
    ASSUME LedgerInv, NEW j \in Jobs, job[j].pc # "idle", job[j].p \in Approval
    PROVE  row[job[j].p].delivery # "none"
BY InvParts, Zenon DEF OwnerInv, Busy

\* _release_comment.
LEMMA AbandonStep ==
    ASSUME LedgerInv, NEW j \in Jobs, Abandon(j)
    PROVE  LedgerInv' /\ RowsSafe
<1> DEFINE q == job[j].p
<1>1. q \in Proposals /\ TypeOK /\ RestTyped
    BY InvParts, JobFacts, Zenon DEF Abandon
<1>2. RowsSafe /\ Gentle(row[q], row'[q])
      /\ \A p \in Proposals \ {q} : row'[p] = row[p]
    BY <1>1, ReleaseFacts DEF Abandon, Released
<1>3. RestTyped'
    BY <1>1, Zenon DEF Abandon, RestTyped, End, transport
<1>4. ConfirmedWasPerformed' /\ performed \subseteq performed'
    BY InvParts, Zenon DEF Abandon, ConfirmedWasPerformed, transport
<1>5. ASSUME NEW p \in Approval
      PROVE  QuietFor(p)
    <2>1. SameStage(p)
        BY <1>1, StageKept, Zenon DEF Abandon
    <2>2. CASE p = q
        <3>1. row[p].delivery # "none"
            BY <2>2, Reserved, Zenon DEF Abandon
        <3> QED
            BY <1>2, <2>1, <2>2, <3>1, Zenon DEF Abandon, QuietFor, Launched, transport
    <2>3. CASE p # q
        <3>1. row'[p] = row[p]
            BY InvParts, <1>2, <2>3, Zenon
        <3>3. UNCHANGED <<status, claim, cached, performed, effect>>
            BY Zenon DEF Abandon, transport
        <3> QED
            BY <2>1, <3>1, <3>3, Untouched, Zenon
    <2> QED
        BY <2>2, <2>3
<1> QED
    BY <1>2, <1>3, <1>4, <1>5, Assemble, Zenon

\* stage_participation_approval.
LEMMA StageStep ==
    ASSUME LedgerInv, NEW j \in Jobs, Stage(j)
    PROVE  LedgerInv' /\ RowsSafe
<1> DEFINE q == job[j].p
<1>1. q \in Approval /\ TypeOK /\ RestTyped /\ job[j] \in Working
    BY InvParts, JobFacts, Zenon DEF Stage
<1>2. RowsSafe
    BY <1>1, SameRowsSafe DEF Stage
<1>3. RestTyped'
    <2>1. now + ApprovalTTL \in 0 .. MaxTime + ApprovalTTL
        BY <1>1, LedgerAssumption DEF RestTyped, Times
    <2>2. job' \in [Jobs -> {Idle} \cup Working]
        BY <1>1, Zenon DEF Stage, Become, RestTyped, Working
    <2> QED
        BY <1>1, <2>1, <2>2, Zenon DEF Stage, RestTyped, transport, Statuses
<1>4. ConfirmedWasPerformed' /\ performed \subseteq performed'
    BY InvParts, Zenon DEF Stage, ConfirmedWasPerformed, transport
<1>5. ASSUME NEW p \in Approval
      PROVE  QuietFor(p)
    <2>1. SameStage(p)
        BY <1>1, StageKept, Zenon DEF Stage
    <2>2. CASE p = q
        <3>1. row[p].delivery # "none"
            BY <2>2, Reserved, ZenonT(30) DEF Stage
        <3>2. row[p].delivery # "cancelled"
            BY <2>2, InvParts DEF Stage, OwnerInv, Asked, Preparing
        <3>3. status'[p] = "proposed"
            BY <1>1, <2>2, InvParts, ZenonT(30) DEF Stage, RestTyped
        <3> QED
            BY <2>1, <3>1, <3>2, <3>3, Zenon DEF Stage, QuietFor, Launched, transport,
               Gentle
    <2>3. CASE p # q
        <3>2. status'[p] = status[p]
            BY <1>1, <2>3, InvParts, Zenon DEF Stage, RestTyped
        <3>3. UNCHANGED <<row, claim, cached, performed, effect>>
            BY Zenon DEF Stage, transport
        <3> QED
            BY <2>1, <3>2, <3>3, Untouched, Zenon
    <2> QED
        BY <2>2, <2>3
<1> QED
    BY <1>2, <1>3, <1>4, <1>5, Assemble, Zenon

LEMMA PreviewFailedStep ==
    ASSUME LedgerInv, NEW j \in Jobs, PreviewFailed(j)
    PROVE  LedgerInv' /\ RowsSafe
<1> DEFINE q == job[j].p
<1>1. q \in Proposals /\ TypeOK /\ RestTyped
    BY InvParts, JobFacts, Zenon DEF PreviewFailed
<1>2. RowsSafe /\ Gentle(row[q], row'[q])
      /\ \A p \in Proposals \ {q} : row'[p] = row[p]
    BY <1>1, ReleaseFacts DEF PreviewFailed, Released
<1>3. RestTyped'
    BY <1>1, Zenon DEF PreviewFailed, RestTyped, End, transport, Statuses
<1>4. ConfirmedWasPerformed' /\ performed \subseteq performed'
    BY InvParts, Zenon DEF PreviewFailed, ConfirmedWasPerformed, transport
<1>5. ASSUME NEW p \in Approval
      PROVE  QuietFor(p)
    <2>1. SameStage(p)
        BY <1>1, StageKept, ZenonT(30) DEF PreviewFailed
    <2>2. CASE p = q
        <3>1. row[p].delivery # "none"
            BY <2>2, Reserved, Zenon DEF PreviewFailed
        <3>2. status'[p] = "terminal"
            BY <1>1, <2>2, ZenonT(30) DEF PreviewFailed, RestTyped
        <3> QED
            BY <1>2, <2>1, <2>2, <3>1, <3>2, Zenon DEF PreviewFailed, QuietFor,
               Launched, transport
    <2>3. CASE p # q
        <3>1. row'[p] = row[p]
            BY InvParts, <1>2, <2>3, Zenon
        <3>2. status'[p] = status[p]
            BY <1>1, <2>3, InvParts, Zenon DEF PreviewFailed, RestTyped
        <3>3. UNCHANGED <<claim, cached, performed, effect>>
            BY Zenon DEF PreviewFailed, transport
        <3> QED
            BY <2>1, <3>1, <3>2, <3>3, Untouched, Zenon
    <2> QED
        BY <2>2, <2>3
<1> QED
    BY <1>2, <1>3, <1>4, <1>5, Assemble

\* submit_proposal refuses.
LEMMA RefuseStep ==
    ASSUME LedgerInv, NEW j \in Jobs, Refuse(j)
    PROVE  LedgerInv' /\ RowsSafe
<1> DEFINE q == job[j].p
<1>1. q \in Proposals /\ TypeOK /\ RestTyped
    BY InvParts, JobFacts DEF Refuse
<1>2. /\ RowsSafe /\ Gentle(row[q], row'[q])
      /\ \A p \in Proposals \ {q} : row'[p] = row[p]
      /\ status' \in {status, [status EXCEPT ![q] = "terminal"]}
    <2>1. CASE claim[q] = "claimed" /\ Loadable(q)
        <3>1. PICK s \in {"failed", "expired"} :
                  WriteRow(q, ReleasedRow(row[q], s))
            BY <2>1 DEF Refuse
        <3>2. s \in Released \ {"cancelled"}
            BY Zenon DEF Released
        <3> QED
            BY <1>1, <2>1, <3>1, <3>2, ReleaseFacts, Zenon DEF Refuse
    <2>2. CASE ~(claim[q] = "claimed" /\ Loadable(q))
        <3>1. UNCHANGED <<row, late, status>>
            BY <2>2, Zenon DEF Refuse
        <3> QED
            BY <1>1, <3>1, SameRowsSafe, Zenon DEF Gentle
    <2> QED
        BY <2>1, <2>2, ZenonT(30)
<1>3. RestTyped'
    BY <1>1, <1>2, Zenon DEF Refuse, RestTyped, End, transport, Statuses
<1>4. ConfirmedWasPerformed' /\ performed \subseteq performed'
    BY InvParts, Zenon DEF Refuse, ConfirmedWasPerformed, transport
<1>5. ASSUME NEW p \in Approval
      PROVE  QuietFor(p)
    <2>1. SameStage(p)
        BY <1>1, StageKept, ZenonT(30) DEF Refuse
    <2>2. CASE p = q
        <3>1. row[p].delivery # "none"
            BY <2>2, Reserved, Zenon DEF Refuse
        <3>2. status'[p] \in {status[p], "terminal"}
            BY <1>1, <1>2, <2>2, Zenon DEF RestTyped
        <3>3. claim[p] # "none" /\ claim'[p] = "terminal"
            BY <1>1, <2>2, InvParts, ZenonT(30) DEF Refuse, OwnerInv, Waiting, RestTyped
        <3> QED
            BY <1>2, <2>1, <2>2, <3>1, <3>2, <3>3, ZenonT(30)
               DEF Refuse, QuietFor, Launched, transport
    <2>3. CASE p # q
        <3>1. /\ row'[p] = row[p] /\ status'[p] = status[p]
              /\ claim'[p] = claim[p]
            BY InvParts, <1>1, <1>2, <2>3, ZenonT(30) DEF Refuse, RestTyped
        <3> QED
            BY <2>1, <3>1, Untouched, ZenonT(30) DEF Refuse, transport
    <2> QED
        BY <2>2, <2>3
<1> QED
    BY <1>2, <1>3, <1>4, <1>5, Assemble, ZenonT(30)

\* reserve_delivery_sync: the one step that makes a reservation.
LEMMA ReserveStep ==
    ASSUME LedgerInv, NEW j \in Jobs, NEW q \in Proposals, Reserve(j, q)
    PROVE  LedgerInv' /\ RowsSafe
<1> DEFINE new == [delivery |-> "reserved", attempt |-> "unsubmitted",
                   created |-> now, accepted |-> NoTime]
<1>1. TypeOK /\ RestTyped /\ job[j] = Idle
    BY InvParts, ZenonT(30) DEF Reserve, Free
<1>2. new \in Row /\ Keeps(row[q], new) /\ new.delivery \notin Accepted
    BY <1>1 DEF Reserve, RestTyped, Row, Deliveries, Attempts, Held, Keeps, Accepted
<1>3. RowsSafe /\ row'[q] = new /\ \A p \in Proposals \ {q} : row'[p] = row[p]
    BY <1>1, <1>2, WriteRowFacts, Zenon DEF Reserve
<1>4. RestTyped'
    <2>1. [pc |-> "drafting", p |-> q] \in Working
        BY DEF Working
    <2> QED
        BY <1>1, <2>1, Zenon DEF Reserve, RestTyped, transport
<1>5. ConfirmedWasPerformed' /\ performed \subseteq performed'
    BY InvParts, Zenon DEF Reserve, ConfirmedWasPerformed, transport
<1>6. ASSUME NEW p \in Approval, p # q
      PROVE  QuietFor(p)
    <2>1. SameStage(p)
        BY <1>1, <1>6, StageKept, ZenonT(30) DEF Reserve
    <2> QED
        BY InvParts, <1>3, <1>6, <2>1, Untouched, Zenon DEF Reserve, transport
<1>7. ASSUME q \in Approval
      PROVE  OwnerInv(q)'
    <2>1. /\ status[q] = "none" /\ claim[q] = "none" /\ q \notin cached
          /\ ~Busy(q) /\ ~Launched(q)
        BY <1>7, InvParts, ZenonT(30) DEF Reserve, OwnerInv
    <2>2. /\ job'[j] = [pc |-> "drafting", p |-> q]
          /\ \A k \in Jobs \ {j} : job'[k] = job[k]
        BY <1>1 DEF Reserve, RestTyped
    <2>3. \A k \in Jobs : /\ Preparing(k, q)' => k = j
                          /\ ~Waiting(k, q)'
        <3>1. job'[j].pc = "drafting" /\ "waiting" # "drafting" /\ "idle" # "drafting"
              /\ "idle" # "waiting" /\ "idle" # "previewing"
            BY <2>2
        <3>2. \A k \in Jobs \ {j} : /\ job[k].pc # "idle" => job[k].p # q
                                   /\ job'[k] = job[k]
            BY <2>1, <2>2, Zenon DEF Busy
        <3> QED
            BY <3>1, <3>2, Zenon DEF Preparing, Waiting
    <2>4. ~Launched(q)'
        BY <2>1, <2>2, SMTT(30) DEF Reserve, Launched, Busy, transport
    <2>5. ~Asked(q)' /\ q \notin cached'
        BY <1>3, <2>1 DEF Reserve, Asked
    <2> QED
        <3>1. row'[q].delivery # "none" /\ row'[q].delivery # "cancelled"
            BY <1>3
        <3> QED
            BY <2>3, <2>4, <2>5, <3>1, Zenon DEF OwnerInv
<1> QED
    BY <1>3, <1>4, <1>5, <1>6, <1>7, Assemble, Zenon

\* spk-approve.
LEMMA ApproveStep ==
    ASSUME LedgerInv, NEW j \in Jobs, NEW q \in Proposals, Approve(j, q)
    PROVE  LedgerInv' /\ RowsSafe
<1>1. TypeOK /\ RestTyped /\ job[j] = Idle
    BY InvParts DEF Approve, Free
<1>2. RowsSafe
    BY <1>1, SameRowsSafe, Zenon DEF Approve
<1>3. RestTyped'
    <2>1. [pc |-> "waiting", p |-> q] \in Working
        BY Zenon DEF Working
    <2> QED
        BY <1>1, <2>1 DEF Approve, RestTyped, transport
<1>4. ConfirmedWasPerformed' /\ performed \subseteq performed'
    BY InvParts, Zenon DEF Approve, ConfirmedWasPerformed, transport
<1>5. ASSUME NEW p \in Approval, p # q
      PROVE  QuietFor(p)
    <2>1. SameStage(p)
        BY <1>1, <1>5, StageKept, ZenonT(30) DEF Approve
    <2>2. claim'[p] = claim[p]
        BY <1>1, <1>5, InvParts, Zenon DEF Approve, RestTyped
    <2> QED
        BY <2>1, <2>2, Untouched, Zenon DEF Approve, transport
<1>6. ASSUME q \in Approval
      PROVE  OwnerInv(q)'
    <2>1. OwnerInv(q) /\ Asked(q) /\ row[q].delivery \notin {"none", "cancelled"}
        BY <1>6, InvParts, Zenon DEF Approve, OwnerInv, Asked
    <2>2. /\ job'[j] = [pc |-> "waiting", p |-> q]
          /\ \A k \in Jobs \ {j} : job'[k] = job[k]
        BY <1>1, ZenonT(30) DEF Approve, RestTyped
    <2>3. \A k \in Jobs : ~Preparing(k, q)'
        BY <2>1, <2>2 DEF OwnerInv, Preparing
    <2>4. claim'[q] = "claimed"
        BY <1>1, Zenon DEF Approve, RestTyped
    <2>5. Launched(q)' => Launched(q)
        BY <2>2 DEF Approve, Launched, transport
    <2> QED
        BY <2>1, <2>3, <2>4, <2>5, Zenon DEF Approve, OwnerInv
<1> QED
    BY <1>2, <1>3, <1>4, <1>5, <1>6, Assemble, ZenonT(30)

\* record_preview_effect.
LEMMA PreviewSentStep ==
    ASSUME LedgerInv, NEW j \in Jobs, PreviewSent(j)
    PROVE  LedgerInv' /\ RowsSafe
<1>1. TypeOK /\ RestTyped /\ job[j].p \in Proposals
    BY InvParts, JobFacts DEF PreviewSent
<1>q. PICK q \in Proposals : q = job[j].p
    BY <1>1, Zenon
<1>2. RowsSafe
    BY <1>1, SameRowsSafe DEF PreviewSent
<1>3. RestTyped'
    BY <1>1, Zenon DEF PreviewSent, RestTyped, End, transport, Statuses
<1>4. ConfirmedWasPerformed' /\ performed \subseteq performed'
    BY InvParts DEF PreviewSent, ConfirmedWasPerformed, transport
<1>5. ASSUME NEW p \in Approval, p # q
      PROVE  QuietFor(p)
    <2>1. SameStage(p)
        BY <1>1, StageKept DEF PreviewSent
    <2>2. status'[p] = status[p]
        BY <1>1, <1>q, <1>5, InvParts, Zenon DEF PreviewSent, RestTyped
    <2>3. UNCHANGED <<row, claim, cached, performed, effect>>
        BY Zenon DEF PreviewSent, transport
    <2> QED
        BY <2>1, <2>2, <2>3, Untouched, Zenon
<1>6. ASSUME q \in Approval
      PROVE  OwnerInv(q)'
    <2>1. /\ OwnerInv(q) /\ Preparing(j, q) /\ ~Asked(q)
          /\ row[q].delivery # "none"
        BY <1>q, <1>6, InvParts, Reserved, ZenonT(30) DEF PreviewSent, OwnerInv, Preparing
    <2>2. claim[q] = "none" /\ q \notin cached /\ ~Launched(q)
          /\ row[q].delivery # "cancelled"
        BY <2>1, Zenon DEF OwnerInv, Asked
    <2>3. job'[j] = Idle /\ \A k \in Jobs \ {j} : job'[k] = job[k]
        BY <1>1, ZenonT(30) DEF PreviewSent, End, RestTyped
    <2>4. \A k \in Jobs : ~Preparing(k, q)'
        BY <2>1, <2>3 DEF OwnerInv, Preparing, Idle
    <2>5. \A k \in Jobs : ~Waiting(k, q)'
        BY <2>1, <2>2, <2>3 DEF OwnerInv, Waiting, Idle
    <2>6. ~Launched(q)'
        BY <2>2, <2>3 DEF PreviewSent, Launched, transport, Idle
    <2> QED
        BY <2>1, <2>2, <2>4, <2>5, <2>6, ZenonT(30) DEF PreviewSent, OwnerInv
<1> QED
    BY <1>2, <1>3, <1>4, <1>5, <1>6, Assemble, Zenon

\* spk-deny, or a code that comes too late: what is cancelled was not submitted.
LEMMA CloseStep ==
    ASSUME LedgerInv, NEW q \in Proposals, Close(q)
    PROVE  LedgerInv' /\ RowsSafe
<1>1. TypeOK /\ RestTyped /\ row[q] \in Row
    BY InvParts, Zenon
<1>2. PICK r \in Row :
          /\ WriteRow(q, r) /\ Keeps(row[q], r)
          /\ r.delivery \in Accepted => row[q].delivery \in Accepted
          /\ r.delivery = "none" => row[q].delivery = "none"
          /\ \/ r = row[q]
             \/ row[q].attempt = "unsubmitted" /\ r.attempt \in {"unsubmitted", "released"}
    <2>1. CASE row[q].attempt = "unsubmitted"
        <3>1. PICK s \in {"cancelled", "expired"} :
                  WriteRow(q, ReleasedRow(row[q], s))
            BY <2>1 DEF Close
        <3>2. s \in Released
            BY Zenon DEF Released
        <3> QED
            BY <1>1, <2>1, <3>1, <3>2, ReleasedRowFacts, Zenon
    <2>2. CASE row[q].attempt # "unsubmitted"
        BY <1>1, <2>2 DEF Close, Keeps
    <2> QED
        BY <2>1, <2>2, Zenon
<1>3. RowsSafe /\ row'[q] = r /\ \A p \in Proposals \ {q} : row'[p] = row[p]
    BY <1>1, <1>2, WriteRowFacts, Zenon
<1>4. RestTyped' /\ status'[q] = "terminal"
      /\ \A p \in Proposals \ {q} : status'[p] = status[p]
    BY <1>1, Zenon DEF Close, RestTyped, transport, Statuses
<1>5. ConfirmedWasPerformed' /\ performed \subseteq performed'
    BY InvParts, ZenonT(30) DEF Close, ConfirmedWasPerformed, transport
<1>6. ASSUME NEW p \in Approval, p # q
      PROVE  QuietFor(p)
    <2>1. SameStage(p)
        BY Zenon DEF Close, SameStage
    <2> QED
        BY InvParts, <1>3, <1>4, <1>6, <2>1, Untouched, Zenon DEF Close, transport
<1>7. ASSUME q \in Approval
      PROVE  OwnerInv(q)'
    <2>1. /\ OwnerInv(q) /\ row[q].delivery \notin {"none", "cancelled"}
          /\ \A k \in Jobs : ~Preparing(k, q)
        BY <1>7, InvParts, ZenonT(30) DEF Close, OwnerInv, Asked
    <2>2. /\ \A k \in Jobs : ~Preparing(k, q)'
          /\ \A k \in Jobs : Waiting(k, q)' => Waiting(k, q)
          /\ Launched(q)' => Launched(q)
        BY <2>1, Zenon DEF Close, Preparing, Waiting, Launched, transport
    <2>3. row[q].attempt = "unsubmitted" => q \notin cached /\ ~Launched(q)
        BY <2>1, ZenonT(30) DEF Close, OwnerInv
    <2>4. r.delivery # "none"
        BY <1>2, <2>1
    <2>5. r.delivery = "cancelled" \/ r # row[q] => row[q].attempt = "unsubmitted"
        BY <1>2, <2>1, Zenon
    <2> QED
        BY <1>3, <1>4, <2>1, <2>2, <2>3, <2>4, <2>5, ZenonT(30) DEF Close, OwnerInv
<1> QED
    BY <1>3, <1>4, <1>5, <1>6, <1>7, Assemble, Zenon

\* What a submission does besides the row.
LEMMA SubmitRest ==
    ASSUME LedgerInv, NEW j \in Jobs, NEW q \in Proposals,
           job[j] \in Working, job[j].p = q, Submit(j, q), cached' \subseteq Proposals
    PROVE  /\ RestTyped' /\ ConfirmedWasPerformed' /\ performed' = performed
           /\ End(j) \/ Become(j, "calling")
           /\ effect'[q] = "executing" => effect[q] = "executing"
           /\ status'[q] \in {status[q], "none", "submitted"}
           /\ claim'[q] = claim[q] \/ (q \in Approval /\ claim'[q] = "terminal")
           /\ \A p \in Proposals \ {q} :
                  /\ effect'[p] = effect[p] /\ status'[p] = status[p]
                  /\ claim'[p] = claim[p]
<1> DEFINE States == {"absent", "queued", "executing", "sent", "failed", "blocked",
                      "unknown", "escalated"}
<1>1. TypeOK /\ RestTyped /\ ConfirmedWasPerformed
    BY InvParts, Zenon
<1>2. Enqueued(q) \in States /\ Enqueued(q) \in {effect[q], "failed", "queued"}
    BY <1>1 DEF Enqueued, RestTyped
<1>3. Marked(q, "submitted") \in {"none", "submitted"}
    BY Zenon DEF Marked
<1>4. PICK e \in States :
          effect' = [effect EXCEPT ![q] = e] /\ e \in {effect[q], "failed", "queued", "blocked"}
    BY <1>1, <1>2, ZenonT(30) DEF Submit, RestTyped
<1>5. status' = status \/ status' = [status EXCEPT ![q] = Marked(q, "submitted")]
    BY DEF Submit
<1>6. claim' = claim \/ (q \in Approval /\ claim' = [claim EXCEPT ![q] = "terminal"])
    <2>1. \/ claim' = claim
          \/ claim' = [claim EXCEPT ![q] = IF q \in Approval THEN "terminal" ELSE @]
        BY Zenon DEF Submit
    <2>2. claim = [p \in Proposals |-> claim[p]]
        BY <1>1 DEF RestTyped
    <2> QED
        BY <2>1, <2>2
<1>7. End(j) \/ Become(j, "calling")
    BY DEF Submit
<1>8. job' \in [Jobs -> {Idle} \cup Working]
    BY <1>1, <1>7 DEF End, Become, RestTyped, Working
<1>9. UNCHANGED <<approvalEnds, confirmed, performed, evidence, now, crashes>>
    BY Zenon DEF Submit
<1>10. status' \in [Proposals -> Statuses] /\ status'[q] \in {status[q], "none", "submitted"}
       /\ \A p \in Proposals \ {q} : status'[p] = status[p]
    BY <1>1, <1>3, <1>5, Zenon DEF RestTyped, Statuses
<1>11. claim' \in [Proposals -> {"none", "claimed", "terminal"}]
       /\ (claim'[q] = claim[q] \/ (q \in Approval /\ claim'[q] = "terminal"))
       /\ \A p \in Proposals \ {q} : claim'[p] = claim[p]
    BY <1>1, <1>6, Zenon DEF RestTyped
<1>12. effect' \in [Proposals -> States] /\ effect'[q] = e
       /\ \A p \in Proposals \ {q} : effect'[p] = effect[p]
    BY <1>1, <1>4, Zenon DEF RestTyped
<1>13. RestTyped'
    BY <1>1, <1>8, <1>9, <1>10, <1>11, <1>12, Zenon DEF RestTyped
<1>14. ConfirmedWasPerformed'
    BY <1>1, <1>4, <1>9, <1>12, Zenon DEF ConfirmedWasPerformed
<1> QED
    BY <1>4, <1>7, <1>9, <1>10, <1>11, <1>12, <1>13, <1>14, Zenon

LEMMA SubmitCommentStep ==
    ASSUME LedgerInv, NEW j \in Jobs, SubmitComment(j)
    PROVE  LedgerInv' /\ RowsSafe
<1> DEFINE q == job[j].p
<1>1. TypeOK /\ RestTyped /\ q \in Proposals \ Approval /\ job[j] \in Working
    BY InvParts, JobFacts DEF SubmitComment
<1>2. Submit(j, q) /\ cached' = cached /\ cached' \subseteq Proposals
    BY <1>1, Zenon DEF SubmitComment, RestTyped
<1>3. /\ RestTyped' /\ ConfirmedWasPerformed' /\ performed' = performed
      /\ End(j) \/ Become(j, "calling")
      /\ \A p \in Proposals \ {q} : /\ effect'[p] = effect[p]
                                     /\ status'[p] = status[p]
                                     /\ claim'[p] = claim[p]
    BY <1>1, <1>2, SubmitRest, Zenon
<1>4. RowsSafe /\ row' = [row EXCEPT ![q] = row'[q]]
    BY <1>1, <1>2, SubmitFacts, Zenon
<1>5. ASSUME NEW p \in Approval
      PROVE  QuietFor(p)
    <2>1. p \in Proposals /\ p # q /\ row'[p] = row[p]
        BY <1>1, <1>4, InvParts, Zenon
    <2>2. SameStage(p)
        BY <1>1, <1>3, <2>1, StageKept, Zenon
    <2> QED
        BY <1>2, <1>3, <2>1, <2>2, Untouched, ZenonT(30)
<1> QED
    BY <1>3, <1>4, <1>5, Assemble, ZenonT(30)

\* submit_proposal goes on to the effect path: only with a claim, and not for a
\* cancelled reservation.
LEMMA SubmitApprovedStep ==
    ASSUME LedgerInv, NEW j \in Jobs, SubmitApproved(j)
    PROVE  LedgerInv' /\ RowsSafe
<1>1. TypeOK /\ RestTyped /\ job[j].p \in Proposals /\ job[j] \in Working
    BY InvParts, JobFacts, Zenon DEF SubmitApproved
<1>q. PICK q \in Proposals : q = job[j].p
    BY <1>1, Zenon
<1>2. /\ Submit(j, q) /\ Cleared(q) /\ Waiting(j, q)
      /\ cached' \subseteq cached \cup {q}
      /\ cached' \subseteq Proposals
    BY <1>1, <1>q, ZenonT(30) DEF SubmitApproved, RestTyped, Waiting
<1>3. /\ RestTyped' /\ ConfirmedWasPerformed' /\ performed' = performed
      /\ End(j) \/ Become(j, "calling")
      /\ effect'[q] = "executing" => effect[q] = "executing"
      /\ claim'[q] = claim[q] \/ claim'[q] = "terminal"
      /\ \A p \in Proposals \ {q} : /\ effect'[p] = effect[p]
                                     /\ status'[p] = status[p]
                                     /\ claim'[p] = claim[p]
    BY <1>1, <1>q, <1>2, SubmitRest, ZenonT(30)
<1>4. /\ RowsSafe /\ row' = [row EXCEPT ![q] = row'[q]]
      /\ Gentle(row[q], row'[q])
      /\ \/ row'[q].attempt \notin {"none", "unsubmitted"}
         \/ /\ row' = row /\ End(j)
            /\ status' = [status EXCEPT ![q] = Marked(q, "submitted")]
    BY <1>2, SubmitFacts, ZenonT(30)
<1>5. ASSUME NEW p \in Approval, p # q
      PROVE  QuietFor(p)
    <2>1. p \in Proposals /\ row'[p] = row[p]
        BY <1>4, <1>5, InvParts, Zenon
    <2>2. SameStage(p)
        BY <1>1, <1>q, <1>3, <1>5, StageKept, Zenon
    <2> QED
        BY <1>2, <1>3, <1>5, <2>1, <2>2, Untouched, ZenonT(30)
<1>6. ASSUME q \in Approval
      PROVE  OwnerInv(q)'
    <2>1. /\ OwnerInv(q) /\ claim[q] # "none"
          /\ row[q].delivery \notin {"none", "cancelled"}
          /\ \A k \in Jobs : ~Preparing(k, q)
        BY <1>q, <1>2, <1>6, InvParts, Reserved, ZenonT(30)
           DEF OwnerInv, Asked, Cleared, Loadable, Waiting
    <2>2. claim'[q] # "none" /\ row'[q].delivery \notin {"none", "cancelled"}
        BY <1>3, <1>4, <2>1, Zenon DEF Gentle
    <2>3. /\ \A k \in Jobs \ {j} : job'[k] = job[k]
          /\ job'[j].pc \in {"idle", "calling"}
          /\ End(j) => job'[j].pc = "idle"
        BY <1>1, <1>3, SMTT(30) DEF End, Become, RestTyped, Working, Idle
    <2>4. \A k \in Jobs : ~Preparing(k, q)'
        BY <2>1, <2>3, Zenon DEF Preparing
    <2>5. Launched(q)' => Launched(q) \/ job'[j].pc = "calling"
        BY <1>3, <2>3, Zenon DEF Launched
    <2>6. Launched(q)' => row'[q].attempt \notin {"none", "unsubmitted"}
        BY <1>4, <2>1, <2>3, <2>5, ZenonT(30) DEF OwnerInv, Gentle
    <2>7. status'[q] # "awaiting_approval" \/ row'[q].attempt # "unsubmitted"
        BY <1>1, <1>4, ZenonT(30) DEF RestTyped, Marked
    <2> QED
        BY <2>2, <2>4, <2>6, <2>7, ZenonT(30) DEF OwnerInv
<1> QED
    BY <1>3, <1>4, <1>5, <1>6, Assemble, ZenonT(30)

\* execute_ready claims the effect, or denies it.
LEMMA StartStep ==
    ASSUME LedgerInv, NEW j \in Jobs, Start(j)
    PROVE  LedgerInv' /\ RowsSafe
<1> DEFINE q == job[j].p
<1>1. TypeOK /\ RestTyped /\ q \in Proposals /\ job[j] \in Working
      /\ job[j].pc = "calling"
    BY InvParts, JobFacts, Zenon DEF Start
<1>2. RowsSafe
    BY <1>1, SameRowsSafe, Zenon DEF Start, durable
<1>3. /\ job' = job \/ Become(j, "running")
      /\ \E e \in {"executing", "blocked", "failed"} : effect' = [effect EXCEPT ![q] = e]
      /\ UNCHANGED <<durable, confirmed, performed, evidence, late, cached, now, crashes>>
    BY DEF Start
<1>4. job' \in [Jobs -> {Idle} \cup Working]
    BY <1>1, <1>3 DEF Become, RestTyped, Working
<1>5. RestTyped'
    BY <1>1, <1>3, <1>4, ZenonT(30) DEF RestTyped, durable
<1>6. ConfirmedWasPerformed' /\ performed \subseteq performed'
    BY <1>1, <1>3, InvParts, Zenon DEF ConfirmedWasPerformed, RestTyped
<1>7. ASSUME NEW p \in Approval
      PROVE  QuietFor(p)
    <2>1. SameStage(p)
        BY <1>1, <1>3, StageKept, Zenon
    <2>2. CASE p = q
        <3>1. Launched(p)
            BY <1>1, <2>2, Zenon DEF Launched
        <3> QED
            BY <1>3, <2>1, <3>1, Zenon DEF QuietFor, Gentle, durable
    <2>3. CASE p # q
        <3>1. effect'[p] = effect[p]
            BY <1>1, <1>3, <2>3, InvParts, ZenonT(30) DEF RestTyped
        <3> QED
            BY <1>3, <2>1, <3>1, Untouched, ZenonT(30) DEF durable
    <2> QED
        BY <2>2, <2>3
<1> QED
    BY <1>2, <1>5, <1>6, <1>7, Assemble

\* EffectRouter._run projects what execute_ready returned.
LEMMA FinishStep ==
    ASSUME LedgerInv, NEW j \in Jobs, Finish(j)
    PROVE  LedgerInv' /\ RowsSafe
<1> DEFINE q == job[j].p
<1>1. TypeOK /\ RestTyped /\ q \in Proposals /\ row[q] \in Row /\ now \in Times
      /\ job[j].pc \in {"calling", "running"}
    BY InvParts, JobFacts, ZenonT(30) DEF Finish, RestTyped
<1>2. RowsSafe /\ Gentle(row[q], row'[q])
      /\ \A p \in Proposals \ {q} : row'[p] = row[p]
    <2>1. CASE effect[q] = "sent" /\ confirmed[q] # NoTime
        <3>1. WriteRow(q, AcceptedRow(row[q], now)) /\ q \in performed
            BY <1>1, <2>1, InvParts, Zenon DEF Finish, ConfirmedWasPerformed
        <3> QED
            <4>1. PICK a : a = AcceptedRow(row[q], now)
                OBVIOUS
            <4>2. /\ a \in Row /\ Keeps(row[q], a)
                  /\ a.delivery \in {row[q].delivery, "transport_accepted"}
                  /\ a.delivery = "none" <=> row[q].delivery = "none"
                  /\ a.attempt \in {row[q].attempt, "accepted"}
                BY <1>1, <4>1, AcceptedRowFacts, Zenon
            <4>3. RowsSafe /\ row'[q] = a /\ \A p \in Proposals \ {q} : row'[p] = row[p]
                BY <1>1, <3>1, <4>1, <4>2, WriteRowFacts, Zenon
            <4> QED
                BY <4>2, <4>3, Zenon DEF Gentle
    <2>2. CASE effect[q] \in {"failed", "blocked"}
        <3>1. WriteRow(q, ReleasedRow(row[q], "failed"))
            BY <2>2, Zenon DEF Finish
        <3> QED
            BY <1>1, <3>1, ReleaseFacts DEF Released
    <2>3. CASE /\ ~(effect[q] = "sent" /\ confirmed[q] # NoTime)
               /\ effect[q] \notin {"failed", "blocked"}
        <3>1. WriteRow(q, row[q]) /\ Keeps(row[q], row[q])
            BY <2>3, ZenonT(30) DEF Finish, Keeps
        <3> QED
            BY <1>1, <3>1, WriteRowFacts, ZenonT(30) DEF Gentle
    <2> QED
        BY <2>1, <2>2, <2>3, ZenonT(30)
<1>3. /\ status' \in [Proposals -> Statuses]
      /\ status'[q] # "awaiting_approval"
      /\ \A p \in Proposals \ {q} : status'[p] = status[p]
    BY <1>1, ZenonT(30) DEF Finish, Marked, RestTyped, Statuses
<1>4. /\ claim' \in [Proposals -> {"none", "claimed", "terminal"}]
      /\ claim'[q] \in {claim[q], "terminal"}
      /\ \A p \in Proposals \ {q} : claim'[p] = claim[p]
      /\ cached' \subseteq cached
    BY <1>1, ZenonT(30) DEF Finish, RestTyped
<1>5. RestTyped'
    BY <1>1, <1>3, <1>4, ZenonT(30) DEF Finish, RestTyped, End, transport
<1>6. ConfirmedWasPerformed' /\ performed \subseteq performed'
    BY InvParts, ZenonT(30) DEF Finish, ConfirmedWasPerformed, transport
<1>7. ASSUME NEW p \in Approval
      PROVE  QuietFor(p)
    <2>1. SameStage(p)
        BY <1>1, StageKept, ZenonT(30) DEF Finish
    <2>2. CASE p = q
        <3>1. /\ Launched(p) /\ row[p].delivery \notin {"none", "cancelled"}
              /\ claim[p] # "none"
            BY <1>1, <2>2, InvParts, ZenonT(30) DEF Launched, OwnerInv
        <3> QED
            BY <1>2, <1>3, <1>4, <2>1, <2>2, <3>1, ZenonT(30) DEF QuietFor
    <2>3. CASE p # q
        BY InvParts, <1>2, <1>3, <1>4, <2>1, <2>3, Untouched, Zenon DEF Finish, transport
    <2> QED
        BY <2>2, <2>3
<1> QED
    BY <1>2, <1>5, <1>6, <1>7, Assemble

\* The steps of the processing store and of the recipients.
LEMMA TransportSteps ==
    ASSUME LedgerInv, NEW q \in Proposals,
           \/ Outcome(q) \/ LateReceipt(q) \/ Signal(q)
           \/ Probe(q) \/ OperatorConfirms(q)
    PROVE  LedgerInv' /\ RowsSafe
<1>1. TypeOK /\ RestTyped /\ ConfirmedWasPerformed
      /\ UNCHANGED <<durable, job, late, cached, now, crashes>>
    BY InvParts DEF Outcome, LateReceipt, Probe, OperatorConfirms, Signal
<1>2. RowsSafe
    BY <1>1, SameRowsSafe, Zenon DEF durable
<1>3. /\ performed' \in {performed, performed \cup {q}}
      /\ performed' = performed \/ effect[q] = "executing"
      /\ evidence' = evidence \/ (q \in performed /\ evidence' = evidence \cup {q})
      /\ \/ confirmed' = confirmed
         \/ /\ q \in performed'
            /\ \E t \in Times : confirmed' = [confirmed EXCEPT ![q] = t]
      /\ \/ effect' = effect
         \/ \E e \in {"sent", "failed", "unknown", "escalated"} :
                effect' = [effect EXCEPT ![q] = e]
    <2>1. CASE Outcome(q)
        BY <1>1, <2>1, Zenon DEF Outcome, RestTyped
    <2>2. CASE LateReceipt(q) \/ Signal(q)
        BY <1>1, <2>2, Zenon DEF LateReceipt, Signal, RestTyped
    <2>3. CASE Probe(q) \/ OperatorConfirms(q)
        BY <1>1, <2>3, ZenonT(30) DEF Probe, OperatorConfirms, RestTyped
    <2> QED
        BY <2>1, <2>2, <2>3, Zenon
<1>4. RestTyped'
    BY <1>1, <1>3 DEF RestTyped, durable
<1>5. ConfirmedWasPerformed' /\ performed \subseteq performed'
    BY <1>1, <1>3, Zenon DEF ConfirmedWasPerformed, RestTyped
<1>6. ASSUME NEW p \in Approval
      PROVE  QuietFor(p)
    <2>1. SameStage(p)
        BY <1>1, ZenonT(30) DEF SameStage
    <2>2. p \in performed' \/ effect'[p] = "executing" => Launched(p)
        BY <1>1, <1>3, InvParts, ZenonT(30) DEF Launched, RestTyped
    <2> QED
        BY <1>1, <2>1, <2>2, ZenonT(30) DEF QuietFor, Gentle, durable
<1> QED
    BY <1>2, <1>4, <1>5, <1>6, Assemble, ZenonT(30)

\* A pass of the reconciler, alone or on the restart after a crash.
LEMMA ReconcileSteps ==
    ASSUME LedgerInv, Reconcile \/ Restart
    PROVE  LedgerInv' /\ RowsSafe
<1>1. TypeOK /\ RestTyped /\ ConfirmedWasPerformed
    BY InvParts, Zenon
<1>2. /\ RowsSafe /\ status' \in [Proposals -> Statuses]
      /\ \A p \in Proposals :
             /\ Gentle(row[p], row'[p])
             /\ row[p].delivery = "none" => row'[p] = row[p]
             /\ status'[p] = status[p]
                \/ (status[p] # "none" /\ status'[p] = "terminal")
    BY ProjectBatchFacts, Zenon DEF Reconcile, Restart
<1>3. /\ UNCHANGED <<approvalEnds, claim, transport, now>>
      /\ job' = job \/ job' = [k \in Jobs |-> Idle]
      /\ cached' = cached \/ cached' = {}
      /\ crashes' = crashes \/ (crashes < MaxCrashes /\ crashes' = crashes + 1)
    BY Zenon DEF Reconcile, Restart, Crash, transport
<1>4. RestTyped'
    <2>1. crashes' \in 0 .. MaxCrashes
        <3>1. crashes \in 0 .. MaxCrashes /\ MaxCrashes \in Nat
            BY <1>1, LedgerAssumption, Zenon DEF RestTyped
        <3>2. crashes' = crashes \/ (crashes < MaxCrashes /\ crashes' = crashes + 1)
            BY <1>3, Zenon
        <3> QED
            BY <3>1, <3>2
    <2>2. job' \in [Jobs -> {Idle} \cup Working]
        BY <1>1, <1>3 DEF RestTyped
    <2> QED
        BY <1>1, <1>2, <1>3, <2>1, <2>2, Zenon DEF RestTyped, transport
<1>5. ConfirmedWasPerformed' /\ performed \subseteq performed'
    BY <1>1, <1>3, Zenon DEF ConfirmedWasPerformed, transport
<1>6. ASSUME NEW p \in Approval
      PROVE  QuietFor(p)
    <2>1. SameStage(p)
        BY <1>3 DEF SameStage, Idle
    <2>2. p \in Proposals /\ OwnerInv(p)
        BY InvParts, Zenon
    <2>3. row[p].delivery = "none" => status[p] = "none"
        BY <2>2, Zenon DEF OwnerInv
    <2> QED
        BY <1>2, <1>3, <2>1, <2>2, <2>3, Zenon DEF QuietFor, Launched, transport
<1> QED
    BY <1>2, <1>4, <1>5, <1>6, Assemble, Zenon

\* A crash between the commits of the two databases, and the clock.
LEMMA CrashStep ==
    ASSUME LedgerInv, NEW j \in Jobs, CrashBetweenCommits(j)
    PROVE  LedgerInv' /\ RowsSafe
<1> DEFINE q == job[j].p
<1>1. TypeOK /\ RestTyped /\ ConfirmedWasPerformed /\ q \in Proposals
    BY InvParts, JobFacts DEF CrashBetweenCommits
<1>2. RowsSafe
    BY <1>1, SameRowsSafe, ZenonT(30) DEF CrashBetweenCommits
<1>3. /\ UNCHANGED <<row, late, status, approvalEnds, claim, confirmed, performed,
                      evidence, now>>
      /\ job' = [k \in Jobs |-> Idle] /\ cached' = {}
      /\ crashes < MaxCrashes /\ crashes' = crashes + 1
      /\ effect' = [effect EXCEPT ![q] = Enqueued(q)]
    BY DEF CrashBetweenCommits, Crash
<1>4. Enqueued(q) \in {effect[q], "failed", "queued"}
    BY Zenon DEF Enqueued
<1>5. /\ RestTyped' /\ ConfirmedWasPerformed' /\ performed \subseteq performed'
    <2>1. crashes' \in 0 .. MaxCrashes
        <3>1. crashes \in 0 .. MaxCrashes /\ MaxCrashes \in Nat
            BY <1>1, LedgerAssumption, Zenon DEF RestTyped
        <3>2. crashes' = crashes \/ (crashes < MaxCrashes /\ crashes' = crashes + 1)
            BY <1>3, Zenon
        <3> QED
            BY <3>1, <3>2
    <2> QED
        BY <1>1, <1>3, <1>4, <2>1, Zenon DEF RestTyped, ConfirmedWasPerformed
<1>6. ASSUME NEW p \in Approval
      PROVE  QuietFor(p)
    <2>1. SameStage(p)
        BY <1>3, Zenon DEF SameStage, Idle
    <2>2. effect'[p] = "executing" => effect[p] = "executing"
        BY <1>1, <1>3, <1>4, InvParts, Zenon DEF RestTyped
    <2> QED
        BY <1>3, <2>1, <2>2, Untouched, ZenonT(30)
<1> QED
    BY <1>2, <1>5, <1>6, Assemble, ZenonT(30)

LEMMA IdleSteps ==
    ASSUME LedgerInv, Tick \/ UNCHANGED vars
    PROVE  LedgerInv' /\ RowsSafe
<1>1. TypeOK /\ RestTyped /\ ConfirmedWasPerformed
    BY InvParts, Zenon
<1>2. UNCHANGED <<row, status, approvalEnds, claim, effect, confirmed, performed,
                  evidence, job, cached, late, crashes>>
    BY DEF Tick, vars, durable, transport
<1>3. RowsSafe
    BY <1>1, <1>2, SameRowsSafe, Zenon
<1>4. now' \in Times
    BY <1>1, LedgerAssumption DEF Tick, vars, Times, RestTyped
<1>5. RestTyped' /\ ConfirmedWasPerformed' /\ performed \subseteq performed'
    BY <1>1, <1>2, <1>4, ZenonT(30) DEF RestTyped, ConfirmedWasPerformed
<1>6. ASSUME NEW p \in Approval
      PROVE  QuietFor(p)
    <2>1. SameStage(p)
        BY <1>2, Zenon DEF SameStage
    <2> QED
        BY <1>2, <2>1, Untouched, Zenon
<1> QED
    BY <1>3, <1>5, <1>6, Assemble, Zenon

-----------------------------------------------------------------------------
(* The theorems.                                                           *)

LEMMA InitInv == Init => LedgerInv
<1> SUFFICES ASSUME Init PROVE LedgerInv
    BY Zenon
<1>1. NoRow \in Row /\ NoRow.delivery = "none" /\ NoRow.attempt = "none"
    BY LedgerAssumption DEF NoRow, Row, Deliveries, Attempts, Times
<1>2. row \in [Proposals -> Row] /\ late \subseteq Proposals
    BY <1>1, Zenon DEF Init
<1>3. RestTyped
    BY LedgerAssumption DEF Init, RestTyped, Statuses, Times
<1>4. ConfirmedWasPerformed /\ ChargedWasSent
    BY <1>1, Zenon DEF Init, ConfirmedWasPerformed, ChargedWasSent, Accepted
<1>5. ASSUME NEW p \in Approval
      PROVE  OwnerInv(p)
    <2>1. p \in Proposals /\ row[p] = NoRow /\ status[p] = "none" /\ claim[p] = "none"
          /\ effect[p] = "absent" /\ performed = {} /\ cached = {}
          /\ \A k \in Jobs : job[k].pc = "idle"
        BY LedgerAssumption, ZenonT(30) DEF Init, Idle
    <2>2. ~Busy(p) /\ ~Launched(p) /\ ~Asked(p)
          /\ \A k \in Jobs : ~Preparing(k, p) /\ ~Waiting(k, p)
        BY <1>1, <2>1, Zenon DEF Busy, Launched, Asked, Preparing, Waiting
    <2> QED
        BY <1>1, <2>1, <2>2, ZenonT(30) DEF OwnerInv
<1> QED
    BY <1>2, <1>3, <1>4, <1>5, TypeParts, Zenon DEF LedgerInv, ConfirmedWasPerformed

LEMMA StepInv == LedgerInv /\ [Next]_vars => LedgerInv' /\ RowsSafe
<1> SUFFICES ASSUME LedgerInv, [Next]_vars PROVE LedgerInv' /\ RowsSafe
    BY Zenon
<1>1. ASSUME NEW j \in Jobs, NEW p \in Proposals, Reserve(j, p) \/ Approve(j, p)
      PROVE  LedgerInv' /\ RowsSafe
    BY <1>1, ReserveStep, ApproveStep, Zenon
<1>2. ASSUME NEW j \in Jobs, Abandon(j) \/ SubmitComment(j)
      PROVE  LedgerInv' /\ RowsSafe
    BY <1>2, AbandonStep, SubmitCommentStep, Zenon
<1>3. ASSUME NEW j \in Jobs, Stage(j) \/ PreviewSent(j) \/ PreviewFailed(j)
      PROVE  LedgerInv' /\ RowsSafe
    BY <1>3, StageStep, PreviewSentStep, PreviewFailedStep, Zenon
<1>4. ASSUME NEW j \in Jobs, Refuse(j) \/ SubmitApproved(j)
      PROVE  LedgerInv' /\ RowsSafe
    BY <1>4, RefuseStep, SubmitApprovedStep
<1>5. ASSUME NEW j \in Jobs, Start(j) \/ Finish(j) \/ CrashBetweenCommits(j)
      PROVE  LedgerInv' /\ RowsSafe
    BY <1>5, StartStep, FinishStep, CrashStep, Zenon
<1>6. ASSUME NEW p \in Proposals,
             \/ Close(p) \/ Signal(p)
             \/ Outcome(p) \/ LateReceipt(p) \/ Probe(p) \/ OperatorConfirms(p)
      PROVE  LedgerInv' /\ RowsSafe
    BY <1>6, CloseStep, TransportSteps, Zenon
<1>7. CASE Reconcile \/ Restart
    BY <1>7, ReconcileSteps, Zenon
<1>8. CASE Tick \/ UNCHANGED vars
    BY <1>8, IdleSteps, Zenon
<1> QED
    BY <1>1, <1>2, <1>3, <1>4, <1>5, <1>6, <1>7, <1>8, Zenon DEF Next

\* Every column and task keeps to its values, for any proposals, limits,
\* lifetimes, slots and number of crashes.
THEOREM LedgerTyped == Spec => []TypeOK
<1>1. LedgerInv => TypeOK
    BY DEF LedgerInv
<1> QED
    BY <1>1, InitInv, StepInv, PTL DEF Spec

\* What SpeakupLog charges has gone out: neither EffectRouter's own projection
\* nor a late pass of the reconciler, on either side of a crash, invents a send.
THEOREM ChargesAreEarned == Spec => []ChargedWasSent
<1>1. LedgerInv => ChargedWasSent
    BY Zenon DEF LedgerInv
<1> QED
    BY <1>1, InitInv, StepInv, PTL DEF Spec

\* A message that needs approval goes out only under the owner's claim, and not
\* after spk-deny has cancelled its reservation, however many coroutines of
\* submit_proposal wait for the commit lock.
THEOREM OwnerHasTheWord == Spec => []OwnerDecides
<1>1. LedgerInv => OwnerDecides
    BY Zenon DEF LedgerInv, OwnerInv, OwnerDecides, Launched
<1> QED
    BY <1>1, InitInv, StepInv, PTL DEF Spec

\* No write of SpeakupLog takes a charge back, moves it to another time, or
\* refunds an unknown outcome.
THEOREM ChargesStay == Spec => NeverRefunded
<1> DEFINE Kept ==
        \A p \in Proposals :
          /\ row[p].delivery \in Accepted =>
                 /\ row'[p].delivery \in Accepted
                 /\ row'[p].accepted = row[p].accepted
          /\ row[p].delivery = "delivery_unknown" =>
                 row'[p].delivery \in Accepted \cup {"delivery_unknown"}
<1>1. RowsSafe => Kept
    BY Zenon DEF RowsSafe, Keeps
<1>2. LedgerInv /\ [Next]_vars => LedgerInv' /\ [Kept]_vars
    BY <1>1, StepInv
<1> QED
    BY <1>2, InitInv, PTL DEF Spec, NeverRefunded

=============================================================================
