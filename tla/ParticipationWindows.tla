------------------------ MODULE ParticipationWindows ------------------------
(***************************************************************************)
(* No window is charged beyond its limit, for any proposals, limits,       *)
(* leases and crashes.  WindowKept looks at charges alone; what keeps it   *)
(* is that an open hold counts, from its reservation on, in every window   *)
(* its charge may still fall into.                                         *)
(***************************************************************************)
EXTENDS ParticipationLedgerProofs

\* Integer division by the length of a day.
LEMMA Quotient ==
    ASSUME NEW a \in Nat, NEW d \in Nat \ {0}
    PROVE  /\ a \div d \in Nat /\ d * (a \div d) <= a
           /\ a < d * (a \div d) + d
<1>1. a \div d \in Int /\ a % d \in 0..(d - 1)
    OBVIOUS
<1>2. a = d * (a \div d) + (a % d)
    OBVIOUS
<1> QED
    BY <1>1, <1>2

LEMMA ProductGrows ==
    ASSUME NEW x \in Int, NEW y \in Int, NEW d \in Nat \ {0}, x < y
    PROVE  d * x + d <= d * y
<1>1. y - x - 1 \in Nat
    OBVIOUS
<1>2. d * (y - x - 1) >= 0
    BY <1>1
<1>3. d * (y - x - 1) = d * y - d * x - d
    OBVIOUS
<1> QED
    BY <1>2, <1>3

LEMMA DaysInOrder ==
    ASSUME NEW a \in Nat, NEW b \in Nat, NEW d \in Nat \ {0}, a <= b
    PROVE  a \div d \in Nat /\ b \div d \in Nat /\ a \div d <= b \div d
<1>1. PICK x : x = a \div d
    OBVIOUS
<1>2. PICK y : y = b \div d
    OBVIOUS
<1>3. x \in Nat /\ y \in Nat /\ d * x <= a /\ b < d * y + d
    BY <1>1, <1>2, Quotient
<1>4. ASSUME y < x PROVE FALSE
    <2>1. d * y + d <= d * x
        BY <1>3, <1>4, ProductGrows
    <2>2. d * y \in Int /\ d * x \in Int
        BY <1>3, SMTT(30)
    <2> QED
        BY <1>3, <2>1, <2>2
<1> QED
    BY <1>1, <1>2, <1>3, <1>4

\* Nothing has happened to p yet.
Blank(p) ==
    status[p] = "none" /\ effect[p] = "absent" /\ confirmed[p] = NoTime /\ ~Busy(p)

\* Charges and confirmations are dated between the reservation and now.
StampInv(p) ==
    /\ row[p].delivery = "none" => Blank(p)
    /\ row[p].created <= now
    /\ row[p].delivery \in Accepted =>
           row[p].created <= row[p].accepted /\ row[p].accepted <= now
    /\ confirmed[p] # NoTime => row[p].created <= confirmed[p] /\ confirmed[p] <= now

\* A hold of time `at` may still be charged to the window that ends at t.
Reaches(c, t, at) ==
    IF c \in Rolling THEN at <= t ELSE at \div Day <= t \div Day

\* What the window that ends at t has, and what it may still get in time.
Live(c, t) ==
    {q \in Proposals :
        /\ c \in Dims[q]
        /\ \/ /\ row[q].delivery \in Accepted /\ q \notin late
              /\ InWindow(c, t, row[q].accepted)
           \/ /\ row[q].delivery \in Held /\ ~LeaseEnded(q)
              /\ Reaches(c, t, row[q].created)}

Known == {q \in Proposals : row[q].delivery # "none"}

CapacityInv ==
    /\ IsFiniteSet(Known)
    /\ \A c \in Categories : \A t \in 0 .. now : Cardinality(Live(c, t)) <= Limit[c]

\* What a write other than a reservation may make of the row of p.
Moves(p, s) ==
    /\ s.created = row[p].created
    /\ s.delivery = "none" <=> row[p].delivery = "none"
    /\ s.delivery \in Held => row[p].delivery \in Held
    /\ s.delivery \in Accepted =>
           \/ row[p].delivery \in Accepted /\ s.accepted = row[p].accepted
           \/ /\ row[p].delivery \in Held
              /\ row[p].created <= s.accepted /\ s.accepted <= now

RowsMove ==
    /\ late \subseteq late'
    /\ \A p \in Proposals :
           /\ Moves(p, row'[p])
           /\ row[p].delivery \in Held /\ row'[p].delivery \in Accepted
              /\ LeaseEnded(p) => p \in late'

LEMMA Numerals ==
    ASSUME LedgerInv
    PROVE  /\ now \in Nat /\ Lease \in Nat /\ Window \in Nat /\ Day \in Nat \ {0}
           /\ Limit \in [Categories -> Nat]
           /\ row \in [Proposals -> Row] /\ NoTime \notin Times
           /\ \A p \in Proposals : /\ row[p] \in Row
                                   /\ row[p].created \in Nat /\ row[p].accepted \in Int
                                   /\ confirmed[p] \in Times \cup {NoTime}
<1>1. TypeOK /\ row \in [Proposals -> Row] /\ now \in Times /\ NoTime \notin Times
    BY TypedRows DEF LedgerInv
<1>2. \A p \in Proposals : row[p].created \in Nat /\ row[p].accepted \in Int
    BY <1>1, LedgerAssumption DEF Row, Times, NoTime
<1>3. \A p \in Proposals : confirmed[p] \in Times \cup {NoTime}
    BY <1>1 DEF TypeOK
<1> QED
    BY <1>1, <1>2, <1>3, LedgerAssumption DEF Times

\* The helpers of SpeakupLog move rows.
LEMMA MoveForms ==
    ASSUME LedgerInv, NEW p \in Proposals, StampInv(p)
    PROVE  /\ Moves(p, row[p])
           /\ Moves(p, Attempted(row[p]))
           /\ \A s \in Released : /\ Moves(p, ReleasedRow(row[p], s))
                                  /\ Moves(p, ReleasedRow(Attempted(row[p]), s))
           /\ Moves(p, UnknownRow(row[p]))
           /\ Moves(p, AcceptedRow(row[p], now))
           /\ confirmed[p] # NoTime => Moves(p, AcceptedRow(row[p], confirmed[p]))
<1>1. PICK r \in Row : r = row[p]
    BY Numerals, Zenon
<1>2. r.created <= now /\ r.delivery \in Deliveries
      /\ (confirmed[p] # NoTime => r.created <= confirmed[p] /\ confirmed[p] <= now)
    BY <1>1, Zenon DEF StampInv, Row
<1>3. Moves(p, r) /\ Moves(p, Attempted(r)) /\ Moves(p, UnknownRow(r))
    BY <1>1, <1>2 DEF Moves, Attempted, UnknownRow, Row, Held, Accepted
<1>4. ASSUME NEW s \in Released
      PROVE  Moves(p, ReleasedRow(r, s)) /\ Moves(p, ReleasedRow(Attempted(r), s))
    <2>1. Moves(p, ReleasedRow(r, s))
        BY <1>1, <1>2, Zenon DEF Moves, ReleasedRow, Row, Held, Accepted, Released
    <2>2. PICK a : a = Attempted(r)
        BY Zenon
    <2>3. a \in Row /\ a.created = r.created /\ a.accepted = r.accepted
          /\ a.delivery = (IF r.delivery = "reserved" THEN "submitted" ELSE r.delivery)
        BY <2>2, AttemptedFacts, Zenon DEF Attempted, Row
    <2>4. Moves(p, ReleasedRow(a, s))
        BY <1>1, <1>2, <2>3, Zenon DEF Moves, ReleasedRow, Row, Held, Accepted, Released
    <2> QED
        BY <2>1, <2>2, <2>4, Zenon
<1>5. ASSUME NEW at, r.created <= at /\ at <= now
      PROVE  Moves(p, AcceptedRow(r, at))
    BY <1>1, <1>2, <1>5, Zenon DEF Moves, AcceptedRow, Row, Held, Accepted
<1>6. r.created <= now /\ now <= now
    BY <1>2, Numerals
<1> QED
    BY <1>1, <1>2, <1>3, <1>4, <1>5, <1>6, Zenon

LEMMA EvidencedMoves ==
    ASSUME LedgerInv, NEW p \in Proposals, StampInv(p), NEW s \in Row, Moves(p, s),
           s.delivery \in Held \cup Accepted
    PROVE  Moves(p, Evidenced(p, s))
<1>1. CASE Evidenced(p, s) = s
    BY <1>1
<1>2. CASE Evidenced(p, s) = DeliveredRow(s, now)
    <2>1. PICK d : d = DeliveredRow(s, now)
        OBVIOUS
    <2>2. CASE s.delivery = "delivered"
        BY <1>2, <2>2, Zenon DEF DeliveredRow
    <2>3. CASE s.delivery # "delivered"
        <3>1. d = [s EXCEPT !.delivery = "delivered", !.attempt = "delivered",
                            !.accepted = IF s.delivery = "transport_accepted"
                                         THEN s.accepted ELSE now]
            BY <2>1, <2>3 DEF DeliveredRow
        <3>2. d.delivery = "delivered" /\ d.created = s.created
              /\ d.accepted = (IF s.delivery = "transport_accepted"
                               THEN s.accepted ELSE now)
            BY <3>1, Zenon DEF Row
        <3>3. row[p].created <= now /\ now <= now
            BY Numerals DEF StampInv
        <3>4. s.delivery = "transport_accepted" \/ s.delivery \in Held
            BY <2>3, Zenon DEF Accepted
        <3>5. row[p].delivery # "none" /\ "delivered" \notin Held
              /\ "delivered" \in Accepted /\ "delivered" # "none"
            BY DEF Moves, Held, Accepted
        <3>6. CASE s.delivery = "transport_accepted"
            <4>1. d.accepted = s.accepted /\ s.delivery \in Accepted
                BY <3>2, <3>6, Zenon DEF Accepted
            <4> QED
                BY <1>2, <2>1, <3>2, <3>5, <4>1, Zenon DEF Moves
        <3>7. CASE s.delivery \in Held /\ s.delivery # "transport_accepted"
            <4>1. d.accepted = now
                BY <3>2, <3>7
            <4> QED
                BY <1>2, <2>1, <3>2, <3>3, <3>5, <3>7, <4>1, Zenon DEF Moves
        <3> QED
            BY <1>2, <2>1, <3>4, <3>6, <3>7, Zenon
    <2> QED
        BY <2>2, <2>3, Zenon
<1> QED
    BY <1>1, <1>2, Zenon DEF Evidenced

LEMMA ProjectedMoves ==
    ASSUME LedgerInv, NEW p \in Pending, StampInv(p)
    PROVE  Moves(p, Projected(p))
<1>1. PICK r \in Row : r = row[p]
    BY Numerals, Zenon DEF Pending
<1>2. p \in Proposals /\ r.delivery \in Held \cup Accepted
      /\ confirmed[p] \in Times \cup {NoTime}
    BY <1>1, Numerals, Zenon DEF Pending, Accepted
<1>3. \/ Projected(p) \in {r, Evidenced(p, r), ReleasedRow(r, "expired"),
                           ReleasedRow(r, "failed"), UnknownRow(r)}
      \/ /\ confirmed[p] # NoTime
         /\ Projected(p) = Evidenced(p, AcceptedRow(r, confirmed[p]))
    BY <1>1 DEF Projected
<1>4. "expired" \in Released /\ "failed" \in Released
    BY DEF Released
<1>5. /\ Moves(p, r) /\ Moves(p, UnknownRow(r))
      /\ Moves(p, ReleasedRow(r, "expired")) /\ Moves(p, ReleasedRow(r, "failed"))
      /\ confirmed[p] # NoTime => Moves(p, AcceptedRow(r, confirmed[p]))
    BY <1>1, <1>2, <1>4, MoveForms, Zenon
<1>6. Moves(p, Evidenced(p, r))
    BY <1>2, <1>5, EvidencedMoves, Zenon
<1>7. ASSUME confirmed[p] # NoTime
      PROVE  Moves(p, Evidenced(p, AcceptedRow(r, confirmed[p])))
    <2>1. PICK a : a = AcceptedRow(r, confirmed[p])
        OBVIOUS
    <2>2. a \in Row /\ a.delivery \in {r.delivery, "transport_accepted"}
        BY <1>2, <1>7, <2>1, AcceptedRowFacts, Zenon
    <2>3. a.delivery \in Held \cup Accepted
        BY <1>2, <2>2 DEF Accepted
    <2> QED
        BY <1>2, <1>5, <1>7, <2>1, <2>2, <2>3, EvidencedMoves, Zenon
<1> QED
    BY <1>3, <1>5, <1>6, <1>7, Zenon

LEMMA WriteMoves ==
    ASSUME NEW rows, Write(rows), \A p \in Proposals : Moves(p, rows[p])
    PROVE  RowsMove
<1>1. row' = rows /\ late \subseteq late'
    BY DEF Write
<1>2. \A p \in Proposals : row[p].delivery \in Held => row[p].delivery \notin Accepted
    BY DEF Held, Accepted
<1>3. \A p \in Proposals : row[p].delivery \in Held /\ rows[p].delivery \in Accepted
                           /\ LeaseEnded(p) => p \in late'
    BY <1>2, Zenon DEF Write
<1> QED
    BY <1>1, <1>3, Zenon DEF RowsMove

LEMMA WriteRowMoves ==
    ASSUME LedgerInv, \A q \in Proposals : StampInv(q),
           NEW p \in Proposals, NEW r, WriteRow(p, r), Moves(p, r)
    PROVE  RowsMove
<1>1. PICK rows : rows = [row EXCEPT ![p] = r]
    BY Zenon
<1>2. rows[p] = r /\ \A q \in Proposals \ {p} : rows[q] = row[q]
    BY <1>1, Numerals
<1>3. \A q \in Proposals : Moves(q, row[q])
    BY MoveForms, Zenon
<1>4. \A q \in Proposals : Moves(q, rows[q])
    BY <1>2, <1>3, Zenon
<1>5. Write(rows)
    BY <1>1, Zenon DEF WriteRow
<1> QED
    BY <1>4, <1>5, WriteMoves, Zenon

LEMMA SameRowsMove ==
    ASSUME LedgerInv, \A q \in Proposals : StampInv(q), row' = row, late' = late
    PROVE  RowsMove
<1>1. \A q \in Proposals : Moves(q, row'[q])
    BY MoveForms, Zenon
<1>2. \A p \in Proposals : row[p].delivery \in Held => row'[p].delivery \notin Accepted
    BY DEF Held, Accepted
<1> QED
    BY <1>1, <1>2, Zenon DEF RowsMove

\* Every step but a reservation and the clock's moves rows.
LEMMA StepMoves ==
    ASSUME LedgerInv, \A q \in Proposals : StampInv(q), [Next]_vars,
           ~Tick, \A j \in Jobs, q \in Proposals : ~Reserve(j, q)
    PROVE  RowsMove /\ now' = now
<1>1. ASSUME NEW j \in Jobs, NEW q \in Proposals, Approve(j, q)
      PROVE  RowsMove /\ now' = now
    BY <1>1, SameRowsMove, Zenon DEF Approve
<1>2. ASSUME NEW j \in Jobs, Stage(j) \/ PreviewSent(j) \/ Start(j) \/ CrashBetweenCommits(j)
      PROVE  RowsMove /\ now' = now
    BY <1>2, SameRowsMove, Zenon DEF Stage, PreviewSent, Start, CrashBetweenCommits,
       Crash, durable
<1>3. "failed" \in Released /\ "expired" \in Released /\ "cancelled" \in Released
    BY DEF Released
<1>4. ASSUME NEW j \in Jobs, Abandon(j) \/ PreviewFailed(j)
      PROVE  RowsMove /\ now' = now
    <2>1. PICK q \in Proposals : q = job[j].p
        BY <1>4, InvParts, JobFacts, Zenon DEF Abandon, PreviewFailed
    <2>2. WriteRow(q, ReleasedRow(row[q], "failed")) /\ now' = now
        BY <1>4, <2>1, Zenon DEF Abandon, PreviewFailed
    <2>3. Moves(q, ReleasedRow(row[q], "failed"))
        BY <1>3, MoveForms, Zenon
    <2> QED
        BY <2>2, <2>3, WriteRowMoves, Zenon
<1>5. ASSUME NEW j \in Jobs, SubmitComment(j) \/ SubmitApproved(j)
      PROVE  RowsMove /\ now' = now
    <2>1. PICK q \in Proposals : q = job[j].p
        BY <1>5, InvParts, JobFacts, Zenon DEF SubmitComment, SubmitApproved
    <2>2. Submit(j, q)
        BY <1>5, <2>1, Zenon DEF SubmitComment, SubmitApproved
    <2>3. \/ UNCHANGED <<row, late>>
          \/ WriteRow(q, Attempted(row[q]))
          \/ WriteRow(q, ReleasedRow(Attempted(row[q]), "failed"))
        BY <2>2, Zenon DEF Submit
    <2>4. now' = now
        BY <2>2 DEF Submit
    <2>5. Moves(q, Attempted(row[q])) /\ Moves(q, ReleasedRow(Attempted(row[q]), "failed"))
        BY <1>3, MoveForms, Zenon
    <2>6. CASE UNCHANGED <<row, late>>
        BY <2>4, <2>6, SameRowsMove, Zenon
    <2> QED
        BY <2>3, <2>4, <2>5, <2>6, WriteRowMoves, Zenon
<1>6. ASSUME NEW j \in Jobs, Refuse(j)
      PROVE  RowsMove /\ now' = now
    <2>1. PICK q \in Proposals : q = job[j].p
        BY <1>6, InvParts, JobFacts, Zenon DEF Refuse
    <2>2. \/ UNCHANGED <<row, late>>
          \/ \E s \in {"failed", "expired"} : WriteRow(q, ReleasedRow(row[q], s))
        BY <1>6, <2>1, Zenon DEF Refuse
    <2>3. now' = now
        BY <1>6, Zenon DEF Refuse
    <2>4. \A s \in {"failed", "expired"} : Moves(q, ReleasedRow(row[q], s))
        BY <1>3, MoveForms, Zenon
    <2>5. CASE UNCHANGED <<row, late>>
        BY <2>3, <2>5, SameRowsMove
    <2> QED
        BY <2>2, <2>3, <2>4, <2>5, WriteRowMoves, Zenon
<1>7. ASSUME NEW j \in Jobs, Finish(j)
      PROVE  RowsMove /\ now' = now
    <2>1. PICK q \in Proposals : q = job[j].p
        BY <1>7, InvParts, JobFacts, Zenon DEF Finish
    <2>2. \E r \in {AcceptedRow(row[q], now), ReleasedRow(row[q], "failed"), row[q]} :
              WriteRow(q, r)
        BY <1>7, <2>1, ZenonT(30) DEF Finish
    <2>3. now' = now
        BY <1>7 DEF Finish
    <2>4. \A r \in {AcceptedRow(row[q], now), ReleasedRow(row[q], "failed"), row[q]} :
              Moves(q, r)
        BY <1>3, MoveForms, Zenon
    <2> QED
        BY <2>2, <2>3, <2>4, WriteRowMoves, ZenonT(30)
<1>8. ASSUME NEW q \in Proposals, Close(q)
      PROVE  RowsMove /\ now' = now
    <2>1. \E r \in {ReleasedRow(row[q], "cancelled"), ReleasedRow(row[q], "expired"), row[q]} :
              WriteRow(q, r)
        <3>1. PICK r : /\ WriteRow(q, r)
                       /\ r = IF row[q].attempt = "unsubmitted"
                              THEN ReleasedRow(row[q], IF approvalEnds[q] > now
                                                       THEN "cancelled" ELSE "expired")
                              ELSE row[q]
            BY <1>8, Zenon DEF Close
        <3> QED
            BY <3>1, Zenon
    <2>2. now' = now
        BY <1>8 DEF Close
    <2>3. \A r \in {ReleasedRow(row[q], "cancelled"), ReleasedRow(row[q], "expired"), row[q]} :
              Moves(q, r)
        BY <1>3, MoveForms, Zenon
    <2> QED
        BY <2>1, <2>2, <2>3, WriteRowMoves, Zenon
<1>9. ASSUME NEW q \in Proposals,
             \/ Outcome(q) \/ LateReceipt(q) \/ Signal(q)
             \/ Probe(q) \/ OperatorConfirms(q)
      PROVE  RowsMove /\ now' = now
    BY <1>9, SameRowsMove, Zenon
       DEF Outcome, LateReceipt, Probe, OperatorConfirms, Signal, durable
<1>10. CASE Reconcile \/ Restart
    <2>1. ProjectBatch /\ now' = now
        BY <1>10 DEF Reconcile, Restart, Crash
    <2>2. PICK S \in Batches :
              Write([p \in Proposals |-> IF p \in S THEN Projected(p) ELSE row[p]])
        BY <2>1, Zenon DEF ProjectBatch
    <2>3. PICK rows : rows = [p \in Proposals |-> IF p \in S THEN Projected(p) ELSE row[p]]
        BY Zenon
    <2>4. S \subseteq Pending
        BY DEF Batches
    <2>5. ASSUME NEW p \in Proposals
          PROVE  Moves(p, rows[p])
        <3>1. CASE p \in S
            BY <2>3, <2>4, <3>1, ProjectedMoves, Zenon
        <3>2. CASE p \notin S
            BY <2>3, <3>2, MoveForms, Zenon
        <3> QED
            BY <3>1, <3>2, Zenon
    <2> QED
        BY <2>1, <2>2, <2>3, <2>5, WriteMoves, Zenon
<1>11. CASE UNCHANGED vars
    BY <1>11, SameRowsMove, Zenon DEF vars, durable
<1> QED
    BY <1>1, <1>2, <1>4, <1>5, <1>6, <1>7, <1>8, <1>9, <1>10, <1>11, Zenon DEF Next

\* What nothing has happened to stays so until it is reserved.
LEMMA BlankStays ==
    ASSUME LedgerInv, NEW p \in Proposals, Blank(p), [Next]_vars,
           \A j \in Jobs : ~Reserve(j, p)
    PROVE  Blank(p)'
<1>1. RestTyped /\ \A j \in Jobs : job[j].pc # "idle" => job[j].p \in Proposals \ {p}
    BY InvParts, JobFacts, Zenon DEF Blank, Busy
<1>2. /\ status = [q \in Proposals |-> status[q]] /\ effect = [q \in Proposals |-> effect[q]]
      /\ confirmed = [q \in Proposals |-> confirmed[q]]
      /\ job = [j \in Jobs |-> job[j]]
    BY <1>1, Zenon DEF RestTyped
<1>3. ASSUME NEW j \in Jobs, NEW x, NEW q \in Proposals \ {p},
             job' = [job EXCEPT ![j] = x], x.p = q \/ x.pc = "idle"
      PROVE  ~Busy(p)'
    BY <1>2, <1>3, Zenon DEF Blank, Busy
<1>4. ASSUME NEW q \in Proposals \ {p}, NEW j \in Jobs, job[j].p = q,
             \/ job' = job \/ End(j) \/ \E pc : Become(j, pc)
             \/ \E pc : job' = [job EXCEPT ![j] = [pc |-> pc, p |-> q]]
      PROVE  ~Busy(p)'
    <2>1. CASE End(j)
        BY <1>3, <2>1, Zenon DEF End, Idle
    <2>2. ASSUME NEW pc, Become(j, pc)
          PROVE  ~Busy(p)'
        <3>1. job[j] \in {Idle} \cup Working
            BY <1>1 DEF RestTyped
        <3>2. PICK x : x = [job[j] EXCEPT !.pc = pc]
            BY Zenon
        <3>3. x.p = q
            BY <1>4, <3>1, <3>2, Zenon DEF Idle, Working
        <3>4. job' = [job EXCEPT ![j] = x]
            BY <2>2, <3>2, Zenon DEF Become
        <3> QED
            BY <1>3, <3>3, <3>4, Zenon
    <2>3. ASSUME NEW pc, job' = [job EXCEPT ![j] = [pc |-> pc, p |-> q]]
          PROVE  ~Busy(p)'
        BY <1>3, <2>3, Zenon
    <2>4. CASE job' = job
        BY <2>4, Zenon DEF Blank, Busy
    <2> QED
        BY <1>4, <2>1, <2>2, <2>3, <2>4, Zenon
<1>5. ASSUME NEW q \in Proposals \ {p}, ~Busy(p)',
             \/ status' = status \/ \E x : status' = [status EXCEPT ![q] = x],
             \/ effect' = effect \/ \E x : effect' = [effect EXCEPT ![q] = x],
             \/ confirmed' = confirmed \/ \E x : confirmed' = [confirmed EXCEPT ![q] = x]
      PROVE  Blank(p)'
    BY <1>2, <1>5, Zenon DEF Blank
<1>6. ASSUME NEW j \in Jobs, NEW q \in Proposals, Reserve(j, q) \/ Approve(j, q)
      PROVE  Blank(p)'
    <2>1. q \in Proposals \ {p}
        BY <1>6, Zenon DEF Approve, Blank
    <2>2. \E pc : job' = [job EXCEPT ![j] = [pc |-> pc, p |-> q]]
        BY <1>6 DEF Reserve, Approve
    <2>3. ~Busy(p)'
        BY <1>3, <2>1, <2>2, ZenonT(30)
    <2> QED
        BY <1>5, <1>6, <2>1, <2>3, Zenon DEF Reserve, Approve, transport
<1>7. ASSUME NEW j \in Jobs, Abandon(j) \/ Stage(j) \/ PreviewSent(j) \/ PreviewFailed(j)
      PROVE  Blank(p)'
    <2>1. PICK q \in Proposals \ {p} : q = job[j].p
        BY <1>1, <1>7, ZenonT(30) DEF Abandon, Stage, PreviewSent, PreviewFailed
    <2>2. End(j) \/ Become(j, "previewing")
        BY <1>7, Zenon DEF Abandon, Stage, PreviewSent, PreviewFailed
    <2>3. ~Busy(p)'
        BY <1>4, <2>1, <2>2, Zenon
    <2> QED
        BY <1>5, <1>7, <2>1, <2>3, Zenon DEF Abandon, Stage, PreviewSent, PreviewFailed,
           transport
<1>8. ASSUME NEW j \in Jobs, SubmitComment(j) \/ SubmitApproved(j)
      PROVE  Blank(p)'
    <2>1. PICK q \in Proposals \ {p} : q = job[j].p
        BY <1>1, <1>8, Zenon DEF SubmitComment, SubmitApproved
    <2>2. Submit(j, q)
        BY <1>8, <2>1, Zenon DEF SubmitComment, SubmitApproved
    <2>3. /\ End(j) \/ Become(j, "calling")
          /\ confirmed' = confirmed
          /\ \/ status' = status \/ \E x : status' = [status EXCEPT ![q] = x]
          /\ \E x : effect' = [effect EXCEPT ![q] = x]
        <3>1. confirmed' = confirmed /\ (End(j) \/ Become(j, "calling"))
            BY <2>2, Zenon DEF Submit
        <3>2. \/ status' = status \/ \E x : status' = [status EXCEPT ![q] = x]
            BY <2>2, Zenon DEF Submit
        <3>3. \E x : effect' = [effect EXCEPT ![q] = x]
            BY <2>2, Zenon DEF Submit
        <3> QED
            BY <3>1, <3>2, <3>3, Zenon
    <2>4. ~Busy(p)'
        BY <1>4, <2>1, <2>3, Zenon
    <2> QED
        BY <1>5, <2>3, <2>4, Zenon
<1>9. ASSUME NEW j \in Jobs, Refuse(j) \/ Start(j) \/ Finish(j)
      PROVE  Blank(p)'
    <2>1. PICK q \in Proposals \ {p} : q = job[j].p
        BY <1>1, <1>9, ZenonT(30) DEF Refuse, Start, Finish
    <2>2. job' = job \/ End(j) \/ Become(j, "running")
        BY <1>9, Zenon DEF Refuse, Start, Finish
    <2>3. ~Busy(p)'
        BY <1>4, <2>1, <2>2, Zenon
    <2>4. /\ confirmed' = confirmed
          /\ \/ status' = status \/ \E x : status' = [status EXCEPT ![q] = x]
          /\ \/ effect' = effect \/ \E x : effect' = [effect EXCEPT ![q] = x]
        <3>1. CASE Refuse(j)
            BY <2>1, <3>1, Zenon DEF Refuse, transport
        <3>2. CASE Start(j)
            BY <2>1, <3>2, Zenon DEF Start, durable
        <3>3. CASE Finish(j)
            BY <2>1, <3>3, Zenon DEF Finish, transport
        <3> QED
            BY <1>9, <3>1, <3>2, <3>3, Zenon
    <2> QED
        BY <1>5, <2>3, <2>4, Zenon
<1>10. ASSUME NEW q \in Proposals,
              \/ Close(q) \/ Signal(q)
              \/ Outcome(q) \/ LateReceipt(q) \/ Probe(q) \/ OperatorConfirms(q)
       PROVE  Blank(p)'
    <2>1. ~Busy(p)'
        BY <1>10, Zenon DEF Close, Outcome, LateReceipt, Probe, OperatorConfirms, Signal,
           Blank, Busy
    <2>2. CASE q = p
        <3>1. Signal(q) /\ UNCHANGED <<status, effect, confirmed>>
            BY <1>10, <2>2, Zenon DEF Close, Outcome, LateReceipt, Probe, OperatorConfirms,
               Signal, Blank, durable
        <3> QED
            BY <2>1, <3>1, ZenonT(30) DEF Blank
    <2>3. CASE q # p
        <3>1. q \in Proposals \ {p}
            BY <2>3, Zenon
        <3> QED
            BY <1>5, <1>10, <2>1, <3>1, Zenon
               DEF Close, Outcome, LateReceipt, Probe, OperatorConfirms, Signal, durable,
                   transport
    <2> QED
        BY <2>2, <2>3, Zenon
<1>11. CASE Reconcile \/ Restart
    <2>1. /\ UNCHANGED <<effect, confirmed>>
          /\ job' = job \/ job' = [k \in Jobs |-> Idle]
          /\ ProjectBatch
        BY <1>11, Zenon DEF Reconcile, Restart, Crash, transport
    <2>2. status'[p] = "none"
        BY <2>1, ProjectBatchFacts, Zenon DEF Blank
    <2>3. ~Busy(p)'
        BY <2>1 DEF Blank, Busy, Idle
    <2> QED
        BY <2>1, <2>2, <2>3, Zenon DEF Blank
<1>12. ASSUME NEW j \in Jobs, CrashBetweenCommits(j)
       PROVE  Blank(p)'
    <2>1. PICK q \in Proposals \ {p} : q = job[j].p
        BY <1>1, <1>12, Zenon DEF CrashBetweenCommits
    <2>2. /\ UNCHANGED <<status, confirmed>> /\ job' = [k \in Jobs |-> Idle]
          /\ effect' = [effect EXCEPT ![q] = Enqueued(q)]
        BY <1>12, <2>1, Zenon DEF CrashBetweenCommits, Crash
    <2>3. ~Busy(p)'
        BY <2>2, Zenon DEF Busy, Idle
    <2> QED
        BY <1>5, <2>2, <2>3, Zenon
<1>13. CASE Tick \/ UNCHANGED vars
    BY <1>13, Zenon DEF Tick, vars, durable, transport, Blank, Busy
<1> QED
    BY <1>6, <1>7, <1>8, <1>9, <1>10, <1>11, <1>12, <1>13, Zenon DEF Next

\* The row a reservation writes.
LEMMA ReserveRow ==
    ASSUME LedgerInv, NEW j \in Jobs, NEW q \in Proposals, Reserve(j, q)
    PROVE  /\ row[q].delivery = "none"
           /\ row'[q].delivery = "reserved" /\ row'[q].created = now
           /\ \A p \in Proposals \ {q} : row'[p] = row[p]
           /\ late \subseteq late'
           /\ UNCHANGED <<confirmed, now>>
<1>1. row' = [row EXCEPT ![q] = [delivery |-> "reserved", attempt |-> "unsubmitted",
                                 created |-> now, accepted |-> NoTime]]
    BY Zenon DEF Reserve, WriteRow, Write
<1>2. row'[q].delivery = "reserved" /\ row'[q].created = now
      /\ \A p \in Proposals \ {q} : row'[p] = row[p]
    BY <1>1, Numerals, Zenon
<1>3. late \subseteq late' /\ row[q].delivery = "none" /\ UNCHANGED <<confirmed, now>>
    BY Zenon DEF Reserve, WriteRow, Write, transport
<1> QED
    BY <1>2, <1>3, Zenon

\* A confirmation is written once, with the time it is.
LEMMA ConfirmedOnce ==
    ASSUME LedgerInv, [Next]_vars, NEW p \in Proposals
    PROVE  confirmed'[p] = confirmed[p] \/ confirmed'[p] = now
<1>1. confirmed = [q \in Proposals |-> confirmed[q]]
    BY InvParts, Zenon DEF RestTyped
<1>2. \/ confirmed' = confirmed
      \/ \E q \in Proposals : confirmed' = [confirmed EXCEPT ![q] = now]
    <2>1. ASSUME NEW q \in Proposals,
                 Outcome(q) \/ LateReceipt(q) \/ Probe(q) \/ OperatorConfirms(q)
          PROVE  confirmed' = confirmed \/ confirmed' = [confirmed EXCEPT ![q] = now]
        BY <2>1, Zenon DEF Outcome, LateReceipt, Probe, OperatorConfirms
    <2>2. ASSUME NEW j \in Jobs, Submit(j, job[j].p)
          PROVE  confirmed' = confirmed
        BY <2>2, Zenon DEF Submit
    <2> QED
        BY <2>1, <2>2, ZenonT(30) DEF Next, Reserve, Approve, Abandon, SubmitComment, Stage,
           PreviewSent, PreviewFailed, Refuse, SubmitApproved, Start, Finish,
           CrashBetweenCommits, Crash, Close, Signal, Reconcile, Restart, Tick, vars,
           transport
<1> QED
    BY <1>1, <1>2, Zenon

LEMMA StampStep ==
    ASSUME LedgerInv, \A q \in Proposals : StampInv(q), [Next]_vars, NEW p \in Proposals
    PROVE  StampInv(p)'
<1>1. /\ now \in Nat /\ row[p].created \in Nat /\ row[p].accepted \in Int
      /\ confirmed[p] \in Int /\ StampInv(p)
    BY Numerals DEF Times, NoTime
<1>2. CASE \E j \in Jobs : Reserve(j, p)
    <2>1. /\ row[p].delivery = "none" /\ row'[p].delivery = "reserved"
          /\ row'[p].created = now /\ UNCHANGED <<confirmed, now>>
        BY <1>2, ReserveRow, Zenon
    <2>2. confirmed'[p] = NoTime /\ "reserved" \notin Accepted
        BY <1>1, <2>1, Zenon DEF StampInv, Blank, Accepted
    <2> QED
        BY <1>1, <2>1, <2>2 DEF StampInv
<1>3. CASE \A j \in Jobs : ~Reserve(j, p)
    <2>1. /\ row'[p].created = row[p].created
          /\ row'[p].delivery = "none" => row[p].delivery = "none"
          /\ row'[p].delivery \in Accepted =>
                row[p].created <= row'[p].accepted /\ row'[p].accepted <= now
          /\ now' \in {now, now + 1}
        <3>1. CASE \E j \in Jobs, q \in Proposals : Reserve(j, q)
            <4>1. row'[p] = row[p] /\ now' = now
                BY <1>3, <3>1, ReserveRow, Zenon
            <4> QED
                BY <1>1, <4>1, Zenon DEF StampInv
        <3>2. CASE Tick
            BY <1>1, <3>2, Zenon DEF Tick, durable, StampInv
        <3>3. CASE ~Tick /\ \A j \in Jobs, q \in Proposals : ~Reserve(j, q)
            <4>1. Moves(p, row'[p]) /\ now' = now
                BY <3>3, StepMoves, Zenon DEF RowsMove
            <4> QED
                BY <1>1, <4>1, Zenon DEF Moves, StampInv
        <3> QED
            BY <3>1, <3>2, <3>3, Zenon
    <2>2. row'[p].delivery = "none" => Blank(p)'
        BY <1>1, <1>3, <2>1, BlankStays, Zenon DEF StampInv
    <2>3. confirmed'[p] # NoTime => row[p].created <= confirmed'[p] /\ confirmed'[p] <= now
        BY <1>1, ConfirmedOnce DEF StampInv
    <2>4. row'[p].created <= now'
        BY <1>1, <2>1 DEF StampInv
    <2>5. row'[p].delivery \in Accepted =>
                row'[p].created <= row'[p].accepted /\ row'[p].accepted <= now'
        <3>1. row'[p].delivery \in Accepted => row'[p].accepted \in Int
            <4>1. RowsSafe
                BY StepInv, Zenon
            <4>2. row' \in [Proposals -> Row]
                BY <4>1, Zenon DEF RowsSafe
            <4> QED
                BY <4>2, LedgerAssumption DEF Row, Times, NoTime
        <3> QED
            BY <1>1, <2>1, <3>1
    <2>6. confirmed'[p] # NoTime => row'[p].created <= confirmed'[p] /\ confirmed'[p] <= now'
        <3>1. confirmed'[p] \in Int
            BY <1>1, ConfirmedOnce
        <3> QED
            BY <1>1, <2>1, <2>3, <3>1
    <2> QED
        BY <2>2, <2>4, <2>5, <2>6, Zenon DEF StampInv
<1> QED
    BY <1>2, <1>3, Zenon

-----------------------------------------------------------------------------
(* The windows: what is held or charged in one is counted.                 *)

INSTANCE FiniteSetTheorems

\* A smaller set of a finite one keeps within the limit.
LEMMA LiveShrinks ==
    ASSUME LedgerInv, IsFiniteSet(Known), NEW c \in Categories, NEW t, NEW S,
           S \subseteq Live(c, t), Cardinality(Live(c, t)) <= Limit[c]
    PROVE  Cardinality(S) <= Limit[c]
<1>1. Live(c, t) \subseteq Known
    BY Zenon DEF Live, Known, Held, Accepted
<1>2. IsFiniteSet(Live(c, t))
    BY <1>1, FS_Subset, Zenon
<1>3. IsFiniteSet(S) /\ Cardinality(S) <= Cardinality(Live(c, t))
    BY <1>2, FS_Subset, Zenon
<1>4. Cardinality(S) \in Nat /\ Cardinality(Live(c, t)) \in Nat
    BY <1>2, <1>3, FS_CardinalityType, ZenonT(30)
<1>5. Limit[c] \in Nat
    BY Numerals, Zenon
<1> QED
    BY <1>3, <1>4, <1>5

LEMMA MovesKeepCapacity ==
    ASSUME LedgerInv, \A q \in Proposals : StampInv(q), CapacityInv, RowsSafe, RowsMove,
           now' = now
    PROVE  CapacityInv'
<1>1. Known' = Known
    BY Zenon DEF Known, RowsMove, Moves
<1>2. ASSUME NEW c \in Categories, NEW t \in 0 .. now
      PROVE  Live(c, t)' \subseteq Live(c, t)
    <2> SUFFICES ASSUME NEW q \in Live(c, t)'
                 PROVE  q \in Live(c, t)
        BY ZenonT(30)
    <2>1. /\ q \in Proposals /\ c \in Dims[q] /\ Moves(q, row'[q])
          /\ row[q].created \in Nat /\ now \in Nat /\ Lease \in Nat /\ Day \in Nat \ {0}
          /\ t \in Nat
        BY Numerals DEF Live, RowsMove
    <2>2. CASE /\ row'[q].delivery \in Accepted /\ q \notin late'
               /\ InWindow(c, t, row'[q].accepted)
        <3>1. CASE row[q].delivery \in Accepted /\ row'[q].accepted = row[q].accepted
            <4>1. q \notin late
                BY <2>2, Zenon DEF RowsMove
            <4> QED
                BY <2>1, <2>2, <3>1, <4>1, ZenonT(30) DEF Live
        <3>2. CASE /\ row[q].delivery \in Held
                   /\ row[q].created <= row'[q].accepted /\ row'[q].accepted <= now
            <4>1. ~LeaseEnded(q)
                BY <2>1, <2>2, <3>2, ZenonT(30) DEF RowsMove
            <4>2. row'[q].accepted \in Nat
                <5>1. row'[q] \in Row
                    BY <2>1, Zenon DEF RowsSafe
                <5>2. row'[q].accepted \in Int
                    BY <5>1, LedgerAssumption DEF Row, Times, NoTime
                <5> QED
                    BY <2>1, <3>2, <5>2
            <4>3. Reaches(c, t, row[q].created)
                <5>1. CASE c \in Rolling
                    BY <2>1, <2>2, <3>2, <4>2, <5>1 DEF InWindow, Reaches
                <5>2. CASE c \notin Rolling
                    <6>1. row[q].created \div Day <= row'[q].accepted \div Day
                        BY <2>1, <3>2, <4>2, DaysInOrder, ZenonT(30)
                    <6> QED
                        BY <2>2, <5>2, <6>1, Zenon DEF InWindow, Reaches
                <5> QED
                    BY <5>1, <5>2, ZenonT(30)
            <4> QED
                BY <2>1, <3>2, <4>1, <4>3, ZenonT(30) DEF Live
        <3> QED
            BY <2>1, <2>2, <3>1, <3>2, ZenonT(30) DEF Moves
    <2>3. CASE /\ row'[q].delivery \in Held /\ ~LeaseEnded(q)'
               /\ Reaches(c, t, row'[q].created)
        <3>1. row[q].delivery \in Held /\ row'[q].created = row[q].created
            BY <2>1, <2>3, ZenonT(30) DEF Moves
        <3>2. ~LeaseEnded(q)
            BY <2>3, <3>1, Zenon DEF LeaseEnded
        <3> QED
            BY <2>1, <2>3, <3>1, <3>2, ZenonT(30) DEF Live
    <2>4. \/ /\ row'[q].delivery \in Accepted /\ q \notin late'
             /\ InWindow(c, t, row'[q].accepted)
          \/ /\ row'[q].delivery \in Held /\ ~LeaseEnded(q)'
             /\ Reaches(c, t, row'[q].created)
        BY Zenon DEF Live
    <2> QED
        BY <2>2, <2>3, <2>4, Zenon
<1>3. ASSUME NEW c \in Categories, NEW t \in 0 .. now
      PROVE  Cardinality(Live(c, t)') <= Limit[c]
    BY <1>2, LiveShrinks, Zenon DEF CapacityInv
<1> QED
    BY <1>1, <1>3, Zenon DEF CapacityInv

LEMMA TickKeepsCapacity ==
    ASSUME LedgerInv, \A q \in Proposals : StampInv(q), CapacityInv, Tick
    PROVE  CapacityInv'
<1>1. row' = row /\ late' = late /\ now' = now + 1 /\ now \in Nat
    BY Numerals, Zenon DEF Tick, durable
<1>2. Known' = Known
    BY <1>1, Zenon DEF Known
<1>3. ASSUME NEW c \in Categories, NEW t \in 0 .. now + 1
      PROVE  \E u \in 0 .. now : Live(c, t)' \subseteq Live(c, u)
    <2>1. PICK u \in 0 .. now : u = (IF t <= now THEN t ELSE now) /\ u <= t
        BY <1>1
    <2> SUFFICES ASSUME NEW q \in Live(c, t)'
                 PROVE  q \in Live(c, u)
        BY <2>1, ZenonT(30)
    <2>2. /\ q \in Proposals /\ c \in Dims[q] /\ StampInv(q)
          /\ row[q].created \in Nat /\ Lease \in Nat /\ Day \in Nat \ {0} /\ Window \in Nat
          /\ row[q].accepted \in Int /\ t \in Nat /\ u \in Nat
        BY Numerals, <1>1 DEF Live
    <2>3. CASE /\ row[q].delivery \in Accepted /\ q \notin late
               /\ InWindow(c, t, row[q].accepted)
        <3>1. row[q].created <= row[q].accepted /\ row[q].accepted <= now
            BY <2>2, <2>3, Zenon DEF StampInv
        <3>2. InWindow(c, u, row[q].accepted)
            <4>1. CASE c \in Rolling
                BY <1>1, <2>1, <2>2, <2>3, <3>1, <4>1 DEF InWindow
            <4>2. CASE c \notin Rolling
                <5>1. row[q].accepted \in Nat
                    BY <2>2, <3>1
                <5>2. CASE t <= now
                    BY <2>1, <2>3, <5>2, Zenon
                <5>3. CASE ~(t <= now)
                    <6>1. u = now /\ now <= t
                        BY <1>1, <2>1, <2>2, <5>3, ZenonT(30)
                    <6>2. /\ row[q].accepted \div Day \in Nat /\ now \div Day \in Nat
                          /\ t \div Day \in Nat
                          /\ row[q].accepted \div Day <= now \div Day
                          /\ now \div Day <= t \div Day
                        BY <1>1, <2>2, <3>1, <5>1, <6>1, DaysInOrder, ZenonT(30)
                    <6>3. row[q].accepted \div Day = t \div Day
                        BY <2>3, <4>2, ZenonT(30) DEF InWindow
                    <6>4. row[q].accepted \div Day = now \div Day
                        BY <6>2, <6>3
                    <6> QED
                        BY <4>2, <6>1, <6>4, Zenon DEF InWindow
                <5> QED
                    BY <5>2, <5>3, Zenon
            <4> QED
                BY <4>1, <4>2, ZenonT(30)
        <3> QED
            BY <2>2, <2>3, <3>2, Zenon DEF Live
    <2>4. CASE /\ row[q].delivery \in Held /\ ~LeaseEnded(q)'
               /\ Reaches(c, t, row[q].created)
        <3>1. ~LeaseEnded(q)
            BY <1>1, <2>2, <2>4 DEF LeaseEnded
        <3>2. row[q].created <= now
            BY <2>2, Zenon DEF StampInv
        <3>3. Reaches(c, u, row[q].created)
            <4>1. CASE c \in Rolling
                BY <1>1, <2>1, <2>2, <2>4, <3>2, <4>1, ZenonT(30) DEF Reaches
            <4>2. CASE c \notin Rolling /\ t <= now
                BY <2>1, <2>4, <4>2, Zenon
            <4>3. CASE c \notin Rolling /\ ~(t <= now)
                <5>1. row[q].created \div Day <= now \div Day
                    BY <1>1, <2>2, <3>2, DaysInOrder, ZenonT(30)
                <5> QED
                    BY <2>1, <4>3, <5>1, Zenon DEF Reaches
            <4> QED
                BY <4>1, <4>2, <4>3, Zenon
        <3> QED
            BY <2>2, <2>4, <3>1, <3>3, ZenonT(30) DEF Live
    <2>5. \/ /\ row[q].delivery \in Accepted /\ q \notin late
             /\ InWindow(c, t, row[q].accepted)
          \/ /\ row[q].delivery \in Held /\ ~LeaseEnded(q)'
             /\ Reaches(c, t, row[q].created)
        BY <1>1, Zenon DEF Live
    <2> QED
        BY <2>3, <2>4, <2>5, Zenon
<1>4. ASSUME NEW c \in Categories, NEW t \in 0 .. now + 1
      PROVE  Cardinality(Live(c, t)') <= Limit[c]
    BY <1>3, LiveShrinks, Zenon DEF CapacityInv
<1> QED
    BY <1>1, <1>2, <1>4, Zenon DEF CapacityInv

\* reserve_delivery_sync counts what is charged and held in the window of now,
\* the only one that reaches the new hold.
LEMMA ReserveKeepsCapacity ==
    ASSUME LedgerInv, \A p \in Proposals : StampInv(p), CapacityInv,
           NEW j \in Jobs, NEW q \in Proposals, Reserve(j, q)
    PROVE  CapacityInv'
<1>1. /\ row[q].delivery = "none"
      /\ row'[q].delivery = "reserved" /\ row'[q].created = now
      /\ \A p \in Proposals \ {q} : row'[p] = row[p]
      /\ late \subseteq late' /\ now' = now
    BY ReserveRow, Zenon
<1>2. /\ now \in Nat /\ Lease \in Nat /\ Day \in Nat \ {0} /\ Limit \in [Categories -> Nat]
      /\ \A p \in Proposals : row[p].created \in Nat
    BY Numerals, Zenon
<1>3. IsFiniteSet(Known')
    <2>1. Known' = Known \cup {q}
        BY <1>1, ZenonT(30) DEF Known
    <2> QED
        BY <2>1, FS_AddElement, Zenon DEF CapacityInv
<1>4. \A p \in Proposals \ {q} : LeaseEnded(p)' = LeaseEnded(p)
    BY <1>1, Zenon DEF LeaseEnded
<1>5. "reserved" \notin Accepted
    BY Zenon DEF Accepted
<1>6. ASSUME NEW c \in Categories, NEW t \in 0 .. now, NEW p \in Live(c, t)', p # q
      PROVE  p \in Live(c, t)
    BY <1>1, <1>4, <1>6, ZenonT(30) DEF Live
<1>7. ASSUME NEW c \in Categories, NEW t \in 0 .. now
      PROVE  Cardinality(Live(c, t)') <= Limit[c]
    <2>1. CASE q \notin Live(c, t)'
        <3>1. Live(c, t)' \subseteq Live(c, t)
            BY <1>6, <2>1, ZenonT(30)
        <3> QED
            BY <3>1, LiveShrinks, Zenon DEF CapacityInv
    <2>2. CASE q \in Live(c, t)'
        <3>1. c \in Dims[q] /\ Reaches(c, t, now)
            BY <1>1, <1>5, <2>2, ZenonT(30) DEF Live
        <3>2. t \in Nat /\ t <= now
            BY <1>2
        <3>3. \A at : InWindow(c, t, at) => InWindow(c, now, at)
            <4>1. CASE c \in Rolling
                <5>1. t = now
                    BY <1>2, <3>1, <3>2, <4>1 DEF Reaches
                <5> QED
                    BY <5>1, Zenon
            <4>2. CASE c \notin Rolling
                <5>1. /\ now \div Day \in Nat /\ t \div Day \in Nat
                      /\ t \div Day <= now \div Day
                    BY <1>2, <3>2, DaysInOrder, Zenon
                <5>2. now \div Day <= t \div Day
                    BY <3>1, <4>2, Zenon DEF Reaches
                <5>3. now \div Day = t \div Day
                    BY <5>1, <5>2
                <5> QED
                    BY <4>2, <5>3, Zenon DEF InWindow
            <4> QED
                BY <4>1, <4>2, Zenon
        <3>4. Live(c, t)' \subseteq Counted(c, q) \cup {q}
            <4> SUFFICES ASSUME NEW p \in Live(c, t)', p # q
                         PROVE  p \in Counted(c, q)
                BY Zenon
            <4>1. p \in Live(c, t)
                BY <1>6, ZenonT(30)
            <4>2. p \in Proposals \ {q} /\ c \in Dims[p]
                BY <4>1, Zenon DEF Live
            <4>3. CASE row[p].delivery \in Accepted /\ InWindow(c, t, row[p].accepted)
                <5>1. row[p].delivery # "none"
                    BY <4>3, Zenon DEF Accepted
                <5> QED
                    BY <3>3, <4>2, <4>3, <5>1, ZenonT(30) DEF Counted
            <4>4. CASE row[p].delivery \in Held /\ ~LeaseEnded(p)
                <5>1. row[p].delivery # "none"
                    BY <4>4, Zenon DEF Held
                <5>2. row[p].created > now - Lease
                    BY <1>2, <4>2, <4>4 DEF LeaseEnded
                <5> QED
                    BY <4>2, <4>4, <5>1, <5>2, Zenon DEF Counted
            <4> QED
                BY <4>1, <4>3, <4>4, Zenon DEF Live
        <3>5. Counted(c, q) \subseteq Known
            BY Zenon DEF Counted, Known
        <3>6. IsFiniteSet(Counted(c, q)) /\ Cardinality(Counted(c, q)) \in Nat
            BY <3>5, FS_Subset, FS_CardinalityType, Zenon DEF CapacityInv
        <3>7. q \notin Counted(c, q)
            BY Zenon DEF Counted
        <3>8. /\ IsFiniteSet(Counted(c, q) \cup {q})
              /\ Cardinality(Counted(c, q) \cup {q}) = Cardinality(Counted(c, q)) + 1
            BY <3>6, <3>7, FS_AddElement, Zenon
        <3>9. Cardinality(Live(c, t)') \in Nat
              /\ Cardinality(Live(c, t)') <= Cardinality(Counted(c, q) \cup {q})
            BY <3>4, <3>8, FS_Subset, FS_CardinalityType, ZenonT(30)
        <3>10. Cardinality(Counted(c, q)) < Limit[c]
            BY <3>1, Zenon DEF Reserve, Capacity
        <3> QED
            BY <1>2, <3>6, <3>8, <3>9, <3>10
    <2> QED
        BY <2>1, <2>2, Zenon
<1> QED
    BY <1>1, <1>3, <1>7, Zenon DEF CapacityInv

WindowInv == LedgerInv /\ (\A p \in Proposals : StampInv(p)) /\ CapacityInv

LEMMA WindowInit == Init => WindowInv
<1> SUFFICES ASSUME Init PROVE WindowInv
    BY Zenon
<1>1. LedgerInv
    BY InitInv, Zenon
<1>2. \A p \in Proposals : row[p].delivery = "none" /\ row[p].created = 0
                           /\ confirmed[p] = NoTime
    BY Zenon DEF Init, NoRow
<1>3. now = 0 /\ "none" \notin Accepted /\ "none" \notin Held
    BY Zenon DEF Init, Accepted, Held
<1>4. \A p \in Proposals : Blank(p)
    BY Zenon DEF Init, Blank, Busy, Idle
<1>5. \A p \in Proposals : StampInv(p)
    BY <1>2, <1>3, <1>4 DEF StampInv
<1>6. Known = {} /\ \A c, t : Live(c, t) = {}
    BY <1>2, <1>3, Zenon DEF Known, Live
<1>7. IsFiniteSet({}) /\ Cardinality({}) = 0
    BY FS_EmptySet, Zenon
<1>8. \A c \in Categories : 0 <= Limit[c]
    BY <1>1, Numerals
<1> QED
    BY <1>1, <1>5, <1>6, <1>7, <1>8, ZenonT(30) DEF WindowInv, CapacityInv

LEMMA WindowStep == WindowInv /\ [Next]_vars => WindowInv'
<1> SUFFICES ASSUME WindowInv, [Next]_vars PROVE WindowInv'
    BY Zenon
<1>1. LedgerInv /\ (\A p \in Proposals : StampInv(p)) /\ CapacityInv
    BY Zenon DEF WindowInv
<1>2. LedgerInv' /\ RowsSafe
    BY <1>1, StepInv, Zenon
<1>3. \A p \in Proposals : StampInv(p)'
    BY <1>1, StampStep, Zenon
<1>4. CapacityInv'
    <2>1. CASE Tick
        BY <1>1, <2>1, TickKeepsCapacity, Zenon
    <2>2. CASE \E j \in Jobs, q \in Proposals : Reserve(j, q)
        BY <1>1, <2>2, ReserveKeepsCapacity, Zenon
    <2>3. CASE ~Tick /\ \A j \in Jobs, q \in Proposals : ~Reserve(j, q)
        <3>1. RowsMove /\ now' = now
            BY <1>1, <2>3, StepMoves, Zenon
        <3> QED
            BY <1>1, <1>2, <3>1, MovesKeepCapacity, ZenonT(30)
    <2> QED
        BY <2>1, <2>2, <2>3, Zenon
<1> QED
    BY <1>2, <1>3, <1>4, ZenonT(30) DEF WindowInv

\* No window, rolling or calendar, is charged beyond its limit by sends that
\* were accepted within their lease, whatever crashes, late receipts and passes
\* of the reconciler lie between a reservation and its charge
\* (reserve_delivery_sync, _held_or_accepted_count).
THEOREM WindowsHold == Spec => []WindowKept
<1>1. WindowInv => WindowKept
    <2> SUFFICES ASSUME WindowInv, NEW c \in Categories, NEW t \in 0 .. now
                 PROVE  Cardinality({p \in Proposals :
                            /\ c \in Dims[p]
                            /\ row[p].delivery \in Accepted
                            /\ InWindow(c, t, row[p].accepted)
                            /\ p \notin late}) <= Limit[c]
        BY Zenon DEF WindowKept
    <2>1. PICK S : S = {p \in Proposals :
                            /\ c \in Dims[p]
                            /\ row[p].delivery \in Accepted
                            /\ InWindow(c, t, row[p].accepted)
                            /\ p \notin late}
        BY Zenon
    <2>2. S \subseteq Live(c, t)
        BY <2>1, Zenon DEF Live
    <2>3. Cardinality(S) <= Limit[c]
        BY <2>2, LiveShrinks, Zenon DEF WindowInv, CapacityInv
    <2> QED
        BY <2>1, <2>3, Zenon
<1> QED
    BY <1>1, WindowInit, WindowStep, PTL DEF Spec

=============================================================================
