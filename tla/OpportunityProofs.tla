-------------------------- MODULE OpportunityProofs ----------------------------
(***************************************************************************)
(* What the scheduler guarantees for any chats, workers and bounds: one    *)
(* handler per chat, an in-process watermark that never runs ahead of the  *)
(* durable one, no source handed out twice, and claims on all work.        *)
(***************************************************************************)
EXTENDS OpportunityScheduler, TLAPS

\* A _PendingChat, whatever its sources are.
Fields == {"sources", "reported", "rev", "epoch", "queued", "old"}
IsRecord(r) == r = [f \in Fields |-> r[f]]

\* A record of c asks for nothing beyond the durable watermark.
Covered(c, r) ==
    \/ r = NoRecord
    \/ IsRecord(r) /\ r.rev \in Nat /\ r.rev <= considered[c]

\* A running handler and its record: the pending one as long as it has no own.
WorkerInv(w) ==
    worker[w] = Idle
    \/ /\ worker[w] = Running(worker[w].chat, worker[w].own)
       /\ worker[w].chat \in Chats
       /\ Covered(worker[w].chat, worker[w].own)
       /\ worker[w].own = NoRecord => HasRecord(worker[w].chat)

Numbers ==
    /\ registered \in [Chats -> Nat]
    /\ considered \in [Chats -> Nat]
    /\ evaluated \in [Chats -> Nat]
    /\ ready \in Seq(Chats)

Maps ==
    /\ pending = [c \in Chats |-> pending[c]]
    /\ worker = [w \in Workers |-> worker[w]]

\* The inductive form of OneHandlerPerChat and WatermarkFollows: a handler that
\* ends raises `evaluated` to the revision of its record, so the records must
\* be covered too.
SchedulerInv ==
    /\ Numbers /\ Maps
    /\ \A c \in Chats : Covered(c, pending[c])
    /\ \A w \in Workers : WorkerInv(w)
    /\ OneHandlerPerChat
    /\ WatermarkFollows

\* Writing a field of a record leaves a record, and its revision unless that is
\* the field.
LEMMA FieldWritten ==
    ASSUME NEW r, IsRecord(r), NEW f \in Fields, NEW x
    PROVE  /\ IsRecord([r EXCEPT ![f] = x])
           /\ f # "rev" => [r EXCEPT ![f] = x].rev = r.rev
           /\ f = "rev" => [r EXCEPT ![f] = x].rev = x
BY DEF IsRecord, Fields

LEMMA RecordIsNotNone ==
    ASSUME NEW r, IsRecord(r)
    PROVE  r # NoRecord
<1>1. DOMAIN r = Fields
    BY DEF IsRecord
<1>2. DOMAIN NoRecord = {"sources"}
    BY DEF NoRecord
<1> QED
    BY <1>1, <1>2 DEF Fields

LEMMA NewRecord ==
    ASSUME NEW e
    PROVE  IsRecord(Record(e)) /\ Record(e).rev = 0
<1>1. Record(e) = [f \in Fields |-> Record(e)[f]]
    BY Zenon DEF Record, Fields
<1> QED
    BY <1>1 DEF IsRecord, Record

LEMMA LargerFacts ==
    ASSUME NEW a \in Nat, NEW b \in Nat
    PROVE  Larger(a, b) \in Nat /\ Larger(a, b) >= a /\ Larger(a, b) >= b
           /\ Larger(a, b) \in {a, b}
BY DEF Larger

LEMMA QueueFacts ==
    ASSUME NEW q \in Seq(Chats), NEW c \in Chats
    PROVE  /\ Append(q, c) \in Seq(Chats)
           /\ q # <<>> => Head(q) \in Chats /\ Tail(q) \in Seq(Chats)
OBVIOUS

LEMMA RunningFacts ==
    ASSUME NEW c, NEW r
    PROVE  Running(c, r) # Idle /\ Running(c, r).chat = c /\ Running(c, r).own = r
BY DEF Running, Idle

LEMMA MergedFacts ==
    ASSUME NEW r, IsRecord(r), NEW S
    PROVE  IsRecord(Merged(r, S)) /\ Merged(r, S).rev = r.rev
<1> DEFINE x == SubSeq(AllRefs(r, S), Cut(r, S) + 1, Len(AllRefs(r, S)))
<1> DEFINE y == r.reported \ Range(SubSeq(AllRefs(r, S), 1, Cut(r, S)))
<1> DEFINE a == [r EXCEPT !.sources = x]
<1>1. IsRecord(a) /\ a.rev = r.rev /\ a.reported = r.reported
    <2> HIDE DEF x
    <2> QED
        BY DEF IsRecord, Fields
<1>2. IsRecord([a EXCEPT !.reported = y]) /\ [a EXCEPT !.reported = y].rev = a.rev
    <2> HIDE DEF a, y
    <2> QED
        BY <1>1 DEF IsRecord, Fields
<1>3. Merged(r, S) = [r EXCEPT !.sources = x, !.reported = y]
    BY Zenon DEF Merged
<1>4. [r EXCEPT !.sources = x, !.reported = y] = [a EXCEPT !.reported = y]
    <2> HIDE DEF x, y
    <2> QED
        BY DEF IsRecord, Fields
<1> QED
    BY <1>1, <1>2, <1>3, <1>4, Zenon

LEMMA ReportedFacts ==
    ASSUME NEW r, IsRecord(r)
    PROVE  IsRecord(Reported(r)) /\ Reported(r).rev = r.rev
<1> DEFINE y == r.reported \cup Range(r.sources)
<1>1. Reported(r) = [r EXCEPT !.reported = y]
    BY Zenon DEF Reported
<1> HIDE DEF y
<1> QED
    BY <1>1 DEF IsRecord, Fields

LEMMA OfferRecordFacts ==
    ASSUME SchedulerInv, NEW c \in Chats
    PROVE  /\ IsRecord(OfferRecord(c))
           /\ OfferRecord(c).rev \in Nat
           /\ OfferRecord(c).rev <= considered[c]
<1>1. considered[c] \in Nat /\ Covered(c, pending[c])
    BY DEF SchedulerInv, Numbers
<1>2. CASE ~HasRecord(c)
    BY <1>1, <1>2, NewRecord DEF OfferRecord
<1>3. CASE HasRecord(c) /\ pending[c].epoch = epoch
    BY <1>1, <1>3 DEF OfferRecord, HasRecord, Covered
<1>4. CASE HasRecord(c) /\ pending[c].epoch # epoch
    <2> DEFINE r == pending[c]
    <2>1. IsRecord(r)
        BY <1>1, <1>4 DEF HasRecord, Covered
    <2>2. OfferRecord(c) = [r EXCEPT !.sources = <<>>, !.rev = 0, !.epoch = epoch,
                                     !.old = FALSE]
        BY <1>4 DEF OfferRecord
    <2> DEFINE s == [r EXCEPT !.sources = <<>>, !.rev = 0, !.epoch = epoch, !.old = FALSE]
    <2>3. s = [f \in Fields |-> CASE f = "sources" -> <<>>
                                 [] f = "rev" -> 0
                                 [] f = "epoch" -> epoch
                                 [] f = "old" -> FALSE
                                 [] OTHER -> r[f]]
        <3> HIDE DEF r
        <3> QED
            BY <2>1, Zenon DEF IsRecord, Fields
    <2>4. IsRecord(s) /\ s.rev = 0
        BY <2>3, Zenon DEF IsRecord, Fields
    <2> QED
        BY <1>1, <2>2, <2>4
<1> QED
    BY <1>2, <1>3, <1>4

\* A step that may raise watermarks and rewrite records, and leaves the workers.
LEMMA WorkersStay ==
    ASSUME SchedulerInv, Numbers', pending' = [c \in Chats |-> pending'[c]],
           worker' = worker,
           \A c \in Chats :
               /\ considered[c] <= considered'[c]
               /\ evaluated'[c] <= considered'[c]
               /\ pending'[c] = pending[c] \/ Covered(c, pending[c])'
               /\ HasRecord(c) /\ c \in Active => HasRecord(c)'
    PROVE  SchedulerInv'
<1>1. \A c \in Chats : considered[c] \in Nat /\ considered'[c] \in Nat
    BY DEF SchedulerInv, Numbers
<1>2. \A c \in Chats : \A r : Covered(c, r) => (r = NoRecord \/
            (IsRecord(r) /\ r.rev \in Nat /\ r.rev <= considered'[c]))
    BY <1>1 DEF Covered
<1>3. \A c \in Chats : Covered(c, pending[c])'
    BY <1>2 DEF SchedulerInv, Covered
<1>4. ASSUME NEW w \in Workers
      PROVE  WorkerInv(w)'
    <2>1. WorkerInv(w) /\ worker'[w] = worker[w]
        BY DEF SchedulerInv
    <2>2. CASE worker[w] = Idle
        BY <2>1, <2>2, Zenon DEF WorkerInv
    <2>3. CASE worker[w] # Idle
        <3> DEFINE c == worker[w].chat
        <3>1. c \in Chats /\ c \in Active
            BY <2>1, <2>3 DEF WorkerInv, Active
        <3>2. worker[w].own = NoRecord \/
                (IsRecord(worker[w].own) /\ worker[w].own.rev \in Nat
                 /\ worker[w].own.rev <= considered'[c])
            BY <1>2, <2>1, <2>3, <3>1 DEF WorkerInv
        <3>3. worker[w].own = NoRecord => HasRecord(c)'
            BY <2>1, <2>3, <3>1 DEF WorkerInv, HasRecord
        <3> QED
            BY <2>1, <2>3, <3>1, <3>2, <3>3, Zenon DEF WorkerInv, Covered, HasRecord
    <2> QED
        BY <2>2, <2>3
<1>5. OneHandlerPerChat' /\ WatermarkFollows'
    BY DEF SchedulerInv, OneHandlerPerChat, WatermarkFollows
<1>6. Maps'
    BY DEF SchedulerInv, Maps
<1> QED
    BY <1>3, <1>4, <1>5, <1>6 DEF SchedulerInv

\* What offer_source does to the watermarks and the record of its chat.
OfferEffect(c) ==
    /\ considered' \in [Chats -> Nat] /\ evaluated' \in [Chats -> Nat]
    /\ ready' \in Seq(Chats)
    /\ pending' = [d \in Chats |-> pending'[d]]
    /\ \A d \in Chats :
           /\ considered[d] <= considered'[d]
           /\ evaluated'[d] <= considered'[d]
           /\ pending'[d] = pending[d] \/ Covered(d, pending[d])'
           /\ HasRecord(d) /\ d \in Active => HasRecord(d)'

LEMMA OfferFacts ==
    ASSUME SchedulerInv, NEW c \in Chats, NEW S, NEW rev \in Nat,
           OfferSource(c, S, rev)
    PROVE  OfferEffect(c)
<1>1. /\ considered \in [Chats -> Nat] /\ evaluated \in [Chats -> Nat]
      /\ ready \in Seq(Chats) /\ pending = [d \in Chats |-> pending[d]]
      /\ \A d \in Chats : evaluated[d] <= considered[d]
    BY DEF SchedulerInv, Numbers, Maps, WatermarkFollows
<1>2. CASE UNCHANGED <<claims, considered, pending, ready, hydrated, evaluated>>
    BY <1>1, <1>2 DEF OfferEffect, HasRecord
<1>3. CASE Hydrate(c) /\ AcceptOrRelease(c, S, rev)
    <2> DEFINE r == OfferRecord(c)
    <2>1. /\ evaluated' \in [Chats -> Nat]
          /\ \A d \in Chats : evaluated'[d] <= considered[d]
        BY <1>1, <1>3, LargerFacts DEF Hydrate
    <2>2. CASE UNCHANGED <<considered, pending, ready>>
        BY <1>1, <2>1, <2>2 DEF OfferEffect, HasRecord
    <2>3. CASE /\ UNCHANGED <<considered, ready>>
               /\ c \notin Active /\ pending' = [pending EXCEPT ![c] = NoRecord]
        <3>1. pending'[c] = NoRecord /\ \A d \in Chats \ {c} : pending'[d] = pending[d]
            BY <1>1, <2>3
        <3>2. pending' = [d \in Chats |-> pending'[d]]
            BY <1>1, <2>3, Zenon
        <3> QED
            BY <1>1, <2>1, <2>3, <3>1, <3>2 DEF OfferEffect, Covered, HasRecord
    <2>4. CASE /\ considered' = [considered EXCEPT ![c] = Larger(@, rev)]
               /\ LET merged == Merged(r, S)
                  IN Enqueued(c, [merged EXCEPT !.rev = Larger(@, rev)])
        <3> DEFINE m == Merged(r, S)
        <3> DEFINE n == [m EXCEPT !.rev = Larger(m.rev, rev)]
        <3> DEFINE q == [n EXCEPT !.queued = TRUE]
        <3>1. /\ considered' \in [Chats -> Nat]
              /\ considered'[c] = Larger(considered[c], rev)
              /\ \A d \in Chats : considered[d] <= considered'[d]
            BY <1>1, <2>4, LargerFacts
        <3>2. IsRecord(m) /\ m.rev \in Nat /\ m.rev <= considered[c]
            BY OfferRecordFacts, MergedFacts
        <3>3. IsRecord(n) /\ n.rev = Larger(m.rev, rev)
            <4> HIDE DEF m
            <4> QED
                BY <3>2 DEF IsRecord, Fields
        <3>4. IsRecord(q) /\ q.rev = n.rev
            <4> HIDE DEF n
            <4> QED
                BY <3>3, Zenon DEF IsRecord, Fields
        <3>5. n.rev \in Nat /\ n.rev <= considered'[c]
            <4>1. m.rev \in Nat /\ considered[c] \in Nat /\ m.rev <= considered[c]
                BY <1>1, <3>2
            <4> HIDE DEF m
            <4> QED
                BY <3>1, <3>3, <4>1 DEF Larger
        <3>6. Enqueued(c, n)
            BY <2>4, Zenon
        <3>7. /\ pending' = [pending EXCEPT ![c] = q]
              /\ ready' \in {ready, Append(ready, c)}
            BY <3>6, Zenon DEF Enqueued
        <3> HIDE DEF q, n, m
        <3>8. /\ pending'[c] = q /\ \A d \in Chats \ {c} : pending'[d] = pending[d]
              /\ pending' = [d \in Chats |-> pending'[d]]
            BY <1>1, <3>7, Zenon
        <3>9. ready' \in Seq(Chats)
            BY <1>1, <3>7, QueueFacts, Zenon
        <3>10. Covered(c, pending[c])' /\ pending'[c] # NoRecord
            BY <3>4, <3>5, <3>8, RecordIsNotNone DEF Covered
        <3>11. \A d \in Chats : evaluated'[d] <= considered'[d]
            BY <1>1, <2>1, <3>1
        <3> QED
            BY <2>1, <3>1, <3>8, <3>9, <3>10, <3>11 DEF OfferEffect, HasRecord
    <2> QED
        BY <1>3, <2>2, <2>3, <2>4 DEF AcceptOrRelease
<1> QED
    BY <1>2, <1>3 DEF OfferSource

\* handle_event and the triggers.
LEMMA OfferSteps ==
    ASSUME SchedulerInv, NEW c \in Chats,
           Inbound(c) \/ (\E s \in Sources : Redelivered(c, s)) \/ Trigger(c)
    PROVE  SchedulerInv'
<1>1. registered \in [Chats -> Nat] /\ registered[c] \in Nat
    BY DEF SchedulerInv, Numbers
<1>2. \E rev \in Nat : \E S : OfferSource(c, S, rev)
    <2>1. CASE Inbound(c)
        <3>1. registered'[c] \in Nat
            BY <1>1, <2>1 DEF Inbound
        <3> QED
            BY <2>1, <3>1 DEF Inbound
    <2>2. CASE \E s \in Sources : Redelivered(c, s)
        BY <1>1, <2>2 DEF Redelivered
    <2>3. CASE Trigger(c)
        BY <1>1, <2>3 DEF Trigger
    <2> QED
        BY <2>1, <2>2, <2>3
<1>3. OfferEffect(c)
    BY <1>2, OfferFacts
<1>4. registered' \in [Chats -> Nat] /\ worker' = worker
    <2>1. CASE Inbound(c)
        <3>1. registered' = [registered EXCEPT ![c] = @ + 1] /\ worker' = worker
            BY <2>1, Zenon DEF Inbound
        <3> QED
            BY <1>1, <3>1
    <2>2. CASE \E s \in Sources : Redelivered(c, s)
        BY <1>1, <2>2, Zenon DEF Redelivered
    <2>3. CASE Trigger(c)
        BY <1>1, <2>3, Zenon DEF Trigger
    <2> QED
        BY <2>1, <2>2, <2>3
<1>5. Numbers'
    BY <1>3, <1>4 DEF Numbers, OfferEffect
<1> QED
    BY <1>3, <1>4, <1>5, WorkersStay DEF OfferEffect

\* The epoch, the age of a record and the end of a direct request.
LEMMA SmallSteps ==
    ASSUME SchedulerInv,
           \/ AdvanceEpoch \/ UNCHANGED vars
           \/ \E c \in Chats : Age(c) \/ DirectFinished(c)
    PROVE  SchedulerInv'
<1>1. UNCHANGED <<registered, considered, evaluated, ready, worker>>
    BY DEF AdvanceEpoch, Age, DirectFinished, vars, ledger
<1>2. Numbers' /\ \A c \in Chats : /\ considered[c] <= considered'[c]
                                    /\ evaluated'[c] <= considered'[c]
    BY <1>1 DEF SchedulerInv, Numbers, WatermarkFollows
<1>3. pending = [c \in Chats |-> pending[c]]
    BY DEF SchedulerInv, Maps
<1>4. CASE pending' = pending
    BY <1>1, <1>2, <1>3, <1>4, WorkersStay, Zenon DEF HasRecord
<1>5. ASSUME NEW c \in Chats, Age(c)
      PROVE  SchedulerInv'
    <2> DEFINE r == [pending[c] EXCEPT !.old = TRUE]
    <2>1. pending' = [pending EXCEPT ![c] = r]
        BY <1>5 DEF Age
    <2>2. IsRecord(pending[c]) /\ pending[c].rev \in Nat
          /\ pending[c].rev <= considered[c]
        BY <1>5 DEF SchedulerInv, Covered, Age, HasRecord
    <2>3. IsRecord(r) /\ r.rev = pending[c].rev
        BY <2>2, Zenon DEF IsRecord, Fields
    <2> HIDE DEF r
    <2>4. /\ pending'[c] = r /\ \A d \in Chats \ {c} : pending'[d] = pending[d]
          /\ pending' = [d \in Chats |-> pending'[d]]
        BY <1>3, <2>1
    <2>5. Covered(c, pending[c])' /\ pending'[c] # NoRecord
        BY <1>1, <2>2, <2>3, <2>4, RecordIsNotNone, Zenon DEF Covered
    <2> QED
        BY <1>1, <1>2, <2>4, <2>5, WorkersStay, Zenon DEF HasRecord
<1> QED
    BY <1>4, <1>5 DEF AdvanceEpoch, DirectFinished, vars

\* A worker takes the next key: it starts a handler only where none is active.
LEMMA PopStep ==
    ASSUME SchedulerInv, NEW w \in Workers, Pop(w)
    PROVE  SchedulerInv'
<1> DEFINE c == Head(ready)
<1> DEFINE r == [pending[c] EXCEPT !.queued = FALSE]
<1>1. /\ Numbers /\ c \in Chats /\ ready' \in Seq(Chats) /\ worker[w] = Idle
      /\ UNCHANGED <<registered, considered>>
      /\ \A d \in Chats : considered[d] \in Nat /\ evaluated[d] \in Nat
      /\ \A d \in Chats : evaluated[d] <= considered[d]
      /\ pending = [d \in Chats |-> pending[d]]
      /\ worker = [v \in Workers |-> worker[v]]
    BY QueueFacts DEF SchedulerInv, Numbers, Maps, Pop, ledger, WatermarkFollows
<1>2. HasRecord(c) => /\ IsRecord(pending[c]) /\ pending[c].rev \in Nat
                      /\ pending[c].rev <= considered[c]
                      /\ IsRecord(r) /\ r.rev = pending[c].rev
    <2>1. HasRecord(c) => /\ IsRecord(pending[c]) /\ pending[c].rev \in Nat
                          /\ pending[c].rev <= considered[c]
        BY <1>1 DEF SchedulerInv, Covered, HasRecord
    <2>2. IsRecord(pending[c]) => IsRecord(r) /\ r.rev = pending[c].rev
        BY Zenon DEF IsRecord, Fields
    <2> QED
        BY <2>1, <2>2
<1>3. PICK k \in Chats : k = c
    BY <1>1
<1>4. PICK s : s = r
    BY Zenon
<1>5. CASE UNCHANGED <<pending, worker, evaluated, handed>>
    <2>1. Numbers'
        BY <1>1, <1>5, Zenon DEF Numbers
    <2> QED
        BY <1>1, <1>5, <2>1, WorkersStay DEF HasRecord
<1>6. CASE /\ HasRecord(c) /\ pending' = [pending EXCEPT ![c] = r]
           /\ UNCHANGED <<worker, evaluated, handed>>
    <2>1. Numbers'
        BY <1>1, <1>6, Zenon DEF Numbers
    <2>2. pending' = [pending EXCEPT ![k] = s] /\ IsRecord(s) /\ s.rev \in Nat
          /\ s.rev <= considered[k]
        BY <1>2, <1>3, <1>4, <1>6
    <2>3. /\ pending'[k] = s /\ \A d \in Chats \ {k} : pending'[d] = pending[d]
          /\ pending' = [d \in Chats |-> pending'[d]]
        BY <1>1, <2>2, Zenon
    <2>4. Covered(k, pending[k])' /\ pending'[k] # NoRecord
        BY <1>1, <2>2, <2>3, RecordIsNotNone, Zenon DEF Covered
    <2>5. \A d \in Chats :
              /\ considered[d] <= considered'[d] /\ evaluated'[d] <= considered'[d]
              /\ pending'[d] = pending[d] \/ Covered(d, pending[d])'
              /\ HasRecord(d) /\ d \in Active => HasRecord(d)'
        <3>1. UNCHANGED <<worker, evaluated>>
            BY <1>6
        <3> HIDE DEF r, c
        <3> TAKE d \in Chats
        <3>2. considered[d] <= considered'[d] /\ evaluated'[d] <= considered'[d]
            BY <1>1, <3>1
        <3>3. pending'[d] = pending[d] \/ Covered(d, pending[d])'
            BY <2>3, <2>4
        <3>4. HasRecord(d) => HasRecord(d)'
            BY <2>3, <2>4, Zenon DEF HasRecord
        <3> QED
            BY <3>2, <3>3, <3>4
    <2> QED
        BY <1>6, <2>1, <2>3, <2>5, WorkersStay, Zenon
<1>7. CASE /\ HasRecord(c) /\ c \notin Active
           /\ evaluated' = [evaluated EXCEPT ![c] = Larger(@, r.rev)]
           /\ pending' = [pending EXCEPT ![c] = NoRecord]
           /\ UNCHANGED <<worker, handed>>
    <2>1. /\ evaluated' \in [Chats -> Nat]
          /\ \A d \in Chats : evaluated'[d] <= considered[d]
        <3>1. r.rev \in Nat /\ r.rev <= considered[c]
            BY <1>2, <1>7
        <3> HIDE DEF r
        <3>2. Larger(evaluated[c], r.rev) \in Nat
              /\ Larger(evaluated[c], r.rev) <= considered[c]
            BY <1>1, <3>1, LargerFacts, Zenon
        <3> QED
            BY <1>1, <1>7, <3>2, Zenon DEF Numbers
    <2>2. Numbers'
        BY <1>1, <2>1, Zenon DEF Numbers
    <2>3. /\ pending'[k] = NoRecord /\ \A d \in Chats \ {k} : pending'[d] = pending[d]
          /\ pending' = [d \in Chats |-> pending'[d]]
        BY <1>1, <1>3, <1>7, Zenon
    <2>4. ASSUME NEW d \in Chats
          PROVE  /\ considered[d] <= considered'[d] /\ evaluated'[d] <= considered'[d]
                 /\ pending'[d] = pending[d] \/ Covered(d, pending[d])'
                 /\ HasRecord(d) /\ d \in Active => HasRecord(d)'
        BY <1>1, <1>3, <1>7, <2>1, <2>3 DEF HasRecord, Covered
    <2> QED
        BY <1>7, <2>2, <2>3, <2>4, WorkersStay
<1>8. CASE /\ HasRecord(c) /\ c \notin Active
           /\ pending' = [pending EXCEPT ![c] = Reported(r)]
           /\ worker' = [worker EXCEPT ![w] = Running(c, NoRecord)]
           /\ UNCHANGED evaluated
    <2>1. PICK t : t = Reported(r)
        OBVIOUS
    <2>2. IsRecord(t) /\ t.rev \in Nat /\ t.rev <= considered[k] /\ t # NoRecord
        BY <1>2, <1>3, <1>8, <2>1, ReportedFacts, RecordIsNotNone, Zenon
    <2>3. /\ pending'[k] = t /\ \A d \in Chats \ {k} : pending'[d] = pending[d]
          /\ pending' = [d \in Chats |-> pending'[d]]
        BY <1>1, <1>3, <1>8, <2>1, Zenon
    <2>4. \A d \in Chats : Covered(d, pending[d])' /\ (HasRecord(d) => HasRecord(d)')
        BY <1>1, <2>2, <2>3 DEF Covered, HasRecord, SchedulerInv
    <2>5. /\ worker'[w] = Running(k, NoRecord)
          /\ \A v \in Workers \ {w} : worker'[v] = worker[v]
          /\ worker' = [v \in Workers |-> worker'[v]]
        BY <1>1, <1>3, <1>8, Zenon
    <2>6. ASSUME NEW v \in Workers
          PROVE  WorkerInv(v)'
        <3>1. CASE v = w
            BY <2>2, <2>3, <2>5, <3>1, RunningFacts DEF WorkerInv, HasRecord, Covered
        <3>2. CASE v # w
            <4>1. WorkerInv(v) /\ worker'[v] = worker[v]
                BY <2>5, <3>2 DEF SchedulerInv
            <4> QED
                BY <1>1, <2>4, <4>1 DEF WorkerInv, Covered
        <3> QED
            BY <3>1, <3>2, Zenon
    <2>7. \A v \in Workers : worker[v] # Idle => worker[v].chat # k
        BY <1>3, <1>8 DEF Active
    <2>8. OneHandlerPerChat'
        <3> SUFFICES ASSUME NEW u \in Workers, NEW v \in Workers, u # v,
                            worker'[u] # Idle, worker'[v] # Idle
                     PROVE  worker'[u].chat # worker'[v].chat
            BY DEF OneHandlerPerChat
        <3>1. CASE u # w /\ v # w
            BY <2>5, <3>1 DEF SchedulerInv, OneHandlerPerChat
        <3>2. CASE v = w
            BY <2>5, <2>7, <3>2, RunningFacts
        <3>3. CASE u = w
            BY <2>5, <2>7, <3>3, RunningFacts
        <3> QED
            BY <3>1, <3>2, <3>3
    <2>9. Numbers' /\ Maps' /\ WatermarkFollows'
        BY <1>1, <1>8, <2>3, <2>5, Zenon DEF Numbers, Maps, WatermarkFollows
    <2> QED
        BY <2>4, <2>6, <2>8, <2>9 DEF SchedulerInv
<1> QED
    BY <1>5, <1>6, <1>7, <1>8, Zenon DEF Pop

\* The finally block of _worker.
LEMMA HandlerEndsStep ==
    ASSUME SchedulerInv, NEW w \in Workers, HandlerEnds(w)
    PROVE  SchedulerInv'
<1>1. /\ Numbers /\ UNCHANGED <<registered, considered>>
      /\ \A d \in Chats : considered[d] \in Nat /\ evaluated[d] \in Nat
      /\ \A d \in Chats : evaluated[d] <= considered[d]
      /\ pending = [d \in Chats |-> pending[d]]
      /\ worker = [v \in Workers |-> worker[v]]
    BY Zenon DEF SchedulerInv, Numbers, Maps, HandlerEnds, ledger, WatermarkFollows
<1>2. /\ worker[w] # Idle /\ worker[w].chat \in Chats
      /\ Covered(worker[w].chat, worker[w].own)
      /\ worker[w].own = NoRecord => HasRecord(worker[w].chat)
    BY DEF SchedulerInv, WorkerInv, HandlerEnds
<1>3. PICK c \in Chats : c = worker[w].chat
    BY <1>2
<1>4. PICK own : own = worker[w].own
    OBVIOUS
<1>5. /\ worker'[w] = Idle /\ \A v \in Workers \ {w} : worker'[v] = worker[v]
      /\ worker' = [v \in Workers |-> worker'[v]]
    BY <1>1, Zenon DEF HandlerEnds
<1>6. PICK n \in Nat : /\ n <= considered[c]
                       /\ evaluated' = [evaluated EXCEPT ![c] = Larger(@, n)]
    <2>1. CASE own = NoRecord
        <3>1. pending[c].rev \in Nat /\ pending[c].rev <= considered[c]
            BY <1>2, <1>3, <1>4, <2>1 DEF SchedulerInv, Covered, HasRecord
        <3> QED
            BY <1>3, <1>4, <2>1, <3>1, Zenon DEF HandlerEnds
    <2>2. CASE own # NoRecord
        <3>1. own.rev \in Nat /\ own.rev <= considered[c]
            BY <1>2, <1>3, <1>4, <2>2, Zenon DEF Covered
        <3> QED
            BY <1>3, <1>4, <2>2, <3>1, Zenon DEF HandlerEnds
    <2> QED
        BY <2>1, <2>2
<1>7. /\ evaluated' \in [Chats -> Nat]
      /\ \A d \in Chats : evaluated'[d] <= considered'[d]
    <2>1. Larger(evaluated[c], n) \in Nat /\ Larger(evaluated[c], n) <= considered[c]
        BY <1>1, <1>6, LargerFacts, Zenon
    <2> QED
        BY <1>1, <1>6, <2>1, Zenon DEF Numbers
<1>8. /\ ready' \in Seq(Chats)
      /\ pending' = [d \in Chats |-> pending'[d]]
      /\ \A d \in Chats \ {c} : pending'[d] = pending[d]
      /\ pending'[c] = pending[c] \/ own = NoRecord
      /\ Covered(c, pending'[c])
    <2>1. CASE own # NoRecord
        <3>1. UNCHANGED <<pending, ready>>
            BY <1>4, <2>1 DEF HandlerEnds
        <3> QED
            BY <1>1, <3>1, Zenon DEF SchedulerInv, Numbers
    <2>2. CASE own = NoRecord
        <3> DEFINE q == [pending[c] EXCEPT !.queued = TRUE]
        <3>1. IsRecord(pending[c]) /\ pending[c].rev \in Nat
              /\ pending[c].rev <= considered[c]
            BY <1>2, <1>3, <1>4, <2>2 DEF SchedulerInv, Covered, HasRecord
        <3>2. IsRecord(q) /\ q.rev = pending[c].rev
            BY <3>1, Zenon DEF IsRecord, Fields
        <3>3. Covered(c, q) /\ Covered(c, NoRecord)
            BY <3>1, <3>2, Zenon DEF Covered
        <3>4. Retire(c)
            BY <1>3, <1>4, <2>2 DEF HandlerEnds
        <3>5. \E x \in {q, NoRecord} : pending' = [pending EXCEPT ![c] = x]
            BY <3>4, Zenon DEF Retire, Enqueued
        <3>6. ready' = ready \/ ready' = Append(ready, c)
            BY <3>4, Zenon DEF Retire, Enqueued
        <3> HIDE DEF q
        <3>7. ready' \in Seq(Chats)
            BY <1>1, <3>6, QueueFacts, Zenon DEF Numbers
        <3> QED
            BY <1>1, <2>2, <3>3, <3>5, <3>7, Zenon
    <2> QED
        BY <2>1, <2>2, Zenon
<1>9. \A d \in Chats : Covered(d, pending[d])'
    BY <1>1, <1>8 DEF SchedulerInv, Covered
<1>10. ASSUME NEW v \in Workers
       PROVE  WorkerInv(v)'
    <2>1. CASE v = w \/ worker[v] = Idle
        BY <1>5, <2>1, Zenon DEF WorkerInv
    <2>2. CASE v # w /\ worker[v] # Idle
        <3>1. worker'[v] = worker[v] /\ WorkerInv(v) /\ worker[v].chat # c
            BY <1>2, <1>3, <1>5, <2>2 DEF SchedulerInv, OneHandlerPerChat
        <3> QED
            BY <1>1, <1>8, <2>2, <3>1, Zenon DEF WorkerInv, Covered, HasRecord
    <2> QED
        BY <2>1, <2>2
<1>11. OneHandlerPerChat'
    BY <1>5 DEF SchedulerInv, OneHandlerPerChat
<1>12. Numbers' /\ Maps' /\ WatermarkFollows'
    BY <1>1, <1>5, <1>7, <1>8, Zenon DEF Numbers, Maps, WatermarkFollows
<1> QED
    BY <1>9, <1>10, <1>11, <1>12 DEF SchedulerInv

\* _fence_direct: a running handler keeps the record that cancel_chat removes.
LEMMA CancelSteps ==
    ASSUME SchedulerInv, NEW c \in Chats, DirectRequest(c) \/ DirectRedelivered(c)
    PROVE  SchedulerInv'
<1>1. /\ CancelChat(c) /\ UNCHANGED <<registered, considered, evaluated, ready>>
    BY DEF DirectRequest, DirectRedelivered, ledger
<1>2. /\ pending = [d \in Chats |-> pending[d]]
      /\ worker = [v \in Workers |-> worker[v]]
    BY DEF SchedulerInv, Maps
<1>3. /\ pending'[c] = NoRecord /\ \A d \in Chats \ {c} : pending'[d] = pending[d]
      /\ pending' = [d \in Chats |-> pending'[d]]
    BY <1>1, <1>2 DEF CancelChat
<1>4. PICK r : r = pending[c]
    OBVIOUS
<1>5. /\ worker' = [v \in Workers |-> worker'[v]]
      /\ \A v \in Workers :
             worker'[v] = IF r # NoRecord /\ worker[v] = Running(c, NoRecord)
                          THEN Running(c, r) ELSE worker[v]
    BY <1>1, <1>4 DEF CancelChat, HasRecord
<1>6. \A d \in Chats : Covered(d, pending[d])'
    BY <1>1, <1>3 DEF SchedulerInv, Covered
<1>7. \A v \in Workers : /\ worker'[v] = Idle <=> worker[v] = Idle
                         /\ worker'[v].chat = worker[v].chat
    BY <1>5, RunningFacts
<1>8. ASSUME NEW v \in Workers
      PROVE  WorkerInv(v)'
    <2>1. WorkerInv(v)
        BY DEF SchedulerInv
    <2>2. CASE worker[v] = Idle
        BY <1>7, <2>2, Zenon DEF WorkerInv
    <2>3. CASE worker[v] # Idle /\ worker[v] = Running(c, NoRecord)
        <3>1. r # NoRecord /\ Covered(c, r)
            BY <1>4, <2>1, <2>3, RunningFacts DEF WorkerInv, HasRecord, SchedulerInv
        <3>2. worker'[v] = Running(c, r)
            BY <1>5, <2>3, <3>1, Zenon
        <3> QED
            BY <1>1, <3>1, <3>2, RunningFacts DEF WorkerInv, Covered
    <2>4. CASE worker[v] # Idle /\ worker[v] # Running(c, NoRecord)
        <3>1. worker'[v] = worker[v]
            BY <1>5, <2>4
        <3>2. worker[v].own = NoRecord => worker[v].chat # c
            BY <2>1, <2>4, Zenon DEF WorkerInv
        <3>3. worker[v].own = NoRecord => HasRecord(worker[v].chat)'
            BY <1>3, <2>1, <2>4, <3>1, <3>2, Zenon DEF WorkerInv, HasRecord
        <3> QED
            BY <1>1, <2>1, <2>4, <3>1, <3>3, Zenon DEF WorkerInv, Covered, HasRecord
    <2> QED
        BY <2>2, <2>3, <2>4
<1>9. OneHandlerPerChat'
    BY <1>7, Zenon DEF SchedulerInv, OneHandlerPerChat
<1>10. Numbers' /\ Maps' /\ WatermarkFollows'
    BY <1>1, <1>3, <1>5, Zenon DEF SchedulerInv, Numbers, Maps, WatermarkFollows
<1> QED
    BY <1>6, <1>8, <1>9, <1>10, Zenon DEF SchedulerInv

\* The scheduler starts empty, the watermark is kept.
LEMMA RestartStep ==
    ASSUME SchedulerInv, Restart
    PROVE  SchedulerInv'
<1>1. /\ UNCHANGED <<registered, considered>>
      /\ pending' = [c \in Chats |-> NoRecord] /\ ready' = <<>>
      /\ evaluated' = [c \in Chats |-> 0] /\ worker' = [w \in Workers |-> Idle]
    BY DEF Restart
<1>2. Numbers' /\ Maps'
    BY <1>1 DEF SchedulerInv, Numbers, Maps
<1>3. WatermarkFollows'
    BY <1>1 DEF SchedulerInv, Numbers, WatermarkFollows
<1> QED
    BY <1>1, <1>2, <1>3, Zenon DEF SchedulerInv, Covered, WorkerInv, OneHandlerPerChat

-----------------------------------------------------------------------------

LEMMA SchedulerInit == Init => SchedulerInv
<1> SUFFICES ASSUME Init PROVE SchedulerInv
    OBVIOUS
<1>1. Numbers /\ Maps /\ WatermarkFollows
    BY DEF Init, Numbers, Maps, WatermarkFollows
<1> QED
    BY <1>1 DEF Init, SchedulerInv, Covered, WorkerInv, OneHandlerPerChat

LEMMA SchedulerStep == SchedulerInv /\ [Next]_vars => SchedulerInv'
<1> SUFFICES ASSUME SchedulerInv, [Next]_vars PROVE SchedulerInv'
    OBVIOUS
<1>1. ASSUME NEW c \in Chats, Step(c)
      PROVE  SchedulerInv'
    BY <1>1, OfferSteps, SmallSteps, CancelSteps, Zenon DEF Step
<1>2. ASSUME NEW w \in Workers, Pop(w) \/ HandlerEnds(w)
      PROVE  SchedulerInv'
    BY <1>2, PopStep, HandlerEndsStep
<1>3. CASE AdvanceEpoch \/ UNCHANGED vars
    BY <1>3, SmallSteps
<1>4. CASE Restart
    BY <1>4, RestartStep
<1> QED
    BY <1>1, <1>2, <1>3, <1>4 DEF Next

\* No two tasks of the pool evaluate one chat at the same time, for any number
\* of chats, tasks, direct requests and restarts (_active in _worker).
THEOREM HandlersAreExclusive == Spec => []OneHandlerPerChat
<1>1. SchedulerInv => OneHandlerPerChat
    BY DEF SchedulerInv
<1> QED
    BY <1>1, SchedulerInit, SchedulerStep, PTL DEF Spec

\* What the process takes for evaluated, the ledger has as considered: no
\* sequence of offers, expiries, cancelled handlers and restarts makes the
\* scheduler reject a source that was never accepted as a duplicate.
THEOREM WatermarkIsDurable == Spec => []WatermarkFollows
<1>1. SchedulerInv => WatermarkFollows
    BY DEF SchedulerInv
<1> QED
    BY <1>1, SchedulerInit, SchedulerStep, PTL DEF Spec

-----------------------------------------------------------------------------
\* The queue.  What a step does to the records and to the queue concerns one
\* chat.  It
\* takes the record away, lets it age, pops its key, puts it back, or merges an
\* offer into it.
Taken(c) == pending'[c] = NoRecord /\ ready' = ready

Aged(c) ==
    /\ HasRecord(c) /\ ready' = ready
    /\ pending'[c].queued = pending[c].queued
    /\ pending'[c].sources = pending[c].sources

Popped(c) ==
    /\ ready # <<>> /\ c = Head(ready) /\ ready' = Tail(ready)
    /\ \/ pending'[c] = NoRecord
       \/ /\ HasRecord(c) /\ pending'[c].queued = FALSE
          /\ pending'[c].sources = pending[c].sources

Appended(c) ==
    ready' = IF HasRecord(c) /\ pending[c].queued THEN ready ELSE Append(ready, c)

PutBack(c) ==
    /\ HasRecord(c) /\ Appended(c)
    /\ pending'[c].sources = pending[c].sources

Offered(c) ==
    /\ HasRecord(c) \/ ~(Cardinality({d \in Chats : HasRecord(d)}) >= MaxPending)
    /\ Appended(c)
    /\ \E S \in SUBSET (1..registered'[c]) :
          pending'[c].sources = Merged(OfferRecord(c), S).sources

OneRecordMoves ==
    \E c \in Chats :
        /\ \A d \in Chats \ {c} : pending'[d] = pending[d]
        /\ Taken(c) \/ Aged(c) \/ Popped(c) \/ PutBack(c) \/ Offered(c)

\* Writing the fields of a record.
LEMMA FieldsKept ==
    ASSUME NEW r, IsRecord(r), NEW f \in Fields, NEW g \in Fields, f # g, NEW x
    PROVE  IsRecord([r EXCEPT ![f] = x]) /\ [r EXCEPT ![f] = x][g] = r[g]
BY DEF IsRecord

\* _merge_sources keeps the mark.
LEMMA MergedQueued ==
    ASSUME NEW r, IsRecord(r), NEW S
    PROVE  Merged(r, S).queued = r.queued
<1> DEFINE x == SubSeq(AllRefs(r, S), Cut(r, S) + 1, Len(AllRefs(r, S)))
           y == r.reported \ Range(SubSeq(AllRefs(r, S), 1, Cut(r, S)))
<1>1. Merged(r, S) = [r EXCEPT !.sources = x, !.reported = y]
    BY Zenon DEF Merged
<1> HIDE DEF x, y
<1> QED
    BY <1>1, Zenon DEF IsRecord, Fields

\* A record that an offer starts from is queued only if it is the pending one.
LEMMA OfferQueued ==
    ASSUME SchedulerInv, NEW c \in Chats, HasRecord(c)
    PROVE  OfferRecord(c).queued = pending[c].queued
<1>2. CASE HasRecord(c) /\ pending[c].epoch = epoch
    BY <1>2 DEF OfferRecord
<1>3. CASE HasRecord(c) /\ pending[c].epoch # epoch
    <2>1. PICK r : r = pending[c]
        OBVIOUS
    <2>2. IsRecord(r)
        BY <1>3, <2>1 DEF SchedulerInv, Covered, HasRecord
    <2>3. OfferRecord(c) = [r EXCEPT !.sources = <<>>, !.rev = 0, !.epoch = epoch,
                                     !.old = FALSE]
        BY <1>3, <2>1 DEF OfferRecord
    <2>4. OfferRecord(c).queued = r.queued
        BY <2>2, <2>3 DEF IsRecord, Fields
    <2> QED
        BY <1>3, <2>1, <2>4
<1> QED
    BY <1>2, <1>3

\* offer_source.
LEMMA OfferMoves ==
    ASSUME SchedulerInv, NEW c \in Chats, NEW S \in SUBSET (1..registered'[c]),
           NEW rev, OfferSource(c, S, rev)
    PROVE  UNCHANGED <<pending, ready>> \/ OneRecordMoves
<1>0. pending = [d \in Chats |-> pending[d]]
    BY DEF SchedulerInv, Maps
<1> DEFINE r == OfferRecord(c)
           m == Merged(r, S)
           n == [m EXCEPT !.rev = Larger(m.rev, rev)]
           q == [n EXCEPT !.queued = TRUE]
<1>1. CASE UNCHANGED <<pending, ready>>
    BY <1>1
<1>2. CASE ready' = ready /\ pending' = [pending EXCEPT ![c] = NoRecord]
    <2>1. pending'[c] = NoRecord /\ \A d \in Chats \ {c} : pending'[d] = pending[d]
        BY <1>0, <1>2
    <2> QED
        BY <1>2, <2>1 DEF OneRecordMoves, Taken
<1>3. CASE ~Rejects(c, rev) /\ Enqueued(c, n)
    <2>1. IsRecord(r) /\ IsRecord(m) /\ m.queued = r.queued
        BY OfferRecordFacts, MergedFacts, MergedQueued
    <2> HIDE DEF m
    <2>2. /\ IsRecord(n) /\ n.queued = m.queued /\ n.sources = m.sources
        BY <2>1 DEF IsRecord, Fields
    <2>3. /\ pending' = [pending EXCEPT ![c] = q]
          /\ ready' = IF n.queued THEN ready ELSE Append(ready, c)
        BY <1>3, Zenon DEF Enqueued
    <2> HIDE DEF n
    <2>4. q.sources = n.sources
        BY <2>2 DEF IsRecord, Fields
    <2> HIDE DEF q
    <2>5. pending'[c] = q /\ \A d \in Chats \ {c} : pending'[d] = pending[d]
        BY <1>0, <2>3
    <2>6. Appended(c)
        <3>1. CASE ~HasRecord(c)
            <4>1. r.queued = FALSE
                BY <3>1, Zenon DEF OfferRecord, Record
            <4> QED
                BY <2>1, <2>2, <2>3, <3>1, <4>1, Zenon DEF Appended
        <3>2. CASE HasRecord(c)
            <4>1. r.queued = pending[c].queued
                BY <3>2, OfferQueued
            <4> QED
                BY <2>1, <2>2, <2>3, <3>2, <4>1, Zenon DEF Appended
        <3> QED
            BY <3>1, <3>2, Zenon
    <2>7. HasRecord(c) \/ ~(Cardinality({d \in Chats : HasRecord(d)}) >= MaxPending)
        BY <1>3, Zenon DEF Rejects
    <2>8. pending'[c].sources = Merged(OfferRecord(c), S).sources
        BY <2>2, <2>4, <2>5, Zenon DEF m
    <2>9. Offered(c)
        BY <2>6, <2>7, <2>8, Zenon DEF Offered
    <2> QED
        BY <2>5, <2>9, Zenon DEF OneRecordMoves
<1>4. UNCHANGED <<pending, ready>> \/ AcceptOrRelease(c, S, rev)
    BY DEF OfferSource
<1>5. ASSUME AcceptOrRelease(c, S, rev)
      PROVE  \/ UNCHANGED <<pending, ready>>
             \/ ready' = ready /\ pending' = [pending EXCEPT ![c] = NoRecord]
             \/ ~Rejects(c, rev) /\ Enqueued(c, n)
    BY <1>5, Zenon DEF AcceptOrRelease
<1> QED
    BY <1>1, <1>2, <1>3, <1>4, <1>5, Zenon

\* handle_event and the triggers.
LEMMA OfferStepsMove ==
    ASSUME SchedulerInv, NEW c \in Chats,
           Inbound(c) \/ (\E s \in Sources : Redelivered(c, s)) \/ Trigger(c)
    PROVE  UNCHANGED <<pending, ready>> \/ OneRecordMoves
<1>1. registered \in [Chats -> Nat] /\ registered[c] \in Nat
    BY DEF SchedulerInv, Numbers
<1>2. \E rev : \E S \in SUBSET (1..registered'[c]) : OfferSource(c, S, rev)
    <2>1. CASE Inbound(c)
        <3>1. registered'[c] \in 1..registered'[c]
            BY <1>1, <2>1 DEF Inbound
        <3>2. {registered'[c]} \in SUBSET (1..registered'[c])
            BY <3>1, Zenon
        <3> QED
            BY <2>1, <3>2, Zenon DEF Inbound
    <2>2. CASE \E s \in Sources : Redelivered(c, s)
        <3>1. PICK s \in Sources : Redelivered(c, s)
            BY <2>2
        <3>2. registered' = registered /\ OfferSource(c, {s} \cap Unconsidered(c), s)
            BY <3>1, Zenon DEF Redelivered
        <3>3. {s} \cap Unconsidered(c) \in SUBSET (1..registered'[c])
            BY <3>2, Zenon DEF Unconsidered
        <3> QED
            BY <3>2, <3>3, Zenon
    <2>3. CASE Trigger(c)
        <3>1. registered' = registered /\ OfferSource(c, Unconsidered(c), registered[c])
            BY <2>3, Zenon DEF Trigger
        <3>2. Unconsidered(c) \in SUBSET (1..registered'[c])
            BY <3>1, Zenon DEF Unconsidered
        <3> QED
            BY <3>1, <3>2, Zenon
    <2> QED
        BY <2>1, <2>2, <2>3
<1> QED
    BY <1>2, OfferMoves, Zenon

\* A worker takes the next key.
LEMMA PopMoves ==
    ASSUME SchedulerInv, NEW w \in Workers, Pop(w)
    PROVE  (pending' = pending /\ ready # <<>> /\ ready' = Tail(ready)
               /\ ~HasRecord(Head(ready))) \/ OneRecordMoves
<1>1. PICK c \in Chats : c = Head(ready)
    BY QueueFacts DEF SchedulerInv, Numbers, Pop
<1>2. /\ ready # <<>> /\ ready' = Tail(ready)
      /\ pending = [d \in Chats |-> pending[d]]
    BY DEF Pop, SchedulerInv, Maps
<1>3. PICK r : r = [pending[c] EXCEPT !.queued = FALSE]
    BY Zenon
<1>4. \/ pending' = pending /\ ~HasRecord(c)
      \/ \E x \in {r, Reported(r), NoRecord} :
            HasRecord(c) /\ pending' = [pending EXCEPT ![c] = x]
    BY <1>1, <1>3, Zenon DEF Pop
<1>5. ASSUME HasRecord(c), NEW x \in {r, Reported(r), NoRecord},
             pending' = [pending EXCEPT ![c] = x]
      PROVE  OneRecordMoves
    <2>1. IsRecord(pending[c])
        BY <1>5 DEF SchedulerInv, Covered, HasRecord
    <2>2. IsRecord(r) /\ r.queued = FALSE /\ r.sources = pending[c].sources
        BY <1>3, <2>1, Zenon DEF IsRecord, Fields
    <2>3. Reported(r).queued = FALSE /\ Reported(r).sources = r.sources
        <3>1. PICK y : y = r.reported \cup Range(r.sources)
            BY Zenon
        <3>2. Reported(r) = [r EXCEPT !.reported = y]
            BY <3>1, Zenon DEF Reported
        <3> QED
            BY <2>2, <3>2 DEF IsRecord, Fields
    <2>4. x = NoRecord \/ (x.queued = FALSE /\ x.sources = pending[c].sources)
        BY <1>5, <2>2, <2>3, Zenon
    <2>5. pending'[c] = x /\ \A d \in Chats \ {c} : pending'[d] = pending[d]
        BY <1>2, <1>5
    <2>6. Popped(c)
        BY <1>1, <1>2, <1>5, <2>4, <2>5, Zenon DEF Popped
    <2> QED
        BY <2>5, <2>6, Zenon DEF OneRecordMoves
<1> QED
    BY <1>1, <1>2, <1>4, <1>5, Zenon

\* The finally block of _worker.
LEMMA HandlerEndsMoves ==
    ASSUME SchedulerInv, NEW w \in Workers, HandlerEnds(w)
    PROVE  UNCHANGED <<pending, ready>> \/ OneRecordMoves
<1>1. PICK c \in Chats : c = worker[w].chat
    BY DEF SchedulerInv, WorkerInv, HandlerEnds
<1>2. pending = [d \in Chats |-> pending[d]]
    BY Zenon DEF SchedulerInv, Maps
<1>3. UNCHANGED <<pending, ready>> \/ (HasRecord(c) /\ Retire(c))
    BY <1>1, Zenon DEF HandlerEnds, SchedulerInv, WorkerInv
<1>4. CASE HasRecord(c) /\ pending' = [pending EXCEPT ![c] = NoRecord] /\ ready' = ready
    <2>1. pending'[c] = NoRecord /\ \A d \in Chats \ {c} : pending'[d] = pending[d]
        BY <1>2, <1>4
    <2> QED
        BY <1>4, <2>1 DEF OneRecordMoves, Taken
<1>5. CASE HasRecord(c) /\ Enqueued(c, pending[c])
    <2>1. PICK q : q = [pending[c] EXCEPT !.queued = TRUE]
        BY Zenon
    <2>2. IsRecord(pending[c])
        BY <1>5 DEF SchedulerInv, Covered, HasRecord
    <2>3. q.sources = pending[c].sources
        BY <2>1, <2>2 DEF IsRecord, Fields
    <2>4. /\ pending' = [pending EXCEPT ![c] = q]
          /\ ready' = IF pending[c].queued THEN ready ELSE Append(ready, c)
        BY <1>5, <2>1, Zenon DEF Enqueued
    <2>5. pending'[c] = q /\ \A d \in Chats \ {c} : pending'[d] = pending[d]
        BY <1>2, <2>4, Zenon
    <2>6. PutBack(c)
        BY <1>5, <2>3, <2>4, <2>5, Zenon DEF PutBack, Appended
    <2> QED
        BY <2>5, <2>6, Zenon DEF OneRecordMoves
<1> QED
    BY <1>3, <1>4, <1>5, Zenon DEF Retire

\* Every step of the scheduler.
LEMMA RecordsMove ==
    ASSUME SchedulerInv, [Next]_vars
    PROVE  \/ UNCHANGED <<pending, ready>>
           \/ /\ pending' = pending /\ ready # <<>> /\ ready' = Tail(ready)
              /\ ~HasRecord(Head(ready))
           \/ OneRecordMoves
           \/ pending' = [c \in Chats |-> NoRecord]
<1>1. pending = [d \in Chats |-> pending[d]]
    BY Zenon DEF SchedulerInv, Maps
<1>2. ASSUME NEW c \in Chats, Step(c)
      PROVE  UNCHANGED <<pending, ready>> \/ OneRecordMoves
    <2>1. CASE Age(c)
        <3>1. PICK r : r = [pending[c] EXCEPT !.old = TRUE]
            BY Zenon
        <3>2. /\ pending' = [pending EXCEPT ![c] = r]
              /\ HasRecord(c) /\ ready' = ready
            BY <2>1, <3>1, Zenon DEF Age
        <3>3. IsRecord(pending[c])
            BY <3>2 DEF SchedulerInv, Covered, HasRecord
        <3>4. r.queued = pending[c].queued /\ r.sources = pending[c].sources
            BY <3>1, <3>3 DEF IsRecord, Fields
        <3>5. pending'[c] = r /\ \A d \in Chats \ {c} : pending'[d] = pending[d]
            BY <1>1, <3>2
        <3> QED
            BY <3>2, <3>4, <3>5, Zenon DEF OneRecordMoves, Aged
    <2>2. CASE DirectRequest(c) \/ DirectRedelivered(c)
        <3>1. ready' = ready /\ pending' = [pending EXCEPT ![c] = NoRecord]
            BY <2>2 DEF DirectRequest, DirectRedelivered, CancelChat
        <3>2. pending'[c] = NoRecord /\ \A d \in Chats \ {c} : pending'[d] = pending[d]
            BY <1>1, <3>1
        <3> QED
            BY <3>1, <3>2, Zenon DEF OneRecordMoves, Taken
    <2>3. CASE DirectFinished(c)
        BY <2>3, Zenon DEF DirectFinished
    <2> QED
        BY <1>2, <2>1, <2>2, <2>3, OfferStepsMove, Zenon DEF Step
<1>3. CASE AdvanceEpoch \/ UNCHANGED vars
    BY <1>3, Zenon DEF AdvanceEpoch, vars
<1>4. CASE Restart
    BY <1>4, Zenon DEF Restart
<1> QED
    BY <1>2, <1>3, <1>4, PopMoves, HandlerEndsMoves, Zenon DEF Next

\* What stays in the queue.
LEMMA QueueKeeps ==
    ASSUME NEW q \in Seq(Chats), NEW c \in Chats, NEW d \in Range(q)
    PROVE  /\ d \in Range(Append(q, c)) /\ c \in Range(Append(q, c))
           /\ q # <<>> /\ d # Head(q) => d \in Range(Tail(q))
<1>1. PICK i \in 1..Len(q) : d = q[i]
    BY DEF Range
<1>2. /\ Len(q) \in Nat
      /\ DOMAIN Append(q, c) = 1..(Len(q) + 1)
      /\ Append(q, c)[Len(q) + 1] = c
      /\ Append(q, c)[i] = q[i]
      /\ i \in 1..(Len(q) + 1) /\ Len(q) + 1 \in 1..(Len(q) + 1)
    OBVIOUS
<1>3. d \in Range(Append(q, c)) /\ c \in Range(Append(q, c))
    BY <1>1, <1>2, Zenon DEF Range
<1>4. ASSUME q # <<>>, d # Head(q) PROVE d \in Range(Tail(q))
    <2>1. i # 1
        BY <1>1, <1>4
    <2>2. /\ DOMAIN Tail(q) = 1..(Len(q) - 1)
          /\ i - 1 \in 1..(Len(q) - 1) /\ Tail(q)[i - 1] = q[i]
        BY <1>2, <1>4, <2>1
    <2> QED
        BY <1>1, <2>2, Zenon DEF Range
<1> QED
    BY <1>3, <1>4, Zenon

LEMMA AppendedIn ==
    ASSUME NEW q \in Seq(Chats), NEW c \in Chats
    PROVE  c \in Range(Append(q, c))
<1>1. /\ Len(q) \in Nat
      /\ DOMAIN Append(q, c) = 1..(Len(q) + 1)
      /\ Append(q, c)[Len(q) + 1] = c
      /\ Len(q) + 1 \in 1..(Len(q) + 1)
    OBVIOUS
<1> QED
    BY <1>1, Zenon DEF Range

LEMMA QueuedStep == SchedulerInv /\ QueuedIsReady /\ [Next]_vars => QueuedIsReady'
<1> SUFFICES ASSUME SchedulerInv, QueuedIsReady, [Next]_vars,
                    NEW d \in Chats, HasRecord(d)', pending'[d].queued
             PROVE  d \in Range(ready')
    BY Zenon DEF QueuedIsReady
<1>1. ready \in Seq(Chats)
    BY Zenon DEF SchedulerInv, Numbers
<1>2. HasRecord(d) /\ pending[d].queued => d \in Range(ready)
    BY DEF QueuedIsReady
<1>3. CASE UNCHANGED <<pending, ready>>
    BY <1>2, <1>3, Zenon DEF HasRecord
<1>4. CASE /\ pending' = pending /\ ready # <<>> /\ ready' = Tail(ready)
           /\ ~HasRecord(Head(ready))
    <2>1. d # Head(ready) /\ d \in Range(ready)
        BY <1>2, <1>4 DEF HasRecord
    <2> QED
        BY <1>1, <1>4, <2>1, QueueKeeps, Zenon
<1>5. CASE pending' = [c \in Chats |-> NoRecord]
    BY <1>5, Zenon DEF HasRecord
<1>6. CASE OneRecordMoves
    <2>1. PICK c \in Chats :
             /\ \A b \in Chats \ {c} : pending'[b] = pending[b]
             /\ Taken(c) \/ Aged(c) \/ Popped(c) \/ PutBack(c) \/ Offered(c)
        BY <1>6, Zenon DEF OneRecordMoves
    <2>2. CASE d # c
        <3>1. d \in Range(ready)
            BY <1>2, <2>1, <2>2, Zenon DEF HasRecord
        <3>2. \/ ready' = ready \/ ready' = Append(ready, c)
              \/ ready # <<>> /\ c = Head(ready) /\ ready' = Tail(ready)
            BY <2>1, Zenon DEF Taken, Aged, Popped, PutBack, Offered, Appended
        <3> QED
            BY <1>1, <2>2, <3>1, <3>2, QueueKeeps, Zenon
    <2>3. CASE d = c
        <3>1. CASE Taken(c) \/ Popped(c)
            BY <2>3, <3>1, Zenon DEF Taken, Popped, HasRecord
        <3>2. CASE Aged(c)
            BY <1>2, <2>3, <3>2, Zenon DEF Aged
        <3>3. CASE Appended(c)
            <4>1. CASE HasRecord(c) /\ pending[c].queued
                BY <1>2, <2>3, <3>3, <4>1, Zenon DEF Appended
            <4>2. CASE ~(HasRecord(c) /\ pending[c].queued)
                BY <1>1, <2>3, <3>3, <4>2, AppendedIn, Zenon DEF Appended
            <4> QED
                BY <4>1, <4>2, Zenon
        <3> QED
            BY <2>1, <3>1, <3>2, <3>3, Zenon DEF PutBack, Offered
    <2> QED
        BY <2>2, <2>3
<1> QED
    BY <1>3, <1>4, <1>5, <1>6, RecordsMove, Zenon

\* A record marked as queued is in the queue, for any number of chats, workers,
\* cancellations and restarts (offer_with_result, _worker, _retire, cancel_chat).
THEOREM QueuedStaysReady == Spec => []QueuedIsReady
<1>1. Init => QueuedIsReady
    BY Zenon DEF Init, QueuedIsReady, HasRecord
<1> QED
    BY <1>1, SchedulerInit, SchedulerStep, QueuedStep, PTL DEF Spec

-----------------------------------------------------------------------------
\* Lists of references without repetition

RefsOnce(q) == \A i, j \in 1..Len(q) : q[i] = q[j] => i = j

\* References that follow others and differ from them.
LEMMA ConcatOnce ==
    ASSUME NEW p \in Seq(Nat), NEW q \in Seq(Nat), RefsOnce(p), RefsOnce(q),
           Range(p) \cap Range(q) = {}
    PROVE  /\ p \o q \in Seq(Nat) /\ RefsOnce(p \o q)
           /\ Range(p \o q) = Range(p) \cup Range(q)
           /\ Len(p \o q) = Len(p) + Len(q)
<1> DEFINE a == p \o q
<1>1. /\ a \in Seq(Nat) /\ Len(a) = Len(p) + Len(q)
      /\ \A i \in 1..Len(a) : a[i] = IF i <= Len(p) THEN p[i] ELSE q[i - Len(p)]
    OBVIOUS
<1>2. Len(p) \in Nat /\ Len(q) \in Nat
    OBVIOUS
<1>3. /\ \A i \in 1..Len(p) : p[i] \in Range(p)
      /\ \A i \in 1..Len(q) : q[i] \in Range(q)
    BY DEF Range
<1> HIDE DEF a
<1>a. \A i \in 1..Len(a) : a[i] \in Range(a)
    <2>1. DOMAIN a = 1..Len(a)
        BY <1>1
    <2> QED
        BY <2>1, Zenon DEF Range
<1>b. \A i \in 1..Len(p) : i \in 1..Len(a) /\ a[i] = p[i]
    BY <1>1, <1>2
<1>c. \A i \in 1..Len(q) : i + Len(p) \in 1..Len(a) /\ a[i + Len(p)] = q[i]
    <2> TAKE i \in 1..Len(q)
    <2>1. /\ i + Len(p) \in 1..Len(a) /\ ~(i + Len(p) <= Len(p))
          /\ (i + Len(p)) - Len(p) = i
        BY <1>1, <1>2
    <2> QED
        BY <1>1, <2>1, Zenon
<1>d. \A i \in 1..Len(a) : i > Len(p) => /\ i - Len(p) \in 1..Len(q)
                                         /\ a[i] = q[i - Len(p)]
    <2> SUFFICES ASSUME NEW i \in 1..Len(a), i > Len(p)
                 PROVE  i - Len(p) \in 1..Len(q) /\ a[i] = q[i - Len(p)]
        BY Zenon
    <2>1. i - Len(p) \in 1..Len(q) /\ ~(i <= Len(p))
        BY <1>1, <1>2
    <2> QED
        BY <1>1, <2>1
<1>4. Range(a) = Range(p) \cup Range(q)
    <2>1. ASSUME NEW x \in Range(a) PROVE x \in Range(p) \cup Range(q)
        <3>1. PICK i \in 1..Len(a) : x = a[i]
            BY <1>1, <2>1 DEF Range
        <3>2. CASE i <= Len(p)
            <4>1. i \in 1..Len(p)
                BY <1>1, <1>2, <3>2
            <4> QED
                BY <1>3, <1>b, <3>1, <4>1, Zenon
        <3>3. CASE ~(i <= Len(p))
            <4>1. i > Len(p)
                BY <1>1, <1>2, <3>3
            <4> QED
                BY <1>3, <1>d, <3>1, <4>1, Zenon
        <3> QED
            BY <3>2, <3>3, Zenon
    <2>2. ASSUME NEW x \in Range(p) PROVE x \in Range(a)
        <3>1. PICK i \in 1..Len(p) : x = p[i]
            BY <2>2 DEF Range
        <3> QED
            BY <1>a, <1>b, <3>1, Zenon
    <2>3. ASSUME NEW x \in Range(q) PROVE x \in Range(a)
        <3>1. PICK i \in 1..Len(q) : x = q[i]
            BY <2>3 DEF Range
        <3> QED
            BY <1>a, <1>c, <3>1, Zenon
    <2> QED
        BY <2>1, <2>2, <2>3, Zenon
<1>5. RefsOnce(a)
    <2> SUFFICES ASSUME NEW i \in 1..Len(a), NEW j \in 1..Len(a), a[i] = a[j]
                 PROVE  i = j
        BY Zenon DEF RefsOnce
    <2>1. CASE i <= Len(p) /\ j <= Len(p)
        <3>1. i \in 1..Len(p) /\ j \in 1..Len(p)
            BY <1>1, <1>2, <2>1
        <3> QED
            BY <1>b, <3>1, Zenon DEF RefsOnce
    <2>2. CASE i > Len(p) /\ j > Len(p)
        <3>1. i - Len(p) \in 1..Len(q) /\ j - Len(p) \in 1..Len(q)
            BY <1>d, <2>2, Zenon
        <3>2. q[i - Len(p)] = q[j - Len(p)]
            BY <1>d, <2>2, Zenon
        <3>3. i - Len(p) = j - Len(p)
            BY <3>1, <3>2, Zenon DEF RefsOnce
        <3> QED
            BY <1>2, <3>3
    <2>3. CASE i <= Len(p) /\ j > Len(p)
        <3>1. j - Len(p) \in 1..Len(q) /\ a[j] = q[j - Len(p)]
            BY <1>d, <2>3, Zenon
        <3>2. i \in 1..Len(p) /\ a[i] = p[i]
            BY <1>1, <1>2, <1>b, <2>3
        <3> QED
            BY <1>3, <3>1, <3>2, Zenon
    <2>4. CASE i > Len(p) /\ j <= Len(p)
        <3>1. i - Len(p) \in 1..Len(q) /\ a[i] = q[i - Len(p)]
            BY <1>d, <2>4, Zenon
        <3>2. j \in 1..Len(p) /\ a[j] = p[j]
            <4>1. j \in 1..Len(p)
                BY <1>1, <1>2, <2>4
            <4> QED
                BY <1>b, <4>1, Zenon
        <3> QED
            BY <1>3, <3>1, <3>2, Zenon
    <2> QED
        BY <1>2, <2>1, <2>2, <2>3, <2>4
<1> QED
    BY <1>1, <1>4, <1>5, Zenon DEF a

\* Cutting off the first k references.
LEMMA CutOnce ==
    ASSUME NEW q \in Seq(Nat), RefsOnce(q), NEW k \in 0..Len(q)
    PROVE  LET gone == SubSeq(q, 1, k)
               kept == SubSeq(q, k + 1, Len(q))
           IN /\ kept \in Seq(Nat) /\ RefsOnce(kept) /\ Len(kept) = Len(q) - k
              /\ Range(gone) \cup Range(kept) = Range(q)
              /\ Range(gone) \cap Range(kept) = {}
              /\ k < Len(q) => q[Len(q)] \in Range(kept)
<1> DEFINE gone == SubSeq(q, 1, k)
           kept == SubSeq(q, k + 1, Len(q))
<1>0. k \in Nat /\ Len(q) \in Nat /\ k <= Len(q)
    OBVIOUS
<1>1. /\ gone \in Seq(Nat) /\ Len(gone) = k
      /\ \A i \in 1..k : gone[i] = q[i]
    BY <1>0
<1>2. /\ kept \in Seq(Nat) /\ Len(kept) = Len(q) - k
      /\ \A i \in 1..(Len(q) - k) : kept[i] = q[k + i]
    BY <1>0
<1> HIDE DEF gone, kept
<1>3. Range(gone) = {q[i] : i \in 1..k}
    <2>1. DOMAIN gone = 1..k
        BY <1>0, <1>1
    <2> QED
        BY <1>1, <2>1, Zenon DEF Range
<1>4. Range(kept) = {q[i] : i \in (k + 1)..Len(q)}
    <2>1. Range(kept) = {q[k + i] : i \in 1..(Len(q) - k)}
        <3>1. DOMAIN kept = 1..(Len(q) - k)
            BY <1>0, <1>2
        <3> QED
            BY <1>2, <3>1, Zenon DEF Range
    <2>2. \A i \in (k + 1)..Len(q) : i - k \in 1..(Len(q) - k) /\ k + (i - k) = i
        BY <1>0
    <2>3. \A i \in 1..(Len(q) - k) : k + i \in (k + 1)..Len(q)
        BY <1>0
    <2> QED
        BY <2>1, <2>2, <2>3, Zenon
<1>5. RefsOnce(kept)
    <2> SUFFICES ASSUME NEW i \in 1..Len(kept), NEW j \in 1..Len(kept),
                        kept[i] = kept[j]
                 PROVE  i = j
        BY DEF RefsOnce
    <2>0. Len(kept) = Len(q) - k
        BY <1>2
    <2>1. k + i \in 1..Len(q) /\ k + j \in 1..Len(q) /\ q[k + i] = q[k + j]
        <3>1. k + i \in 1..Len(q) /\ k + j \in 1..Len(q)
            BY <1>0, <2>0
        <3>2. q[k + i] = kept[i] /\ q[k + j] = kept[j]
            BY <1>2, <2>0, Zenon
        <3> QED
            BY <3>1, <3>2, Zenon
    <2>2. k + i = k + j
        BY <2>1, Zenon DEF RefsOnce
    <2> QED
        BY <1>0, <2>0, <2>2
<1>6. Range(q) = {q[i] : i \in 1..Len(q)}
    BY DEF Range
<1>7. 1..Len(q) = 1..k \cup (k + 1)..Len(q)
    BY <1>0
<1>8. Range(gone) \cup Range(kept) = Range(q)
    BY <1>3, <1>4, <1>6, <1>7, Zenon
<1>9. \A i \in 1..k, j \in (k + 1)..Len(q) : i \in 1..Len(q) /\ j \in 1..Len(q) /\ i # j
    BY <1>0
<1>10. Range(gone) \cap Range(kept) = {}
    BY <1>3, <1>4, <1>9, Zenon DEF RefsOnce
<1>11. k < Len(q) => q[Len(q)] \in Range(kept)
    BY <1>0, <1>4
<1> QED
    BY <1>2, <1>5, <1>8, <1>10, <1>11, Zenon DEF gone, kept

-----------------------------------------------------------------------------
\* Sorted references

INSTANCE FiniteSetTheorems

\* A finite set of numbers that is not empty has a greatest element: the one
\* with the fewest elements above it.
LEMMA GreatestElement ==
    ASSUME NEW S \in SUBSET Nat, IsFiniteSet(S), S # {}
    PROVE  \E m \in S : \A k \in S : k <= m
<1> DEFINE Above(m) == {k \in S : k > m}
           T == {Above(m) : m \in S}
<1>1. T # {} /\ T \subseteq SUBSET S
    BY Zenon
<1>2. FiniteSubsetsOf(S) = SUBSET S
    BY FS_FiniteSubsetsOfFinite, Zenon
<1>3. IsWellFoundedOn(StrictSubsetOrdering(S), SUBSET S)
    BY <1>2, FS_StrictSubsetOrderingWellFounded, Zenon
<1>4. PICK A \in T : \A B \in T : ~(<<B, A>> \in StrictSubsetOrdering(S))
    <2> HIDE DEF T
    <2> QED
        BY <1>1, <1>3, WFMin, Zenon
<1>5. PICK m \in S : A = Above(m)
    BY <1>4, Zenon
<1>6. ASSUME NEW k \in S, k > m
      PROVE  FALSE
    <2>1. Above(k) \in T
        BY Zenon
    <2>2. Above(k) \subseteq Above(m)
        <3> SUFFICES ASSUME NEW x \in S, x > k PROVE x > m
            BY Zenon
        <3>1. x \in Nat /\ k \in Nat /\ m \in Nat
            BY Zenon
        <3> HIDE DEF T
        <3> QED
            BY <1>6, <3>1
    <2>3. k \in Above(m) /\ k \notin Above(k)
        BY <1>6
    <2>4. <<Above(k), Above(m)>> \in StrictSubsetOrdering(S)
        BY <2>2, <2>3, Zenon DEF StrictSubsetOrdering
    <2> QED
        BY <1>4, <1>5, <2>1, <2>4, Zenon
<1> QED
    BY <1>6

Sorting(q, S) ==
    /\ q \in [1..Cardinality(S) -> S]
    /\ \A i, j \in 1..Cardinality(S) : i < j => q[i] < q[j]

\* Every finite set of numbers can be sorted: a smallest one that cannot would,
\* without its greatest element, be one that can.
LEMMA SortingExists ==
    ASSUME NEW S \in SUBSET Nat, IsFiniteSet(S)
    PROVE  \E q : Sorting(q, S)
<1> SUFFICES ASSUME ~\E q : Sorting(q, S)
             PROVE  FALSE
    BY Zenon
<1> DEFINE Bad == {T \in SUBSET S : ~\E q : Sorting(q, T)}
<1>1. Bad # {} /\ Bad \subseteq SUBSET S
    OBVIOUS
<1>2. IsWellFoundedOn(StrictSubsetOrdering(S), SUBSET S)
    BY FS_FiniteSubsetsOfFinite, FS_StrictSubsetOrderingWellFounded, Zenon
<1>3. PICK T \in Bad : \A B \in Bad : ~(<<B, T>> \in StrictSubsetOrdering(S))
    <2> HIDE DEF Bad
    <2> QED
        BY <1>1, <1>2, WFMin, Zenon
<1>4. T \in SUBSET Nat /\ IsFiniteSet(T) /\ ~\E q : Sorting(q, T)
    BY <1>3, FS_Subset, Zenon
<1>5. T # {}
    <2> SUFFICES ASSUME T = {} PROVE FALSE
        BY Zenon
    <2>1. Cardinality(T) = 0
        BY FS_EmptySet, Zenon
    <2>2. Sorting(<<>>, T)
        BY <2>1 DEF Sorting
    <2> QED
        BY <1>4, <2>2, Zenon
<1>6. PICK m \in T : \A k \in T : k <= m
    BY <1>4, <1>5, GreatestElement, Zenon
<1> DEFINE U == T \ {m}
<1>7. PICK q : Sorting(q, U)
    <2>1. U \in SUBSET S /\ <<U, T>> \in StrictSubsetOrdering(S)
        BY <1>3, Zenon DEF StrictSubsetOrdering
    <2> QED
        BY <1>3, <2>1, Zenon
<1>8. PICK n \in Nat : Cardinality(U) = n /\ Cardinality(T) = n + 1
    <2>1. Cardinality(T) \in Nat /\ Cardinality(U) = Cardinality(T) - 1
        BY <1>4, FS_RemoveElement, FS_CardinalityType, Zenon
    <2>2. IsFiniteSet(U) /\ Cardinality(U) \in Nat
        BY <1>4, FS_RemoveElement, FS_CardinalityType, Zenon
    <2> QED
        BY <2>1, <2>2
<1> DEFINE p == [i \in 1..(n + 1) |-> IF i = n + 1 THEN m ELSE q[i]]
<1>9. q \in [1..n -> U] /\ \A i, j \in 1..n : i < j => q[i] < q[j]
    BY <1>7, <1>8, Zenon DEF Sorting
<1>10. p \in [1..(n + 1) -> T]
    BY <1>9
<1>11. ASSUME NEW i \in 1..(n + 1), NEW j \in 1..(n + 1), i < j
       PROVE  p[i] < p[j]
    <2>1. i \in 1..n /\ p[i] = q[i] /\ q[i] \in U
        BY <1>9, <1>11
    <2>2. CASE j = n + 1
        <3>1. q[i] \in Nat /\ m \in Nat /\ q[i] <= m /\ q[i] # m
            BY <1>4, <1>6, <2>1, Zenon
        <3> QED
            BY <2>1, <2>2, <3>1
    <2>3. CASE j # n + 1
        BY <1>9, <1>11, <2>1, <2>3
    <2> QED
        BY <2>2, <2>3, Zenon
<1>12. Sorting(p, T)
    <2> HIDE DEF p
    <2> QED
        BY <1>8, <1>10, <1>11, Zenon DEF Sorting
<1> QED
    BY <1>4, <1>12, Zenon

\* Sorted lists the elements of the set, each once.
LEMMA SortedFacts ==
    ASSUME NEW S \in SUBSET Nat, IsFiniteSet(S)
    PROVE  /\ Sorted(S) \in Seq(Nat) /\ Range(Sorted(S)) = S
           /\ Len(Sorted(S)) = Cardinality(S)
           /\ \A i, j \in 1..Len(Sorted(S)) : Sorted(S)[i] = Sorted(S)[j] => i = j
<1> DEFINE n == Cardinality(S)
<1>1. n \in Nat
    BY FS_CardinalityType, Zenon
<1>2. PICK q : q = Sorted(S)
    BY Zenon
<1>3. q \in [1..n -> S] /\ \A i, j \in 1..n : i < j => q[i] < q[j]
    <2>1. \E p \in [1..n -> S] : \A i, j \in 1..n : i < j => p[i] < p[j]
        BY SortingExists, Zenon DEF Sorting
    <2> QED
        BY <1>2, <2>1, Zenon DEF Sorted
<1> HIDE DEF n
<1>4. \A i, j \in 1..n : q[i] = q[j] => i = j
    <2> TAKE i, j \in 1..n
    <2>1. q[i] \in S /\ q[j] \in S
        BY <1>3, Zenon
    <2>2. q[i] \in Nat /\ q[j] \in Nat /\ i \in Nat /\ j \in Nat
        <3>1. \A x \in S : x \in Nat
            BY Zenon
        <3>2. \A k \in 1..n : k \in Nat
            BY <1>1
        <3> QED
            BY <2>1, <3>1, <3>2, Zenon
    <2> QED
        BY <1>3, <2>2
<1>5. q \in Surjection(1..n, S)
    <2>1. q \in Injection(1..n, S)
        BY <1>3, <1>4, Zenon DEF Injection, IsInjective
    <2>2. IsFiniteSet(1..n) /\ Cardinality(1..n) = n
        BY <1>1, FS_Interval
    <2> QED
        BY <2>1, <2>2, FS_Injection, Zenon DEF n
<1>6. Range(q) = S
    BY <1>3, <1>5, Zenon DEF Range, Surjection
<1>7. q \in Seq(Nat) /\ Len(q) = n
    <2>1. \A x \in S : x \in Nat
        BY Zenon
    <2>2. q \in [1..n -> Nat]
        BY <1>3, <2>1, Zenon
    <2> QED
        BY <1>1, <2>2
<1> QED
    BY <1>2, <1>4, <1>6, <1>7, Zenon DEF n

-----------------------------------------------------------------------------
\* Sources and records.  What is in a record or was handed out lies below the
\* watermark, and new references lie above it: an offer never brings back what
\* was given out.  A pending record without its own handler has something left
\* to report, so no evaluation falls back to what was reported.

OwnRuns(c) == \E w \in Workers : worker[w] = Running(c, NoRecord)

\* The references q of a record and those of them, rep, that were reported.
RefsInv(c, q, rep) ==
    /\ q \in Seq(Nat) /\ RefsOnce(q)
    /\ Range(q) \subseteq 1..considered[c] /\ rep \subseteq 1..considered[c]
    /\ Range(q) \subseteq claims[c]
    /\ \A s \in Range(q) \ rep : handed[c][s] = 0

PendingInv(c) ==
    HasRecord(c) => /\ RefsInv(c, pending[c].sources, pending[c].reported)
                    /\ OwnRuns(c) \/ Unreported(pending[c]) # {}

Handed(c) ==
    \A s \in Sources : /\ handed[c][s] \in {0, 1}
                       /\ handed[c][s] = 1 => s <= considered[c] /\ s \in claims[c]

WorkInv ==
    /\ handed \in [Chats -> [Sources -> Nat]]
    /\ claims = [c \in Chats |-> claims[c]]
    /\ \A c \in Chats : /\ considered[c] <= registered[c]
                        /\ registered[c] <= MaxSources[c]
                        /\ Handed(c) /\ PendingInv(c)

\* The references that an offer merges and cuts, once for each.
LEMMA MergedRefs ==
    ASSUME NEW r, IsRecord(r), r.sources \in Seq(Nat), RefsOnce(r.sources),
           NEW S \in SUBSET Nat, IsFiniteSet(S)
    PROVE  LET gone == Range(SubSeq(AllRefs(r, S), 1, Cut(r, S)))
               m == Merged(r, S)
           IN /\ m.sources \in Seq(Nat) /\ RefsOnce(m.sources)
              /\ Len(m.sources) <= MaxRefs
              /\ m.reported = r.reported \ gone
              /\ Dropped(r, S) = gone \ r.reported
              /\ gone \cap Range(m.sources) = {}
              /\ gone \cup Range(m.sources) = Range(r.sources) \cup S
              /\ S \ Range(r.sources) # {}
                    => (S \ Range(r.sources)) \cap Range(m.sources) # {}
<1> DEFINE new == S \ Range(r.sources)
           all == AllRefs(r, S)
           k == Cut(r, S)
           gone == SubSeq(all, 1, k)
           kept == SubSeq(all, k + 1, Len(all))
           m == Merged(r, S)
<1>1. PICK t : t = Sorted(new)
    BY Zenon
<1>2. /\ t \in Seq(Nat) /\ Range(t) = new /\ RefsOnce(t)
      /\ Len(t) = Cardinality(new) /\ IsFiniteSet(new)
    <2>1. new \in SUBSET Nat /\ IsFiniteSet(new)
        BY FS_Subset, Zenon
    <2> HIDE DEF new
    <2> QED
        BY <1>1, <2>1, SortedFacts, Zenon DEF RefsOnce
<1>4. PICK q \in Seq(Nat) : q = r.sources
    BY Zenon
<1>5. /\ all \in Seq(Nat) /\ RefsOnce(all) /\ Range(all) = Range(q) \cup new
      /\ Len(all) = Len(q) + Len(t)
    <2>1. all = q \o t
        BY <1>1, <1>4, Zenon DEF AllRefs
    <2>2. Range(q) \cap Range(t) = {} /\ RefsOnce(q)
        BY <1>2, <1>4, Zenon
    <2> HIDE DEF all
    <2>3. /\ q \o t \in Seq(Nat) /\ RefsOnce(q \o t)
          /\ Range(q \o t) = Range(q) \cup Range(t) /\ Len(q \o t) = Len(q) + Len(t)
        BY <1>2, <2>2, ConcatOnce, Zenon
    <2> QED
        BY <1>2, <2>1, <2>3, Zenon
<1>6. k \in 0..Len(all) /\ Len(all) - k <= MaxRefs
      /\ (Len(all) > 0 => k < Len(all)) /\ Len(all) \in Nat
    <2>1. Len(all) \in Nat /\ MaxRefs \in Nat \ {0}
        BY <1>5, SchedulerAssumption
    <2>2. k = Larger(0, Len(all) - MaxRefs)
        BY DEF Cut
    <2> HIDE DEF all, k
    <2> QED
        BY <2>1, <2>2 DEF Larger
<1>7. /\ kept \in Seq(Nat) /\ RefsOnce(kept) /\ Len(kept) = Len(all) - k
      /\ Range(gone) \cup Range(kept) = Range(all)
      /\ Range(gone) \cap Range(kept) = {}
      /\ k < Len(all) => all[Len(all)] \in Range(kept)
    <2> HIDE DEF all, k
    <2> QED
        BY <1>5, <1>6, CutOnce, Zenon
<1>8. m.sources = kept /\ m.reported = r.reported \ Range(gone)
    <2> DEFINE y == r.reported \ Range(gone)
    <2>1. m = [r EXCEPT !.sources = kept, !.reported = y]
        BY Zenon DEF Merged
    <2> HIDE DEF kept, y, m
    <2>2. m.sources = kept /\ m.reported = y
        BY <2>1, Zenon DEF IsRecord, Fields
    <2> QED
        BY <2>2, Zenon DEF y
<1>9. new # {} => new \cap Range(kept) # {}
    <2> SUFFICES ASSUME new # {} PROVE all[Len(all)] \in new /\ k < Len(all)
        BY <1>7, Zenon
    <2>1. Len(t) # 0 /\ Len(t) \in Nat
        <3> HIDE DEF new
        <3> QED
            BY <1>2, FS_EmptySet
    <2>2. all = q \o t /\ Len(q) \in Nat
        BY <1>1, <1>4 DEF AllRefs
    <2>3. all[Len(all)] = t[Len(t)]
        <3> HIDE DEF all
        <3> QED
            BY <1>2, <1>5, <2>1, <2>2
    <2>4. t[Len(t)] \in new
        <3>1. t[Len(t)] \in Range(t)
            <4>1. DOMAIN t = 1..Len(t) /\ Len(t) \in 1..Len(t)
                BY <1>2, <2>1
            <4> QED
                BY <4>1, Zenon DEF Range
        <3> QED
            BY <1>2, <3>1, Zenon
    <2> QED
        <3> HIDE DEF all, new, k
        <3> QED
            BY <1>5, <1>6, <2>1, <2>2, <2>3, <2>4
<1> HIDE DEF kept, gone, all, k, m
<1>10. Dropped(r, S) = Range(gone) \ r.reported
    BY Zenon DEF Dropped, gone, all, k
<1> QED
    BY <1>4, <1>5, <1>6, <1>7, <1>8, <1>9, <1>10, ZenonT(30) DEF gone, all, k, m

\* The record an offer starts from.
LEMMA OfferRefs ==
    ASSUME SchedulerInv, WorkInv, NEW c \in Chats
    PROVE  RefsInv(c, OfferRecord(c).sources, OfferRecord(c).reported)
<1>0. PendingInv(c) /\ considered[c] \in Nat
    BY Zenon DEF WorkInv, SchedulerInv, Numbers
<1>1. RefsInv(c, <<>>, {})
    BY <1>0 DEF RefsInv, RefsOnce, Range
<1>2. CASE ~HasRecord(c)
    BY <1>1, <1>2, Zenon DEF OfferRecord, Record
<1>3. CASE HasRecord(c) /\ pending[c].epoch = epoch
    BY <1>0, <1>3, Zenon DEF OfferRecord, PendingInv
<1>4. CASE HasRecord(c) /\ pending[c].epoch # epoch
    <2>1. PICK r : r = pending[c]
        BY Zenon
    <2>2. IsRecord(r) /\ RefsInv(c, r.sources, r.reported)
        BY <1>0, <1>4, <2>1, Zenon DEF HasRecord, Covered, SchedulerInv, PendingInv
    <2>3. PICK s : s = [r EXCEPT !.sources = <<>>, !.rev = 0, !.epoch = epoch, !.old = FALSE]
        BY Zenon
    <2>4. OfferRecord(c) = s
        BY <1>4, <2>1, <2>3, Zenon DEF OfferRecord
    <2>5. s.sources = <<>> /\ s.reported = r.reported
        BY <2>2, <2>3, Zenon DEF IsRecord, Fields
    <2>6. RefsInv(c, <<>>, r.reported)
        BY <1>1, <2>2, Zenon DEF RefsInv, Range
    <2> QED
        BY <2>4, <2>5, <2>6, Zenon
<1> QED
    BY <1>2, <1>3, <1>4, Zenon

\* An accepted offer: what it adds was never handed out, what it keeps and what
\* was handed out stays claimed, and something is left to report.
LEMMA AcceptedRefs ==
    ASSUME SchedulerInv, WorkInv, NEW c \in Chats, NEW S \in SUBSET Nat,
           NEW rev \in Nat, IsFiniteSet(S), rev <= MaxSources[c],
           \A s \in S : considered[c] < s /\ s <= rev,
           ~(S \subseteq Range(OfferRecord(c).sources)),
           claims' = [claims EXCEPT ![c] = (@ \cup S) \ Dropped(OfferRecord(c), S)],
           considered' = [considered EXCEPT ![c] = Larger(@, rev)],
           handed' = handed
    PROVE  /\ Handed(c)'
           /\ \E m : /\ m = Merged(OfferRecord(c), S)
                    /\ RefsInv(c, m.sources, m.reported)'
                    /\ Unreported(m) # {}
<1>1. PICK r : r = OfferRecord(c)
    BY Zenon
<1>2. IsRecord(r) /\ RefsInv(c, r.sources, r.reported)
    BY <1>1, OfferRecordFacts, OfferRefs, Zenon
<1>3. PICK m : m = Merged(r, S)
    BY Zenon
<1>4. PICK gone : gone = Range(SubSeq(AllRefs(r, S), 1, Cut(r, S)))
    BY Zenon
<1>5. /\ m.sources \in Seq(Nat) /\ RefsOnce(m.sources)
      /\ m.reported = r.reported \ gone
      /\ Dropped(r, S) = gone \ r.reported
      /\ gone \cap Range(m.sources) = {}
      /\ gone \cup Range(m.sources) = Range(r.sources) \cup S
      /\ (S \ Range(r.sources)) \cap Range(m.sources) # {}
    <2>1. r.sources \in Seq(Nat) /\ RefsOnce(r.sources) /\ S \ Range(r.sources) # {}
        BY <1>1, <1>2, Zenon DEF RefsInv
    <2> QED
        BY <1>2, <1>3, <1>4, <2>1, MergedRefs, Zenon
<1>6. /\ considered[c] \in Nat /\ considered'[c] \in Nat
      /\ considered[c] <= considered'[c] /\ rev <= considered'[c]
    <2>1. considered \in [Chats -> Nat]
        BY Zenon DEF SchedulerInv, Numbers
    <2> QED
        BY <2>1, LargerFacts, Zenon
<1>7. claims'[c] = (claims[c] \cup S) \ (gone \ r.reported)
    BY <1>1, <1>5, Zenon DEF WorkInv
<1>8. Handed(c)
    BY Zenon DEF WorkInv
<1>9. \A s \in S : s \in Sources /\ handed[c][s] = 0 /\ s \in 1..considered'[c]
    <2> TAKE s \in S
    <2>1. s \in Nat /\ s \in 1..MaxSources[c] /\ ~(s <= considered[c])
        BY <1>6, SchedulerAssumption
    <2>2. s \in Sources
        BY <2>1, Zenon DEF Sources
    <2>3. handed[c][s] = 0
        BY <1>8, <2>1, <2>2, Zenon DEF Handed
    <2> QED
        BY <1>6, <2>1, <2>2, <2>3
<1>10. \A s \in 1..considered[c] : s \in 1..considered'[c] /\ s \notin S
    BY <1>6
<1>11. /\ Range(r.sources) \subseteq 1..considered[c]
       /\ r.reported \subseteq 1..considered[c]
       /\ Range(r.sources) \subseteq claims[c]
       /\ \A s \in Range(r.sources) \ r.reported : handed[c][s] = 0
    BY <1>2, Zenon DEF RefsInv
<1>12. /\ Range(m.sources) \subseteq 1..considered'[c]
       /\ m.reported \subseteq 1..considered'[c]
    BY <1>5, <1>9, <1>10, <1>11, ZenonT(30)
<1>13. Range(m.sources) \subseteq claims'[c]
    BY <1>5, <1>7, <1>11, Zenon
<1>14. \A s \in Range(m.sources) \ m.reported : handed[c][s] = 0
    BY <1>5, <1>9, <1>11, ZenonT(30)
<1>15. RefsInv(c, m.sources, m.reported)'
    BY <1>5, <1>12, <1>13, <1>14, Zenon DEF RefsInv
<1>16. Unreported(m) # {}
    <2>1. PICK s \in S : s \in Range(m.sources)
        BY <1>5, ZenonT(30)
    <2>2. s \notin m.reported
        BY <1>5, <1>10, <1>11, Zenon
    <2> QED
        BY <2>1, <2>2, Zenon DEF Unreported
<1>17. Handed(c)'
    <2> SUFFICES ASSUME NEW s \in Sources, handed[c][s] = 1
                 PROVE  s <= considered'[c] /\ s \in claims'[c]
        BY <1>8, Zenon DEF Handed
    <2>1. s <= considered[c] /\ s \in claims[c] /\ s \in Nat
        BY <1>8, SchedulerAssumption DEF Handed, Sources
    <2>2. s \notin gone \ r.reported
        <3> SUFFICES ASSUME s \in gone, s \notin r.reported PROVE FALSE
            BY Zenon
        <3>1. s \in Range(r.sources) \/ s \in S
            BY <1>5, Zenon
        <3>2. handed[c][s] = 0
            BY <1>9, <1>11, <3>1, ZenonT(30)
        <3> QED
            BY <3>2
    <2> QED
        BY <1>6, <1>7, <2>1, <2>2
<1> QED
    BY <1>1, <1>3, <1>15, <1>16, <1>17, Zenon

\* A step that leaves the handed-out sources and the workers, and changes the
\* chat c alone.
LEMMA OneChatChanges ==
    ASSUME WorkInv, NEW c \in Chats, UNCHANGED <<handed, worker>>,
           claims' = [d \in Chats |-> claims'[d]],
           considered'[c] <= registered'[c], registered'[c] <= MaxSources[c],
           Handed(c)', PendingInv(c)',
           \A d \in Chats \ {c} :
               /\ registered'[d] = registered[d] /\ considered'[d] = considered[d]
               /\ claims'[d] = claims[d] /\ pending'[d] = pending[d]
    PROVE  WorkInv'
<1>1. \A d \in Chats \ {c} : Handed(d)'
    BY Zenon DEF WorkInv, Handed
<1>2. \A d \in Chats \ {c} : PendingInv(d)'
    <2> TAKE d \in Chats \ {c}
    <2>1. PendingInv(d) /\ pending'[d] = pending[d]
        BY Zenon DEF WorkInv
    <2>2. \A q, rep : RefsInv(d, q, rep) => RefsInv(d, q, rep)'
        BY Zenon DEF RefsInv
    <2>3. OwnRuns(d) => OwnRuns(d)'
        BY Zenon DEF OwnRuns
    <2>4. PICK x : x = pending[d]
        BY Zenon
    <2> QED
        BY <2>1, <2>2, <2>3, <2>4, Zenon DEF PendingInv, HasRecord, Unreported
<1> QED
    BY <1>1, <1>2, Zenon DEF WorkInv

\* offer_source, whatever it is given beyond the watermark.
LEMMA OfferKeepsWork ==
    ASSUME SchedulerInv, WorkInv, NEW c \in Chats, NEW S \in SUBSET Nat,
           NEW rev \in Nat, IsFiniteSet(S), rev <= MaxSources[c],
           \A s \in S : considered[c] < s /\ s <= rev,
           OfferSource(c, S, rev), UNCHANGED <<handed, worker>>,
           rev <= registered'[c], registered'[c] <= MaxSources[c],
           considered[c] <= registered'[c],
           \A d \in Chats \ {c} : registered'[d] = registered[d]
    PROVE  WorkInv'
<1>0. /\ considered \in [Chats -> Nat] /\ pending = [d \in Chats |-> pending[d]]
      /\ claims = [d \in Chats |-> claims[d]]
      /\ Handed(c) /\ PendingInv(c)
    BY Zenon DEF SchedulerInv, Numbers, Maps, WorkInv
<1>1. CASE UNCHANGED <<claims, considered, pending>>
    <2>1. Handed(c)' /\ PendingInv(c)'
        BY <1>0, <1>1, Zenon DEF Handed, PendingInv, RefsInv, HasRecord, OwnRuns,
           Unreported
    <2> QED
        BY <1>0, <1>1, <2>1, OneChatChanges, Zenon
<1>2. CASE UNCHANGED <<claims, considered>> /\ pending' = [pending EXCEPT ![c] = NoRecord]
    <2>1. Handed(c)' /\ pending'[c] = NoRecord
        BY <1>0, <1>2, ZenonT(30) DEF Handed
    <2>2. PendingInv(c)'
        BY <2>1, Zenon DEF PendingInv, HasRecord
    <2>3. \A d \in Chats \ {c} : pending'[d] = pending[d]
        BY <1>0, <1>2, Zenon
    <2> QED
        BY <1>0, <1>2, <2>1, <2>2, <2>3, OneChatChanges, ZenonT(30)
<1>3. CASE /\ ~(S \subseteq Range(OfferRecord(c).sources))
           /\ claims' = [claims EXCEPT ![c] = (@ \cup S) \ Dropped(OfferRecord(c), S)]
           /\ considered' = [considered EXCEPT ![c] = Larger(@, rev)]
           /\ LET merged == Merged(OfferRecord(c), S)
              IN Enqueued(c, [merged EXCEPT !.rev = Larger(@, rev)])
    <2>1. PICK m : /\ m = Merged(OfferRecord(c), S)
                   /\ RefsInv(c, m.sources, m.reported)'
                   /\ Unreported(m) # {}
        BY <1>3, AcceptedRefs, Zenon
    <2>2. Handed(c)'
        BY <1>3, AcceptedRefs, ZenonT(30)
    <2>3. IsRecord(m)
        BY <2>1, OfferRecordFacts, MergedFacts, Zenon
    <2>4. PICK n : n = [m EXCEPT !.rev = Larger(@, rev)]
        BY Zenon
    <2>5. PICK q : q = [n EXCEPT !.queued = TRUE]
        BY Zenon
    <2>6. IsRecord(n) /\ n.sources = m.sources /\ n.reported = m.reported
        BY <2>3, <2>4, Zenon DEF IsRecord, Fields
    <2>7. IsRecord(q) /\ q.sources = m.sources /\ q.reported = m.reported
        BY <2>5, <2>6, Zenon DEF IsRecord, Fields
    <2>8. Enqueued(c, n)
        BY <1>3, <2>1, <2>4, Zenon
    <2>9. pending' = [pending EXCEPT ![c] = q]
        BY <2>5, <2>8, Zenon DEF Enqueued
    <2>10. pending'[c] = q /\ \A d \in Chats \ {c} : pending'[d] = pending[d]
        BY <1>0, <2>9, Zenon
    <2>11. Unreported(pending'[c]) # {}
        BY <2>1, <2>7, <2>10, Zenon DEF Unreported
    <2>12. PendingInv(c)'
        BY <2>1, <2>7, <2>10, <2>11, Zenon DEF PendingInv, Unreported
    <2>13. /\ claims' = [d \in Chats |-> claims'[d]]
           /\ \A d \in Chats \ {c} : /\ claims'[d] = claims[d]
                                     /\ considered'[d] = considered[d]
        BY <1>0, <1>3, ZenonT(30)
    <2>14. considered'[c] <= registered'[c]
        <3>1. considered'[c] = Larger(considered[c], rev)
            BY <1>0, <1>3, Zenon
        <3> QED
            BY <3>1, Zenon DEF Larger
    <2> QED
        BY <2>2, <2>10, <2>12, <2>13, <2>14, OneChatChanges, ZenonT(30)
<1> QED
    BY <1>1, <1>2, <1>3, ZenonT(30) DEF OfferSource, AcceptOrRelease

\* handle_event and the triggers offer only what lies above the watermark.
LEMMA OfferStepsKeepWork ==
    ASSUME SchedulerInv, WorkInv, NEW c \in Chats,
           Inbound(c) \/ (\E s \in Sources : Redelivered(c, s)) \/ Trigger(c)
    PROVE  WorkInv'
<1>0. /\ registered \in [Chats -> Nat] /\ registered[c] \in Nat /\ considered[c] \in Nat
      /\ considered[c] <= registered[c] /\ registered[c] <= MaxSources[c]
      /\ MaxSources[c] \in Nat
    BY SchedulerAssumption, Zenon DEF SchedulerInv, Numbers, WorkInv
<1>1. IsFiniteSet(Unconsidered(c)) /\ Unconsidered(c) \in SUBSET Nat
      /\ \A s \in Unconsidered(c) : considered[c] < s /\ s <= registered[c]
    <2>1. Unconsidered(c) \in SUBSET (1..registered[c])
        BY ZenonT(30) DEF Unconsidered
    <2>2. IsFiniteSet(1..registered[c])
        BY <1>0, FS_Interval
    <2>3. IsFiniteSet(Unconsidered(c))
        BY <2>1, <2>2, FS_Subset, ZenonT(30)
    <2> QED
        BY <1>0, <2>3 DEF Unconsidered
<1>2. CASE Inbound(c)
    <2>1. PICK n \in Nat : n = registered[c] + 1
        BY <1>0
    <2>2. /\ registered'[c] = n /\ n <= MaxSources[c] /\ considered[c] < n
          /\ \A d \in Chats \ {c} : registered'[d] = registered[d]
        BY <1>0, <1>2, <2>1 DEF Inbound
    <2>3. OfferSource(c, {n}, n) /\ UNCHANGED <<handed, worker>>
        BY <1>2, <2>2, Zenon DEF Inbound
    <2>4. IsFiniteSet({n}) /\ {n} \in SUBSET Nat /\ \A s \in {n} : considered[c] < s /\ s <= n
        <3>1. IsFiniteSet({n})
            BY FS_Singleton, ZenonT(30)
        <3> QED
            BY <2>2, <3>1
    <2> QED
        BY <1>0, <2>1, <2>2, <2>3, <2>4, OfferKeepsWork
<1>3. ASSUME NEW s \in Sources, Redelivered(c, s)
      PROVE  WorkInv'
    <2>1. s \in Nat /\ s <= registered[c] /\ registered' = registered
        BY <1>0, <1>3 DEF Redelivered
    <2>2. PICK S : S = {s} \cap Unconsidered(c)
        BY Zenon
    <2>3. IsFiniteSet(S)
        BY <1>1, <2>2, FS_Intersection, ZenonT(30)
    <2>4. S \in SUBSET Nat /\ \A x \in S : considered[c] < x /\ x <= s
        BY <1>0, <1>1, <2>1, <2>2
    <2>5. OfferSource(c, S, s) /\ UNCHANGED <<handed, worker>>
        BY <1>3, <2>2, Zenon DEF Redelivered
    <2>6. s <= MaxSources[c]
        BY <1>0, <2>1
    <2> QED
        BY <1>0, <2>1, <2>3, <2>4, <2>5, <2>6, OfferKeepsWork, Zenon
<1>4. CASE Trigger(c)
    <2>1. PICK S \in SUBSET Nat : S = Unconsidered(c)
        BY <1>1, Zenon
    <2>2. OfferSource(c, S, registered[c]) /\ UNCHANGED <<handed, worker, registered>>
        BY <1>4, <2>1, Zenon DEF Trigger
    <2> QED
        BY <1>0, <1>1, <2>1, <2>2, OfferKeepsWork
<1> QED
    BY <1>2, <1>3, <1>4, Zenon

\* The steps that hand out nothing and leave the ledger: they may rewrite other
\* fields of pending records, or take records away.
LEMMA RecordsStay ==
    ASSUME WorkInv,
           UNCHANGED <<registered, considered, handed>>,
           claims' = [c \in Chats |-> claims'[c]],
           \A c \in Chats : claims[c] \subseteq claims'[c],
           \A c \in Chats :
               \/ pending'[c] = NoRecord
               \/ /\ HasRecord(c)
                  /\ pending'[c].sources = pending[c].sources
                  /\ pending'[c].reported = pending[c].reported
                  /\ OwnRuns(c) => OwnRuns(c)' \/ Unreported(pending[c]) # {}
    PROVE  WorkInv'
<1>1. \A c \in Chats : Handed(c)'
    BY Zenon DEF WorkInv, Handed
<1>2. ASSUME NEW c \in Chats
      PROVE  PendingInv(c)'
    <2>1. CASE pending'[c] = NoRecord
        BY <2>1, Zenon DEF PendingInv, HasRecord
    <2>2. CASE pending'[c] # NoRecord
        <3>1. /\ RefsInv(c, pending[c].sources, pending[c].reported)
              /\ OwnRuns(c) \/ Unreported(pending[c]) # {}
            BY <2>2, Zenon DEF WorkInv, PendingInv
        <3>2. \A q, rep : RefsInv(c, q, rep) => RefsInv(c, q, rep)'
            BY Zenon DEF RefsInv
        <3>3. Unreported(pending'[c]) = Unreported(pending[c])
            BY <2>2, Zenon DEF Unreported
        <3>4. PICK x : x = pending'[c]
            BY Zenon
        <3>5. RefsInv(c, x.sources, x.reported)'
            BY <2>2, <3>1, <3>2, <3>4, Zenon
        <3>6. OwnRuns(c)' \/ Unreported(x) # {}
            BY <2>2, <3>1, <3>3, <3>4, ZenonT(30)
        <3> QED
            BY <3>4, <3>5, <3>6, ZenonT(30) DEF PendingInv, Unreported
    <2> QED
        BY <2>1, <2>2, Zenon
<1> QED
    BY <1>1, <1>2, Zenon DEF WorkInv

LEMMA SmallStepsKeepWork ==
    ASSUME SchedulerInv, WorkInv,
           \/ AdvanceEpoch \/ UNCHANGED vars
           \/ \E c \in Chats : Age(c) \/ DirectFinished(c)
    PROVE  WorkInv'
<1>1. UNCHANGED <<registered, considered, handed, claims, worker>>
    BY Zenon DEF AdvanceEpoch, Age, DirectFinished, vars, ledger
<1>2. claims = [c \in Chats |-> claims[c]] /\ pending = [c \in Chats |-> pending[c]]
    BY Zenon DEF WorkInv, SchedulerInv, Maps
<1>3. \A c \in Chats : OwnRuns(c) => OwnRuns(c)'
    BY <1>1, ZenonT(30) DEF OwnRuns
<1>4. \A c \in Chats : \/ pending'[c] = NoRecord
                       \/ /\ HasRecord(c)
                          /\ pending'[c].sources = pending[c].sources
                          /\ pending'[c].reported = pending[c].reported
    <2>1. CASE pending' = pending
        BY <2>1, Zenon DEF HasRecord
    <2>2. ASSUME NEW d \in Chats, Age(d), NEW c \in Chats
          PROVE  \/ pending'[c] = NoRecord
                 \/ /\ HasRecord(c)
                    /\ pending'[c].sources = pending[c].sources
                    /\ pending'[c].reported = pending[c].reported
        <3>1. PICK r : r = pending[d]
            BY Zenon
        <3>2. HasRecord(d) /\ IsRecord(r)
            BY <2>2, <3>1, Zenon DEF SchedulerInv, Covered, Age, HasRecord
        <3>3. PICK x : x = [r EXCEPT !.old = TRUE]
            BY Zenon
        <3>4. x.sources = r.sources /\ x.reported = r.reported
            BY <3>2, <3>3, Zenon DEF IsRecord, Fields
        <3>5. pending' = [pending EXCEPT ![d] = x]
            BY <2>2, <3>1, <3>3, Zenon DEF Age
        <3> QED
            BY <1>2, <3>1, <3>2, <3>4, <3>5, Zenon DEF HasRecord
    <2> QED
        BY <2>1, <2>2, Zenon DEF AdvanceEpoch, DirectFinished, vars
<1> QED
    BY <1>1, <1>2, <1>3, <1>4, RecordsStay, Zenon

\* A handler starts on what its record has not reported: nothing of it was
\* handed out before.
LEMMA PopKeepsWork ==
    ASSUME SchedulerInv, WorkInv, NEW w \in Workers, Pop(w)
    PROVE  WorkInv'
<1>1. PICK c \in Chats : c = Head(ready)
    BY QueueFacts DEF SchedulerInv, Numbers, Pop
<1>2. /\ UNCHANGED <<registered, considered, claims>>
      /\ claims = [d \in Chats |-> claims[d]] /\ pending = [d \in Chats |-> pending[d]]
      /\ worker = [v \in Workers |-> worker[v]]
      /\ worker[w] = Idle /\ \A d \in Chats : considered[d] \in Nat
    BY Zenon DEF WorkInv, SchedulerInv, Maps, Numbers, Pop, ledger
<1>3. PICK p : p = pending[c]
    BY Zenon
<1>4. PICK r : r = [p EXCEPT !.queued = FALSE]
    BY Zenon
<1>5. HasRecord(c) => /\ IsRecord(p) /\ IsRecord(r)
                      /\ r.sources = p.sources /\ r.reported = p.reported
    <2>1. HasRecord(c) => IsRecord(p)
        BY <1>3, Zenon DEF SchedulerInv, Covered, HasRecord
    <2>2. IsRecord(p) => /\ IsRecord(r)
                         /\ r.sources = p.sources /\ r.reported = p.reported
        BY <1>4, Zenon DEF IsRecord, Fields
    <2> QED
        BY <2>1, <2>2, Zenon
<1>6. CASE UNCHANGED <<handed, worker, pending>>
    <2>1. \A d \in Chats : OwnRuns(d) => OwnRuns(d)'
        BY <1>6, Zenon DEF OwnRuns
    <2> QED
        BY <1>2, <1>6, <2>1, RecordsStay, Zenon DEF HasRecord
<1>7. CASE /\ UNCHANGED <<handed, worker>> /\ HasRecord(c)
           /\ pending' = [pending EXCEPT ![c] = r]
    <2>1. \A d \in Chats : OwnRuns(d) => OwnRuns(d)'
        BY <1>7, Zenon DEF OwnRuns
    <2>2. pending'[c] = r /\ \A d \in Chats \ {c} : pending'[d] = pending[d]
        BY <1>2, <1>7, Zenon
    <2>3. \A d \in Chats : \/ pending'[d] = NoRecord
                           \/ /\ HasRecord(d)
                              /\ pending'[d].sources = pending[d].sources
                              /\ pending'[d].reported = pending[d].reported
        BY <1>3, <1>5, <1>7, <2>2, Zenon DEF HasRecord
    <2> QED
        BY <1>2, <1>7, <2>1, <2>3, RecordsStay, ZenonT(30)
<1>8. CASE /\ UNCHANGED <<handed, worker>>
           /\ pending' = [pending EXCEPT ![c] = NoRecord]
    <2>1. \A d \in Chats : OwnRuns(d) => OwnRuns(d)'
        BY <1>8, Zenon DEF OwnRuns
    <2>2. pending'[c] = NoRecord /\ \A d \in Chats \ {c} : pending'[d] = pending[d]
        BY <1>2, <1>8, Zenon
    <2> QED
        BY <1>2, <1>8, <2>1, <2>2, RecordsStay, ZenonT(30) DEF HasRecord
<1>9. CASE /\ HasRecord(c) /\ c \notin Active
           /\ pending' = [pending EXCEPT ![c] = Reported(r)]
           /\ HandOut(c, GivenTo(r))
           /\ worker' = [worker EXCEPT ![w] = Running(c, NoRecord)]
    <2>1. ~OwnRuns(c)
        BY <1>9, RunningFacts DEF OwnRuns, Active
    <2>2. /\ RefsInv(c, p.sources, p.reported) /\ Unreported(p) # {} /\ Handed(c)
          /\ handed \in [Chats -> [Sources -> Nat]]
        BY <1>3, <1>9, <2>1, ZenonT(30) DEF WorkInv, PendingInv
    <2>3. GivenTo(r) = Range(p.sources) \ p.reported
        BY <1>5, <1>9, <2>2, Zenon DEF GivenTo, Unreported
    <2>4. PICK G : G = Range(p.sources) \ p.reported
        BY ZenonT(30)
    <2>5. \A s \in G : s \in 1..considered[c] /\ handed[c][s] = 0 /\ s \in claims[c]
        BY <2>2, <2>4, Zenon DEF RefsInv
    <2>6. /\ \A s \in Sources : handed'[c][s] = IF s \in G THEN handed[c][s] + 1
                                                ELSE handed[c][s]
          /\ \A d \in Chats \ {c} : handed'[d] = handed[d]
          /\ handed' \in [Chats -> [Sources -> Nat]]
        <3>1. handed' = [handed EXCEPT ![c] =
                    [s \in Sources |-> IF s \in G THEN handed[c][s] + 1 ELSE handed[c][s]]]
            BY <1>9, <2>3, <2>4, Zenon DEF HandOut
        <3> QED
            BY <2>2, <3>1
    <2>7. Handed(c)'
        <3> SUFFICES ASSUME NEW s \in Sources
                     PROVE  /\ handed'[c][s] \in {0, 1}
                            /\ handed'[c][s] = 1 => s <= considered[c] /\ s \in claims[c]
            BY <1>2, ZenonT(30) DEF Handed
        <3>1. CASE s \in G
            BY <1>2, <2>5, <2>6, <3>1
        <3>2. CASE s \notin G
            BY <2>2, <2>6, <3>2, Zenon DEF Handed
        <3> QED
            BY <3>1, <3>2, Zenon
    <2>8. PICK x : x = Reported(r)
        BY Zenon
    <2>9. x.sources = p.sources /\ x.reported = p.reported \cup Range(p.sources)
        <3>1. PICK y : y = r.reported \cup Range(r.sources)
            BY Zenon
        <3>2. x = [r EXCEPT !.reported = y]
            BY <2>8, <3>1, Zenon DEF Reported
        <3>3. x.sources = r.sources /\ x.reported = y
            BY <1>5, <1>9, <3>2, Zenon DEF IsRecord, Fields
        <3> QED
            BY <1>5, <1>9, <3>1, <3>3, ZenonT(30)
    <2>10. pending'[c] = x /\ \A d \in Chats \ {c} : pending'[d] = pending[d]
        BY <1>2, <1>9, <2>8, Zenon
    <2>11. RefsInv(c, x.sources, x.reported)'
        BY <1>2, <2>2, <2>9, Zenon DEF RefsInv
    <2>12. worker'[w] = Running(c, NoRecord)
        BY <1>2, <1>9, Zenon
    <2>13. PendingInv(c)'
        BY <2>10, <2>11, <2>12, Zenon DEF PendingInv, OwnRuns
    <2>14. ASSUME NEW d \in Chats \ {c}
           PROVE  Handed(d)' /\ PendingInv(d)'
        <3>1. Handed(d)'
            BY <1>2, <2>6, Zenon DEF Handed, WorkInv
        <3>2. OwnRuns(d) => OwnRuns(d)'
            BY <1>2, <1>9, RunningFacts DEF OwnRuns
        <3>3. \A q, rep : RefsInv(d, q, rep) => RefsInv(d, q, rep)'
            BY <1>2, <2>6, Zenon DEF RefsInv
        <3>4. PICK y : y = pending[d]
            BY Zenon
        <3>5. pending'[d] = y /\ PendingInv(d)
            BY <2>10, <3>4, Zenon DEF WorkInv
        <3> QED
            BY <3>1, <3>2, <3>3, <3>4, <3>5, ZenonT(30) DEF PendingInv, HasRecord, Unreported
    <2> QED
        BY <1>2, <2>6, <2>7, <2>13, <2>14, ZenonT(30) DEF WorkInv
<1> QED
    BY <1>1, <1>3, <1>4, <1>6, <1>7, <1>8, <1>9, Zenon DEF Pop

\* A handler that ends leaves a pending record only if that has something left
\* to report.
LEMMA HandlerEndsKeepsWork ==
    ASSUME SchedulerInv, WorkInv, NEW w \in Workers, HandlerEnds(w)
    PROVE  WorkInv'
<1>1. /\ UNCHANGED <<registered, considered, handed, claims>>
      /\ claims = [d \in Chats |-> claims[d]] /\ pending = [d \in Chats |-> pending[d]]
      /\ worker = [v \in Workers |-> worker[v]]
    BY Zenon DEF WorkInv, SchedulerInv, Maps, HandlerEnds, ledger
<1>2. PICK c \in Chats : worker[w] # Idle /\ c = worker[w].chat
    BY Zenon DEF SchedulerInv, WorkerInv, HandlerEnds
<1>3. PICK own : own = worker[w].own /\ (own = NoRecord => HasRecord(c))
    BY <1>2, Zenon DEF SchedulerInv, WorkerInv
<1>4. \A v \in Workers \ {w} : worker'[v] = worker[v]
    BY <1>1, Zenon DEF HandlerEnds
<1>5. ASSUME NEW d \in Chats, OwnRuns(d), d # c \/ own # NoRecord
      PROVE  OwnRuns(d)'
    <2>1. PICK v \in Workers : worker[v] = Running(d, NoRecord)
        BY <1>5, Zenon DEF OwnRuns
    <2>2. v # w
        BY <1>2, <1>3, <1>5, <2>1, RunningFacts
    <2> QED
        BY <1>4, <2>1, <2>2, Zenon DEF OwnRuns
<1>6. CASE own # NoRecord
    <2>1. UNCHANGED pending
        BY <1>3, <1>6, ZenonT(30) DEF HandlerEnds
    <2> QED
        BY <1>1, <1>5, <1>6, <2>1, RecordsStay, ZenonT(30) DEF HasRecord
<1>7. CASE own = NoRecord
    <2>1. PICK r : r = pending[c]
        OBVIOUS
    <2>2. PICK q : q = [r EXCEPT !.queued = TRUE]
        BY Zenon
    <2>3. IsRecord(r) /\ HasRecord(c)
        BY <1>3, <1>7, <2>1, Zenon DEF SchedulerInv, Covered, HasRecord
    <2>4. q.sources = r.sources /\ q.reported = r.reported
        BY <2>2, <2>3, Zenon DEF IsRecord, Fields
    <2>5. Retire(c)
        BY <1>2, <1>3, <1>7, Zenon DEF HandlerEnds
    <2>6. \/ pending' = [pending EXCEPT ![c] = NoRecord]
          \/ pending' = [pending EXCEPT ![c] = q] /\ Unreported(r) # {}
        BY <2>1, <2>2, <2>5, Zenon DEF Retire, Enqueued
    <2>7. \A d \in Chats \ {c} : pending'[d] = pending[d]
        BY <1>1, <2>6, Zenon
    <2>8. \/ pending'[c] = NoRecord
          \/ pending'[c] = q /\ Unreported(r) # {}
        BY <1>1, <2>6, Zenon
    <2>9. ASSUME NEW d \in Chats
          PROVE  \/ pending'[d] = NoRecord
                 \/ /\ HasRecord(d)
                    /\ pending'[d].sources = pending[d].sources
                    /\ pending'[d].reported = pending[d].reported
                    /\ OwnRuns(d) => OwnRuns(d)' \/ Unreported(pending[d]) # {}
        <3>1. CASE d = c
            BY <2>1, <2>3, <2>4, <2>8, <3>1, Zenon
        <3>2. CASE d # c
            BY <1>5, <2>7, <3>2, Zenon DEF HasRecord
        <3> QED
            BY <3>1, <3>2, Zenon
    <2> QED
        BY <1>1, <2>9, RecordsStay, Zenon
<1> QED
    BY <1>6, <1>7, Zenon

LEMMA CancelStepsKeepWork ==
    ASSUME SchedulerInv, WorkInv, NEW c \in Chats,
           DirectRequest(c) \/ DirectRedelivered(c)
    PROVE  WorkInv'
<1>1. /\ CancelChat(c) /\ UNCHANGED <<registered, considered, handed, claims>>
    BY Zenon DEF DirectRequest, DirectRedelivered, ledger
<1>2. claims = [d \in Chats |-> claims[d]] /\ pending = [d \in Chats |-> pending[d]]
    BY Zenon DEF WorkInv, SchedulerInv, Maps
<1>3. pending'[c] = NoRecord /\ \A d \in Chats \ {c} : pending'[d] = pending[d]
    BY <1>1, <1>2, Zenon DEF CancelChat
<1>4. ASSUME NEW d \in Chats \ {c}, OwnRuns(d)
      PROVE  OwnRuns(d)'
    <2>1. PICK v \in Workers : worker[v] = Running(d, NoRecord)
        BY <1>4, Zenon DEF OwnRuns
    <2>2. worker[v] # Running(c, NoRecord)
        BY <2>1, RunningFacts
    <2>3. worker'[v] = worker[v]
        BY <1>1, <2>2, Zenon DEF CancelChat
    <2> QED
        BY <2>1, <2>3, Zenon DEF OwnRuns
<1> QED
    BY <1>1, <1>2, <1>3, <1>4, RecordsStay, ZenonT(30) DEF HasRecord

\* A restart forgets the records; claims of an offer that was cut short remain.
LEMMA RestartKeepsWork ==
    ASSUME SchedulerInv, WorkInv, Restart
    PROVE  WorkInv'
<1>1. UNCHANGED <<registered, considered, handed>> /\ pending' = [c \in Chats |-> NoRecord]
    BY Zenon DEF Restart
<1>2. PICK c \in Chats : \E S : claims' = [claims EXCEPT ![c] = @ \cup S]
    BY Zenon DEF Restart
<1>3. claims = [d \in Chats |-> claims[d]]
    BY Zenon DEF WorkInv
<1>4. claims' = [d \in Chats |-> claims'[d]] /\ \A d \in Chats : claims[d] \subseteq claims'[d]
    BY <1>2, <1>3, Zenon
<1> QED
    BY <1>1, <1>4, RecordsStay, ZenonT(30)

LEMMA WorkInit == Init => WorkInv
<1> SUFFICES ASSUME Init PROVE WorkInv
    OBVIOUS
<1>1. \A c \in Chats : considered[c] = 0 /\ registered[c] = 0 /\ MaxSources[c] \in Nat
    BY SchedulerAssumption, Zenon DEF Init
<1>2. handed \in [Chats -> [Sources -> Nat]] /\ claims = [c \in Chats |-> claims[c]]
    BY Zenon DEF Init
<1>3. \A c \in Chats : Handed(c) /\ PendingInv(c)
    BY DEF Init, Handed, PendingInv, HasRecord
<1> QED
    BY <1>1, <1>2, <1>3 DEF WorkInv

LEMMA WorkStep == SchedulerInv /\ WorkInv /\ [Next]_vars => WorkInv'
<1> SUFFICES ASSUME SchedulerInv, WorkInv, [Next]_vars PROVE WorkInv'
    OBVIOUS
<1>1. ASSUME NEW c \in Chats, Step(c)
      PROVE  WorkInv'
    BY <1>1, OfferStepsKeepWork, SmallStepsKeepWork, CancelStepsKeepWork, Zenon DEF Step
<1>2. ASSUME NEW w \in Workers, Pop(w) \/ HandlerEnds(w)
      PROVE  WorkInv'
    BY <1>2, PopKeepsWork, HandlerEndsKeepsWork, Zenon
<1>3. CASE AdvanceEpoch \/ UNCHANGED vars
    BY <1>3, SmallStepsKeepWork, Zenon
<1>4. CASE Restart
    BY <1>4, RestartKeepsWork, Zenon
<1> QED
    BY <1>1, <1>2, <1>3, <1>4, Zenon DEF Next

\* No source reaches a decision handler twice: repeated triggers, redelivered
\* messages, merges, changed epochs, cancelled handlers and restarts included
\* (unreported, _retire and the considered watermark).
THEOREM SourcesAreHandedOnce == Spec => []NeverHandedTwice
<1>1. WorkInv => NeverHandedTwice
    BY DEF WorkInv, Handed, NeverHandedTwice
<1> QED
    BY <1>1, SchedulerInit, SchedulerStep, WorkInit, WorkStep, PTL DEF Spec

\* Every source that waits in a record or was handed out has its claim
\* (offer_source claims first and gives back only what no record has).
THEOREM WorkIsClaimed == Spec => []ClaimsCoverWork
<1>1. WorkInv => ClaimsCoverWork
    BY DEF WorkInv, Handed, PendingInv, RefsInv, ClaimsCoverWork
<1> QED
    BY <1>1, SchedulerInit, SchedulerStep, WorkInit, WorkStep, PTL DEF Spec

-----------------------------------------------------------------------------
\* The limits.
Recorded == {c \in Chats : HasRecord(c)}

\* Counting the records is only meaningful while there are finitely many.
LimitInv == IsFiniteSet(Recorded) /\ WithinLimits

LEMMA OfferedLength ==
    ASSUME SchedulerInv, WorkInv, SchedulerInv', NEW c \in Chats,
           NEW S \in SUBSET (1..registered'[c])
    PROVE  Len(Merged(OfferRecord(c), S).sources) <= MaxRefs
<1>1. registered'[c] \in Nat
    BY Zenon DEF SchedulerInv, Numbers
<1>2. PICK r : r = OfferRecord(c)
    BY Zenon
<1>3. IsRecord(r) /\ r.sources \in Seq(Nat) /\ RefsOnce(r.sources)
    BY <1>2, OfferRecordFacts, OfferRefs, Zenon DEF RefsInv
<1>4. 1..registered'[c] \in SUBSET Nat /\ IsFiniteSet(1..registered'[c])
    BY <1>1, FS_Interval
<1>5. S \in SUBSET Nat /\ IsFiniteSet(S)
    BY <1>4, FS_Subset, Zenon
<1> QED
    BY <1>2, <1>3, <1>5, MergedRefs, ZenonT(30)

\* No step leaves more records than the limit, or more references in one.
LEMMA CountStep ==
    ASSUME SchedulerInv, LimitInv, [Next]_vars
    PROVE  /\ IsFiniteSet(Recorded') /\ Cardinality(Recorded') <= MaxPending
<1>1. MaxPending \in Nat
    BY SchedulerAssumption, Zenon
<1>2. IsFiniteSet(Recorded) /\ Cardinality(Recorded) <= MaxPending
    BY Zenon DEF LimitInv, WithinLimits, Recorded
<1>3. CASE Recorded' \subseteq Recorded
    <2>1. IsFiniteSet(Recorded') /\ Cardinality(Recorded') <= Cardinality(Recorded)
        BY <1>2, <1>3, FS_Subset, Zenon
    <2>2. Cardinality(Recorded) \in Nat /\ Cardinality(Recorded') \in Nat
        BY <1>2, <2>1, FS_CardinalityType, Zenon
    <2> QED
        BY <1>1, <1>2, <2>1, <2>2
<1>4. ASSUME NEW c \in Chats, Recorded' \subseteq Recorded \cup {c}, ~HasRecord(c),
             ~(Cardinality(Recorded) >= MaxPending)
      PROVE  IsFiniteSet(Recorded') /\ Cardinality(Recorded') <= MaxPending
    <2>1. c \notin Recorded
        BY <1>4, Zenon DEF Recorded
    <2>2. /\ IsFiniteSet(Recorded \cup {c})
          /\ Cardinality(Recorded \cup {c}) = Cardinality(Recorded) + 1
        BY <1>2, <2>1, FS_AddElement, Zenon
    <2>3. /\ IsFiniteSet(Recorded')
          /\ Cardinality(Recorded') <= Cardinality(Recorded \cup {c})
        BY <1>4, <2>2, FS_Subset, Zenon
    <2>4. Cardinality(Recorded) \in Nat /\ Cardinality(Recorded') \in Nat
        BY <1>2, <2>3, FS_CardinalityType, Zenon
    <2> QED
        BY <1>1, <1>4, <2>2, <2>3, <2>4
<1>5. CASE pending' = pending \/ pending' = [c \in Chats |-> NoRecord]
    BY <1>3, <1>5, Zenon DEF Recorded, HasRecord
<1>6. CASE OneRecordMoves
    <2>1. PICK c \in Chats :
             /\ \A b \in Chats \ {c} : pending'[b] = pending[b]
             /\ Taken(c) \/ Aged(c) \/ Popped(c) \/ PutBack(c) \/ Offered(c)
        BY <1>6, Zenon DEF OneRecordMoves
    <2>2. Recorded' \subseteq Recorded \cup {c}
        BY <2>1, Zenon DEF Recorded, HasRecord
    <2>3. CASE HasRecord(c) \/ ~HasRecord(c)'
        BY <1>3, <2>2, <2>3, Zenon DEF Recorded
    <2>4. CASE ~HasRecord(c) /\ HasRecord(c)'
        <3>1. Offered(c)
            BY <2>1, <2>4, Zenon DEF Taken, Aged, Popped, PutBack, HasRecord
        <3>2. ~(Cardinality(Recorded) >= MaxPending)
            BY <2>4, <3>1, Zenon DEF Offered, Recorded
        <3> QED
            BY <1>4, <2>2, <2>4, <3>2, ZenonT(30)
    <2> QED
        BY <2>3, <2>4, Zenon
<1> QED
    BY <1>5, <1>6, RecordsMove, Zenon

LEMMA LengthStep ==
    ASSUME SchedulerInv, WorkInv, SchedulerInv', WithinLimits, [Next]_vars,
           NEW d \in Chats, HasRecord(d)'
    PROVE  Len(pending'[d].sources) <= MaxRefs
<1>1. HasRecord(d) => Len(pending[d].sources) <= MaxRefs
    BY Zenon DEF WithinLimits
<1>2. CASE pending' = pending \/ pending' = [c \in Chats |-> NoRecord]
    BY <1>1, <1>2, Zenon DEF HasRecord
<1>3. CASE OneRecordMoves
    <2>1. PICK c \in Chats :
             /\ \A b \in Chats \ {c} : pending'[b] = pending[b]
             /\ Taken(c) \/ Aged(c) \/ Popped(c) \/ PutBack(c) \/ Offered(c)
        BY <1>3, Zenon DEF OneRecordMoves
    <2>2. CASE d # c
        BY <1>1, <2>1, <2>2, ZenonT(30) DEF HasRecord
    <2>3. CASE d = c
        <3>1. CASE Offered(c)
            BY <2>3, <3>1, OfferedLength, ZenonT(30) DEF Offered
        <3>2. CASE Taken(c) \/ Aged(c) \/ Popped(c) \/ PutBack(c)
            BY <1>1, <2>3, <3>2, Zenon DEF Taken, Aged, Popped, PutBack, HasRecord
        <3> QED
            BY <2>1, <3>1, <3>2, Zenon
    <2> QED
        BY <2>2, <2>3, Zenon
<1> QED
    BY <1>2, <1>3, RecordsMove, ZenonT(30)

\* The scheduler keeps at most max_pending_chats records, each with at most
\* max_pending_source_refs references, however the offers, cancellations and restarts
\* interleave (offer_with_result, _merge_sources).
THEOREM LimitsHold == Spec => []WithinLimits
<1>1. Init => LimitInv
    <2> SUFFICES ASSUME Init PROVE LimitInv
        OBVIOUS
    <2>1. Recorded = {} /\ \A c \in Chats : ~HasRecord(c)
        BY Zenon DEF Init, Recorded, HasRecord
    <2>2. IsFiniteSet(Recorded) /\ Cardinality(Recorded) = 0
        BY <2>1, FS_EmptySet, Zenon
    <2>3. MaxPending \in Nat
        BY SchedulerAssumption, Zenon
    <2> QED
        BY <2>1, <2>2, <2>3 DEF LimitInv, WithinLimits, Recorded
<1>2. SchedulerInv /\ WorkInv /\ SchedulerInv' /\ LimitInv /\ [Next]_vars => LimitInv'
    <2> SUFFICES ASSUME SchedulerInv, WorkInv, SchedulerInv', LimitInv, [Next]_vars
                 PROVE  LimitInv'
        BY Zenon
    <2>1. IsFiniteSet(Recorded') /\ Cardinality(Recorded') <= MaxPending
        BY CountStep, Zenon
    <2>2. \A d \in Chats : HasRecord(d)' => Len(pending'[d].sources) <= MaxRefs
        BY LengthStep, Zenon DEF LimitInv
    <2> QED
        BY <2>1, <2>2, Zenon DEF LimitInv, WithinLimits, Recorded
<1>3. LimitInv => WithinLimits
    BY DEF LimitInv
<1> QED
    BY <1>1, <1>2, <1>3, SchedulerInit, SchedulerStep, WorkInit, WorkStep, PTL DEF Spec
=============================================================================
