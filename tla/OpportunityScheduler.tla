------------------------- MODULE OpportunityScheduler --------------------------
(***************************************************************************)
(* How observed messages become evaluations of the participation lane:     *)
(* the ingress registers a message as a source with a per-chat revision    *)
(* (ParticipationIngress.handle_event, participation_material), the        *)
(* runtime claims the source and offers it (ParticipationRuntime.          *)
(* offer_source), the scheduler merges it into the one pending record of   *)
(* the chat, and a fixed pool of workers hands the record's new sources to *)
(* the decision handler (OpportunityScheduler, consciousness/              *)
(* opportunities.py).  A direct request fences the chat (_fence_direct,    *)
(* processing/policy.py).  Revisions, claims, the considered watermark,    *)
(* the activation epoch and the direct admissions are rows of two          *)
(* databases and survive a crash; the scheduler does not.                  *)
(*                                                                         *)
(* Everything here runs on one event loop: what happens between two awaits *)
(* is one action.  The source with revision n of a chat is the number n.   *)
(***************************************************************************)
EXTENDS Integers, Sequences, FiniteSets, Functions

CONSTANTS
    Chats,
    Workers,      \* max_concurrent_decisions tasks
    MaxPending,   \* max_pending_chats
    MaxRefs,      \* max_pending_source_refs
    MaxSources,   \* bound: messages of each chat
    MaxEpoch,     \* bound: activation epochs
    MaxDirect,    \* bound: direct requests of each chat
    MaxCrashes    \* bound: restarts

ASSUME SchedulerAssumption ==
    /\ MaxPending \in Nat \ {0} /\ MaxRefs \in Nat \ {0}
    /\ MaxSources \in [Chats -> Nat] /\ MaxDirect \in [Chats -> Nat]
    /\ MaxEpoch \in Nat \ {0} /\ MaxCrashes \in Nat

VARIABLES
    \* the ledger and the processing store
    registered,   \* source_revisions: the number of sources
    considered,   \* chat_revisions: the production watermark
    claims,       \* source_claims
    epoch,        \* activation_state
    admitted,     \* direct_admissions: rows of the chat
    direct,       \* ... those in state active
    \* the scheduler
    pending,      \* _pending
    ready,        \* _ready
    cancelled,    \* _cancelled
    evaluated,    \* _evaluated_revision; 0 for a chat without one
    hydrated,     \* _hydrated_chats
    worker,       \* the tasks, and the record each runs
    handed,       \* history: how often a source was handed to a handler
    crashes

ledger == <<registered, considered, claims, epoch, admitted, direct>>
vars == <<ledger, pending, ready, cancelled, evaluated, hydrated, worker,
          handed, crashes>>

Sources == UNION {1..MaxSources[c] : c \in Chats}
Revisions == {0} \cup Sources
NoRecord == [sources |-> <<>>]
Idle == [chat |-> "none"]

\* A worker inside its handler.  It holds a reference to its record: as long as
\* that is the pending one of the chat, `own` is NoRecord and the pending map
\* has its contents, otherwise `own` has the record that was cancelled.
Running(c, own) == [chat |-> c, own |-> own]

Active == {worker[w].chat : w \in {v \in Workers : worker[v] # Idle}}
HasRecord(c) == pending[c] # NoRecord

\* _PendingChat.unreported
Unreported(r) == Range(r.sources) \ r.reported

Record(e) == [sources |-> <<>>, reported |-> {}, rev |-> 0, epoch |-> e,
              queued |-> FALSE, old |-> FALSE]

TypeOK ==
    LET records == [sources : UNION {[1..n -> Sources] : n \in 0..MaxRefs},
                    reported : SUBSET Sources, rev : Revisions,
                    epoch : 1..MaxEpoch, queued : BOOLEAN, old : BOOLEAN]
    IN /\ registered \in [Chats -> Revisions]
       /\ considered \in [Chats -> Revisions]
       /\ claims \in [Chats -> SUBSET Sources]
       /\ epoch \in 1..MaxEpoch
       /\ admitted \in [Chats -> Nat]
       /\ direct \in [Chats -> Nat]
       /\ pending \in [Chats -> records \cup {NoRecord}]
       /\ ready \in Seq(Chats)
       /\ cancelled \subseteq Chats /\ hydrated \subseteq Chats
       /\ evaluated \in [Chats -> Revisions]
       /\ worker \in [Workers -> {Idle} \cup
                         [chat : Chats, own : records \cup {NoRecord}]]
       /\ handed \in [Chats -> [Sources -> Nat]]
       /\ crashes \in 0..MaxCrashes

Init ==
    /\ registered = [c \in Chats |-> 0]
    /\ considered = [c \in Chats |-> 0]
    /\ claims = [c \in Chats |-> {}]
    /\ epoch = 1
    /\ admitted = [c \in Chats |-> 0]
    /\ direct = [c \in Chats |-> 0]
    /\ pending = [c \in Chats |-> NoRecord]
    /\ ready = <<>>
    /\ cancelled = {}
    /\ evaluated = [c \in Chats |-> 0]
    /\ hydrated = {}
    /\ worker = [w \in Workers |-> Idle]
    /\ handed = [c \in Chats |-> [s \in Sources |-> 0]]
    /\ crashes = 0

-----------------------------------------------------------------------------
\* Offering

Larger(a, b) == IF a > b THEN a ELSE b

\* material_for_opportunity: registered and beyond the watermark.
Unconsidered(c) == {s \in 1..registered[c] : s > considered[c]}

\* _merge_sources: the newest MaxRefs references are kept (its bound on bytes
\* drops from the same end).  Dropped are the references that no handler was
\* given.
Sorted(S) ==
    CHOOSE q \in [1..Cardinality(S) -> S] :
        \A i, j \in 1..Cardinality(S) : i < j => q[i] < q[j]
AllRefs(r, S) == r.sources \o Sorted(S \ Range(r.sources))
Cut(r, S) == Larger(0, Len(AllRefs(r, S)) - MaxRefs)

\* A mutated _drop_oldest that returns every dropped reference.
DroppedReportedToo(r, S) == Range(SubSeq(AllRefs(r, S), 1, Cut(r, S)))

Dropped(r, S) == Range(SubSeq(AllRefs(r, S), 1, Cut(r, S))) \ r.reported

Merged(r, S) ==
    LET gone == Range(SubSeq(AllRefs(r, S), 1, Cut(r, S)))
    IN [r EXCEPT !.sources = SubSeq(AllRefs(r, S), Cut(r, S) + 1, Len(AllRefs(r, S))),
                 !.reported = @ \ gone]

\* offer_with_result: a new record, the pending one, or the pending one emptied
\* because the activation epoch has changed.
OfferRecord(c) ==
    IF ~HasRecord(c) THEN Record(epoch)
    ELSE IF pending[c].epoch = epoch THEN pending[c]
    ELSE [pending[c] EXCEPT !.sources = <<>>, !.rev = 0, !.epoch = epoch,
                            !.old = FALSE]

\* offer_with_result turns the offer away before it looks at the sources.
Rejects(c, rev) ==
    \/ c \in cancelled
    \/ /\ ~HasRecord(c)
       /\ \/ rev <= evaluated'[c]
          \/ Cardinality({d \in Chats : HasRecord(d)}) >= MaxPending

\* _ready.append for a record that is not queued.
Enqueued(c, r) ==
    /\ pending' = [pending EXCEPT ![c] = [r EXCEPT !.queued = TRUE]]
    /\ ready' = IF r.queued THEN ready ELSE Append(ready, c)

\* _hydrate_considered_revision
Hydrate(c) ==
    /\ hydrated' = hydrated \cup {c}
    /\ evaluated' = IF c \in hydrated THEN evaluated
                    ELSE [evaluated EXCEPT ![c] = Larger(@, considered[c])]

\* The rest of offer_source once the chat is ready: the sources are claimed, a
\* rejected offer gives back the new claims, an accepted one those of dropped
\* references, and moves the watermark.  An offer without new references is a
\* duplicate; it removes a record that has nothing left to report.
AcceptOrRelease(c, S, rev) ==
    LET r == OfferRecord(c) IN
    IF Rejects(c, rev)
    THEN UNCHANGED <<claims, considered, pending, ready>>
    ELSE IF S \subseteq Range(r.sources)
    THEN /\ pending' = IF c \notin Active /\ Unreported(r) = {}
                       THEN [pending EXCEPT ![c] = NoRecord] ELSE pending
         /\ UNCHANGED <<claims, considered, ready>>
    ELSE /\ claims' = [claims EXCEPT ![c] = (@ \cup S) \ Dropped(r, S)]
         /\ considered' = [considered EXCEPT ![c] = Larger(@, rev)]
         /\ LET merged == Merged(r, S)
            IN Enqueued(c, [merged EXCEPT !.rev = Larger(@, rev)])

\* offer_source: nothing happens while direct work is active.
OfferSource(c, S, rev) ==
    IF direct[c] > 0 \/ S = {}
    THEN UNCHANGED <<claims, considered, pending, ready, hydrated, evaluated>>
    ELSE Hydrate(c) /\ AcceptOrRelease(c, S, rev)

\* handle_event: a new message is registered and offered.
Inbound(c) ==
    /\ registered[c] < MaxSources[c]
    /\ registered' = [registered EXCEPT ![c] = @ + 1]
    /\ OfferSource(c, {registered'[c]}, registered'[c])
    /\ UNCHANGED <<epoch, admitted, direct, cancelled, worker, handed, crashes>>

\* handle_event for a message that is already registered.
Redelivered(c, s) ==
    /\ s \in 1..registered[c]
    /\ OfferSource(c, {s} \cap Unconsidered(c), s)
    /\ UNCHANGED <<registered, epoch, admitted, direct, cancelled, worker, handed,
                   crashes>>

\* _offer_participation_trigger: a burst, a lull or a trend offers everything
\* that was not considered yet.
Trigger(c) ==
    /\ Unconsidered(c) # {}
    /\ OfferSource(c, Unconsidered(c), registered[c])
    /\ UNCHANGED <<registered, epoch, admitted, direct, cancelled, worker, handed,
                   crashes>>

\* ActivationEpochTracker: the activation inputs changed.
AdvanceEpoch ==
    /\ epoch < MaxEpoch
    /\ epoch' = epoch + 1
    /\ UNCHANGED <<registered, considered, claims, admitted, direct, pending, ready,
                   cancelled, evaluated, hydrated, worker, handed, crashes>>

-----------------------------------------------------------------------------
\* Workers

\* The first trigger of the record is now longer ago than ttl_seconds.
Age(c) ==
    /\ HasRecord(c) /\ ~pending[c].old
    /\ pending' = [pending EXCEPT ![c].old = TRUE]
    /\ UNCHANGED <<ledger, ready, cancelled, evaluated, hydrated, worker, handed,
                   crashes>>

\* _as_opportunity: what this evaluation is given.
GivenTo(r) == IF Unreported(r) = {} THEN Range(r.sources) ELSE Unreported(r)

\* A mutated start that reports nothing: the material is handed out again.
ReportedNothing(r) == r

\* The sources are marked as reported when the handler starts.
Reported(r) == [r EXCEPT !.reported = @ \cup Range(r.sources)]

HandOut(c, S) ==
    handed' = [handed EXCEPT ![c] = [s \in Sources |-> IF s \in S THEN @[s] + 1 ELSE @[s]]]

\* A mutated worker that does not look whether the chat is active.
PopAlways(w) ==
    /\ worker[w] = Idle
    /\ ready # <<>>
    /\ ready' = Tail(ready)
    /\ LET c == Head(ready)
       IN /\ HasRecord(c)
          /\ pending' = [pending EXCEPT ![c] = Reported([@ EXCEPT !.queued = FALSE])]
          /\ HandOut(c, GivenTo(pending[c]))
          /\ worker' = [worker EXCEPT ![w] = Running(c, NoRecord)]
    /\ UNCHANGED <<ledger, cancelled, evaluated, hydrated, crashes>>

\* A worker takes the next key: no record any more, the chat is active, the
\* record has expired (_run_one returns and _retire drops it), or its handler
\* starts.
Pop(w) ==
    /\ worker[w] = Idle
    /\ ready # <<>>
    /\ ready' = Tail(ready)
    /\ LET c == Head(ready)
           r == [pending[c] EXCEPT !.queued = FALSE]
       IN \/ /\ ~HasRecord(c)
             /\ UNCHANGED <<pending, worker, evaluated, handed>>
          \/ /\ HasRecord(c) /\ c \in Active
             /\ pending' = [pending EXCEPT ![c] = r]
             /\ UNCHANGED <<worker, evaluated, handed>>
          \/ /\ HasRecord(c) /\ c \notin Active /\ r.old
             /\ evaluated' = [evaluated EXCEPT ![c] = Larger(@, r.rev)]
             /\ pending' = [pending EXCEPT ![c] = NoRecord]
             /\ UNCHANGED <<worker, handed>>
          \/ /\ HasRecord(c) /\ c \notin Active /\ ~r.old
             /\ pending' = [pending EXCEPT ![c] = Reported(r)]
             /\ HandOut(c, GivenTo(r))
             /\ worker' = [worker EXCEPT ![w] = Running(c, NoRecord)]
             /\ UNCHANGED evaluated
    /\ UNCHANGED <<ledger, cancelled, hydrated, crashes>>

\* A mutated _retire that trusts the next trigger to queue the record.
RetireUnqueued(c) ==
    /\ pending' = IF Unreported(pending[c]) = {}
                  THEN [pending EXCEPT ![c] = NoRecord] ELSE pending
    /\ UNCHANGED ready

\* _retire of a record that is still the pending one.
Retire(c) ==
    IF Unreported(pending[c]) = {}
    THEN pending' = [pending EXCEPT ![c] = NoRecord] /\ UNCHANGED ready
    ELSE Enqueued(c, pending[c])

\* The handler returns or fails; _worker's finally block.
HandlerEnds(w) ==
    /\ worker[w] # Idle
    /\ worker' = [worker EXCEPT ![w] = Idle]
    /\ LET c == worker[w].chat
           own == worker[w].own
       IN /\ evaluated' = [evaluated EXCEPT ![c] =
                Larger(@, IF own = NoRecord THEN pending[c].rev ELSE own.rev)]
          /\ IF own = NoRecord THEN Retire(c) ELSE UNCHANGED <<pending, ready>>
    /\ UNCHANGED <<ledger, cancelled, hydrated, handed, crashes>>

-----------------------------------------------------------------------------
\* Direct requests

\* cancel_chat: the pending record goes, a running handler keeps it.
CancelChat(c) ==
    /\ pending' = [pending EXCEPT ![c] = NoRecord]
    /\ worker' = [w \in Workers |->
                    IF HasRecord(c) /\ worker[w] = Running(c, NoRecord)
                    THEN Running(c, pending[c]) ELSE worker[w]]
    /\ cancelled' = cancelled \cup {c}

\* _fence_direct for a new direct message: note_direct_admission, cancel_chat.
DirectRequest(c) ==
    /\ admitted[c] < MaxDirect[c]
    /\ admitted' = [admitted EXCEPT ![c] = @ + 1]
    /\ direct' = [direct EXCEPT ![c] = @ + 1]
    /\ CancelChat(c)
    /\ UNCHANGED <<registered, considered, claims, epoch, ready, evaluated, hydrated,
                   handed, crashes>>

\* _fence_direct for a message that has an admission: note_direct_admission
\* returns the row as it is, cancel_chat runs again.
DirectRedelivered(c) ==
    /\ admitted[c] > 0
    /\ CancelChat(c)
    /\ UNCHANGED <<ledger, ready, evaluated, hydrated, handed, crashes>>

\* _finish_direct_binding, _finish_direct_event: one binding ends; release_chat
\* if it was the last active one.
DirectFinished(c) ==
    /\ direct[c] > 0
    /\ direct' = [direct EXCEPT ![c] = @ - 1]
    /\ cancelled' = IF direct'[c] = 0 THEN cancelled \ {c} ELSE cancelled
    /\ UNCHANGED <<registered, considered, claims, epoch, admitted, pending, ready,
                   evaluated, hydrated, worker, handed, crashes>>

-----------------------------------------------------------------------------
\* The process stops or dies and starts again: the scheduler is empty and
\* recover_direct_admissions ends every binding.  If it dies inside an offer,
\* some claims are committed and the watermark is not.
Restart ==
    /\ crashes < MaxCrashes
    /\ crashes' = crashes + 1
    /\ \E c \in Chats : \E S \in SUBSET Unconsidered(c) :
         claims' = [claims EXCEPT ![c] = @ \cup S]
    /\ direct' = [c \in Chats |-> 0]
    /\ pending' = [c \in Chats |-> NoRecord]
    /\ ready' = <<>>
    /\ cancelled' = {}
    /\ evaluated' = [c \in Chats |-> 0]
    /\ hydrated' = {}
    /\ worker' = [w \in Workers |-> Idle]
    /\ UNCHANGED <<registered, considered, epoch, admitted, handed>>

Step(c) ==
    \/ Inbound(c)
    \/ \E s \in Sources : Redelivered(c, s)
    \/ Trigger(c)
    \/ Age(c)
    \/ DirectRequest(c)
    \/ DirectRedelivered(c)
    \/ DirectFinished(c)

Next ==
    \/ \E c \in Chats : Step(c)
    \/ \E w \in Workers : Pop(w) \/ HandlerEnds(w)
    \/ AdvanceEpoch
    \/ Restart

Spec == Init /\ [][Next]_vars

\* The pool's tasks wake up within a quarter of a second (_next_ready), and a
\* handler ends: its provider calls have timeouts and its exceptions are caught.
Fairness == \A w \in Workers : WF_vars(Pop(w)) /\ WF_vars(HandlerEnds(w))

FairSpec == Spec /\ Fairness

-----------------------------------------------------------------------------
\* A chat is evaluated by at most one handler at a time, although cancelling
\* takes the record away from a running handler and the next offer makes a new
\* one (_active in _worker).
OneHandlerPerChat ==
    \A v, w \in Workers :
        v # w /\ Idle \notin {worker[v], worker[w]} => worker[v].chat # worker[w].chat

\* A source is handed to a handler at most once: across repeated triggers,
\* redelivered messages, merges, epochs and restarts, where the watermark is
\* the only thing that remembers it.
NeverHandedTwice == \A c \in Chats : \A s \in Sources : handed[c][s] <= 1

\* What waits in a pending record or was handed out is claimed, whatever offers
\* were rejected or truncated and wherever the process died in between.
ClaimsCoverWork ==
    \A c \in Chats :
        /\ \A s \in Sources : handed[c][s] > 0 => s \in claims[c]
        /\ HasRecord(c) => Range(pending[c].sources) \subseteq claims[c]

Waiting(c) == HasRecord(c) /\ Unreported(pending[c]) # {}

\* The record is in the ready queue, or its own handler runs and requeues it.
Served(c) == c \in Range(ready) \/ \E w \in Workers : worker[w] = Running(c, NoRecord)

\* A handler of the chat runs whose record a direct request has cancelled.
Superseded(c) ==
    \E w \in Workers : worker[w] # Idle /\ worker[w].chat = c /\ worker[w].own # NoRecord

\* The in-process watermark never runs ahead of the durable one: a source that
\* was not offered yet is never taken for a duplicate, before or after a
\* restart.
WatermarkFollows == \A c \in Chats : evaluated[c] <= considered[c]

\* A record that is marked as queued has its key in _ready, over cancellations,
\* keys that outlive their record and handlers that put it back: no later offer
\* would append it.
QueuedIsReady ==
    \A c \in Chats : HasRecord(c) /\ pending[c].queued => c \in Range(ready)

\* However offers, cancellations and handlers follow each other, no more than
\* max_pending_chats records and max_pending_source_refs references are kept.
WithinLimits ==
    /\ Cardinality({c \in Chats : HasRecord(c)}) <= MaxPending
    /\ \A c \in Chats : HasRecord(c) => Len(pending[c].sources) <= MaxRefs

\* An accepted source is eventually handed out, dropped or cancelled, unless a
\* superseded handler takes its place in the queue away (see FollowUpIsQueued).
AcceptedIsEvaluated ==
    \A c \in Chats : \A s \in 1..MaxSources[c] :
        LET waits == Waiting(c) /\ s \in Unreported(pending[c])
        IN (waits /\ Served(c)) ~> (~waits \/ Superseded(c))

-----------------------------------------------------------------------------
\* "The active handler's _retire() queues its merged follow-up": new material
\* that is not in the ready queue has an active handler that will queue it.
FollowUpIsQueued == \A c \in Chats : Waiting(c) => Served(c)

\* "Allow a chat to be scheduled again after a direct request finished"
\* (release_chat): without active direct work a chat is not muted.
MutedOnlyWhileDirect == \A c \in cancelled : direct[c] > 0

=============================================================================
