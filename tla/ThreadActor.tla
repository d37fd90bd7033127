----------------------------- MODULE ThreadActor ------------------------------
(***************************************************************************)
(* From an inbound message to a reply: ThreadRegistry._persist             *)
(* (processing/threads.py) assigns a message to a thread and a turn,       *)
(* ThreadActorResponder (processing/responder.py) and ThreadActor          *)
(* (processing/actor.py) run provider generations and keep a postbox for   *)
(* what arrives meanwhile, IntentEffectRouter (processing/dispatch.py)     *)
(* turns tool calls and the final reply into effects that are bound to a   *)
(* turn revision, and edits, chat resets and the idle sweep change turns   *)
(* under all of them.  One chat is modelled.                               *)
(*                                                                         *)
(* Every message has a task of its own.  Tasks interleave at awaits: before*)
(* the responder is reached, during a provider call, between the provider's*)
(* answer and the dispatch of the reply, and before an effect is executed. *)
(***************************************************************************)
EXTENDS Integers, Sequences, FiniteSets

CONSTANTS
    Threads,        \* thread ids this chat can use
    Events,         \* inbound messages
    Senders,        \* messages whose generation makes a sending tool call
    Kinds,          \* kinds of postbox input: "message", "edit"
    Cap,            \* pending_inputs_per_thread
    MaxAdditional,  \* MAX_ADDITIONAL_GENERATIONS
    MaxTurns,       \* bound: turns opened in a behaviour
    MaxRevision,    \* bound: revisions of one turn
    MaxCrashes      \* bound: crashes in a behaviour

ASSUME ThreadActorAssumption ==
    /\ IsFiniteSet(Events)
    /\ Senders \subseteq Events
    /\ Kinds \subseteq {"message", "edit"}
    /\ Cap \in Nat \ {0}
    /\ MaxAdditional \in Nat
    /\ MaxTurns \in Nat \ {0}
    /\ MaxRevision \in Nat \ {0}
    /\ MaxCrashes \in Nat

VARIABLES
    threads,    \* threads.state
    recent,     \* open threads, newest activity first (the order of list_threads)
    turns,      \* turns in the order they were opened, with their sources
    assigned,   \* the thread and turn an event was attached to; turn 0 is none
    postbox,    \* pending_inputs, per event
    kind,       \* kind of an event's postbox row
    busyGens,   \* per thread: tasks whose generation row is not finished
    pc,         \* where the task of an event stands
    snapshot,   \* what the task's newest generation was frozen with
    runs,       \* generations the task has started
    inFlight,   \* ThreadActor._generation_in_flight
    additional, \* ThreadActor._state.additional_generations
    effects,    \* the effects a task produces: a tool call's and the reply's
    stale,      \* history: snapshots and tool effects with an edited source
    crashes

threadVars == <<threads, recent, turns, assigned>>
actorVars == <<postbox, kind, busyGens, inFlight, additional>>
taskVars == <<pc, snapshot, runs>>
vars == <<threadVars, actorVars, taskVars, effects, stale, crashes>>

NoSnapshot == [turn |-> 0, revision |-> 0, sources |-> {}]
NoEffect == [turn |-> 0, revision |-> 0, sources |-> {}, state |-> "none"]

TypeOK ==
    /\ threads \in [Threads -> {"absent", "open", "closed"}]
    /\ recent \in Seq(Threads)
    /\ turns \in Seq([thread : Threads, revision : 1..MaxRevision,
                      state : {"open", "closed", "superseded"},
                      sources : SUBSET Events,
                      followup : BOOLEAN])
    /\ assigned \in [Events -> [thread : Threads \cup {"none"},
                                turn : 0..MaxTurns]]
    /\ postbox \in [Events -> {"none", "waiting", "deferred", "consumed",
                               "cancelled"}]
    /\ kind \in [Events -> Kinds \cup {"none"}]
    /\ busyGens \in [Threads -> SUBSET Events]
    /\ pc \in [Events -> {"new", "routed", "generating", "plain", "replying",
                          "done"}]
    /\ snapshot \in [Events -> [turn : 0..MaxTurns, revision : 0..MaxRevision,
                                sources : SUBSET Events]]
    /\ runs \in [Events -> 0..(MaxAdditional + 1)]
    /\ inFlight \in [Threads -> BOOLEAN]
    /\ additional \in [Threads -> 0..MaxAdditional]
    /\ effects \in [Events \X {"tool", "reply"} ->
                      [turn : 0..MaxTurns, revision : 0..MaxRevision,
                       sources : SUBSET Events,
                       state : {"none", "queued", "stranded", "dispatched",
                                "cancelled"}]]
    /\ stale \subseteq Events \X {"snapshot", "tool"}
    /\ crashes \in 0..MaxCrashes

Init ==
    /\ threads = [th \in Threads |-> "absent"]
    /\ recent = <<>>
    /\ turns = <<>>
    /\ assigned = [e \in Events |-> [thread |-> "none", turn |-> 0]]
    /\ postbox = [e \in Events |-> "none"]
    /\ kind = [e \in Events |-> "none"]
    /\ busyGens = [th \in Threads |-> {}]
    /\ pc = [e \in Events |-> "new"]
    /\ snapshot = [e \in Events |-> NoSnapshot]
    /\ runs = [e \in Events |-> 0]
    /\ inFlight = [th \in Threads |-> FALSE]
    /\ additional = [th \in Threads |-> 0]
    /\ effects = [f \in Events \X {"tool", "reply"} |-> NoEffect]
    /\ stale = {}
    /\ crashes = 0

-----------------------------------------------------------------------------
\* Queries of the store

OpenTurns(th) ==
    {i \in DOMAIN turns : turns[i].thread = th /\ turns[i].state = "open"}

\* active_turn: the open turn that was opened last, 0 if there is none.
ActiveTurn(th) ==
    IF OpenTurns(th) = {} THEN 0
    ELSE CHOOSE i \in OpenTurns(th) : \A j \in OpenTurns(th) : j <= i

\* ThreadRegistry.active_turn, the router's turn provider: the active turn of
\* the open thread with the newest activity that has one.
ChatActiveTurn ==
    LET busy == {k \in DOMAIN recent : ActiveTurn(recent[k]) # 0}
    IN IF busy = {} THEN 0
       ELSE ActiveTurn(recent[CHOOSE k \in busy : \A j \in busy : k <= j])

Postbox(th, state) ==
    {e \in Events : assigned[e].thread = th /\ postbox[e] = state}

\* Rows in state queued; nobody is left to execute a stranded one.
Waiting(f) == effects[f].state \in {"queued", "stranded"}

\* _thread_busy
ThreadBusy(th) ==
    \/ busyGens[th] # {}
    \/ Postbox(th, "waiting") \cup Postbox(th, "deferred") # {}
    \/ \E f \in DOMAIN effects :
          Waiting(f) /\ turns[effects[f].turn].thread = th

-----------------------------------------------------------------------------
\* Routing

Touched(th) == <<th>> \o SelectSeq(recent, LAMBDA x : x # th)

NewTurn(th, sources, followup) ==
    [thread |-> th, revision |-> 1, state |-> "open", sources |-> sources,
     followup |-> followup]

\* _persist: the message opens a thread, opens a turn in an open thread (a
\* direct message, a reply to a known message) or joins the active turn (a
\* follow-up).
Route(e) ==
    /\ pc[e] = "new"
    /\ pc' = [pc EXCEPT ![e] = "routed"]
    /\ \E th \in Threads :
         /\ threads[th] # "closed"
         /\ threads' = [threads EXCEPT ![th] = "open"]
         /\ recent' = Touched(th)
         /\ \/ /\ Len(turns) < MaxTurns
               /\ turns' = Append(turns, NewTurn(th, {e}, FALSE))
               /\ assigned' = [assigned EXCEPT ![e] =
                                 [thread |-> th, turn |-> Len(turns) + 1]]
            \/ /\ ActiveTurn(th) # 0
               /\ turns' = [turns EXCEPT ![ActiveTurn(th)].sources = @ \cup {e}]
               /\ assigned' = [assigned EXCEPT ![e] =
                                 [thread |-> th, turn |-> ActiveTurn(th)]]
    /\ UNCHANGED <<actorVars, snapshot, runs, effects, stale, crashes>>

-----------------------------------------------------------------------------
\* The responder and the actor

\* freeze_snapshot.
Frozen(th) ==
    [turn     |-> ActiveTurn(th),
     revision |-> turns[ActiveTurn(th)].revision,
     sources  |-> turns[ActiveTurn(th)].sources]

\* A mutated cap, one too many.
FollowUpOffByOne(e) ==
    LET th == assigned[e].thread IN
    /\ pc[e] = "routed"
    /\ inFlight[th]
    /\ ActiveTurn(th) # 0
    /\ postbox' = [postbox EXCEPT ![e] =
          IF Cardinality(Postbox(th, "waiting")) > Cap THEN "deferred"
                                                       ELSE "waiting"]
    /\ \E k \in Kinds : kind' = [kind EXCEPT ![e] = k]
    /\ pc' = [pc EXCEPT ![e] = "done"]
    /\ UNCHANGED <<threadVars, busyGens, inFlight, additional, snapshot, runs,
                   effects, stale, crashes>>

\* _generate_reply_scoped while a generation of the thread is in flight:
\* accept.  A sender who may not modify the active turn only observes.
FollowUp(e) ==
    LET th == assigned[e].thread IN
    /\ pc[e] = "routed"
    /\ inFlight[th]
    /\ \/ UNCHANGED <<postbox, kind>>
       \/ /\ ActiveTurn(th) # 0
          /\ postbox' = [postbox EXCEPT ![e] =
                IF Cardinality(Postbox(th, "waiting")) >= Cap THEN "deferred"
                                                              ELSE "waiting"]
          /\ \E k \in Kinds : kind' = [kind EXCEPT ![e] = k]
    /\ pc' = [pc EXCEPT ![e] = "done"]
    /\ UNCHANGED <<threadVars, busyGens, inFlight, additional, snapshot, runs,
                   effects, stale, crashes>>

\* A mutated responder that does not look at the flag.
StartRunAlways(e) ==
    LET th == assigned[e].thread IN
    /\ pc[e] = "routed"
    /\ ActiveTurn(th) # 0
    /\ pc' = [pc EXCEPT ![e] = "generating"]
    /\ snapshot' = [snapshot EXCEPT ![e] = Frozen(th)]
    /\ runs' = [runs EXCEPT ![e] = 1]
    /\ busyGens' = [busyGens EXCEPT ![th] = @ \cup {e}]
    /\ inFlight' = [inFlight EXCEPT ![th] = TRUE]
    /\ UNCHANGED <<threadVars, postbox, kind, additional, effects, stale, crashes>>

\* _run_loop begins: the first snapshot is frozen, or, if the thread has no
\* active turn any more, the plain responder answers.
StartRun(e) ==
    LET th == assigned[e].thread IN
    /\ pc[e] = "routed"
    /\ ~inFlight[th]
    /\ IF ActiveTurn(th) = 0
       THEN /\ pc' = [pc EXCEPT ![e] = "plain"]
            /\ UNCHANGED <<snapshot, runs, busyGens, inFlight>>
       ELSE /\ pc' = [pc EXCEPT ![e] = "generating"]
            /\ snapshot' = [snapshot EXCEPT ![e] = Frozen(th)]
            /\ runs' = [runs EXCEPT ![e] = 1]
            /\ busyGens' = [busyGens EXCEPT ![th] = @ \cup {e}]
            /\ inFlight' = [inFlight EXCEPT ![th] = TRUE]
    /\ UNCHANGED <<threadVars, postbox, kind, additional, effects, stale, crashes>>

\* The plain responder answers.
PlainAnswer(e) ==
    /\ pc[e] = "plain"
    /\ pc' = [pc EXCEPT ![e] = "replying"]
    /\ UNCHANGED <<threadVars, actorVars, snapshot, runs, effects, stale, crashes>>

\* The task's generation row is finished and no further one starts.
RunEnds(e, l) ==
    LET th == assigned[e].thread IN
    /\ pc' = [pc EXCEPT ![e] = l]
    /\ busyGens' = [busyGens EXCEPT ![th] = @ \ {e}]
    /\ inFlight' = [inFlight EXCEPT ![th] = FALSE]
    /\ UNCHANGED <<snapshot, runs>>

Drained(th) == Postbox(th, "waiting")

\* The drained rows are consumed.
Consumed(th) ==
    [e \in Events |-> IF e \in Drained(th) THEN "consumed" ELSE postbox[e]]

\* cancel_stale_effects: queued effects of older revisions of turn i.
StaleCancelled(i, revision) ==
    [f \in DOMAIN effects |->
        IF Waiting(f) /\ effects[f].turn = i /\ effects[f].revision < revision
        THEN [effects[f] EXCEPT !.state = "cancelled"]
        ELSE effects[f]]

\* _evaluate_postbox: the turn was closed meanwhile.  The answer is dropped, and
\* so is what was drained.
TurnClosed(e) ==
    LET th == assigned[e].thread IN
    /\ pc[e] = "generating"
    /\ turns[snapshot[e].turn].state # "open"
    /\ postbox' = Consumed(th)
    /\ RunEnds(e, "done")
    /\ UNCHANGED <<threadVars, kind, additional, effects, stale, crashes>>

\* A mutated check that forgets the turn's revision.
OutdatedByInputOnly(e) ==
    \E p \in Drained(assigned[e].thread) : kind[p] = "edit"

\* The turn is open but an edit was drained or its revision has moved on.
Outdated(e) ==
    \/ \E p \in Drained(assigned[e].thread) : kind[p] = "edit"
    \/ turns[snapshot[e].turn].revision # snapshot[e].revision

\* A mutated evaluation that tries again with the old snapshot.
SupersededRetries(e) ==
    /\ pc[e] = "generating"
    /\ turns[snapshot[e].turn].state = "open"
    /\ Outdated(e)
    /\ postbox' = Consumed(assigned[e].thread)
    /\ UNCHANGED <<threadVars, kind, busyGens, inFlight, additional, taskVars,
                   effects, stale, crashes>>

\* _evaluate_postbox: superseded.
Superseded(e) ==
    LET th == assigned[e].thread
        i == snapshot[e].turn
        edited == \E p \in Drained(th) : kind[p] = "edit"
        revision == turns[i].revision + (IF edited THEN 1 ELSE 0)
    IN
    /\ pc[e] = "generating"
    /\ turns[i].state = "open"
    /\ Outdated(e)
    /\ revision <= MaxRevision
    /\ postbox' = Consumed(th)
    /\ turns' = [turns EXCEPT ![i].revision = revision]
    /\ effects' = StaleCancelled(i, revision)
    /\ RunEnds(e, "done")
    /\ UNCHANGED <<threads, recent, assigned, kind, additional, stale, crashes>>

\* A mutated restart that adds no sources.
RegenerateAlone(e) ==
    LET th == assigned[e].thread IN
    /\ pc[e] = "generating"
    /\ turns[snapshot[e].turn].state = "open"
    /\ ~Outdated(e)
    /\ Drained(th) # {}
    /\ additional[th] < MaxAdditional
    /\ runs[e] <= MaxAdditional
    /\ additional' = [additional EXCEPT ![th] = @ + 1]
    /\ postbox' = Consumed(th)
    /\ snapshot' = [snapshot EXCEPT ![e] = Frozen(th)]
    /\ runs' = [runs EXCEPT ![e] = @ + 1]
    /\ UNCHANGED <<threadVars, kind, pc, busyGens, inFlight, effects, stale, crashes>>

\* _evaluate_postbox: new context, the drained inputs become sources of the
\* turn and the loop freezes the next snapshot of the thread.
Regenerate(e) ==
    LET th == assigned[e].thread
        i == snapshot[e].turn
    IN
    /\ pc[e] = "generating"
    /\ turns[i].state = "open"
    /\ ~Outdated(e)
    /\ Drained(th) # {}
    /\ additional[th] < MaxAdditional
    /\ additional' = [additional EXCEPT ![th] = @ + 1]
    /\ postbox' = Consumed(th)
    /\ turns' = [turns EXCEPT ![i].sources = @ \cup Drained(th)]
    /\ stale' = stale \ {<<e, "snapshot">>}
    /\ UNCHANGED <<threads, recent, assigned, kind, effects, crashes>>
    /\ IF runs[e] > MaxAdditional THEN RunEnds(e, "done")
       ELSE /\ snapshot' = [snapshot EXCEPT ![e] = Frozen(th)']
            /\ runs' = [runs EXCEPT ![e] = @ + 1]
            /\ UNCHANGED <<pc, busyGens, inFlight>>

\* promote_deferred: as many deferred inputs as the postbox has room for.
Promoted(box, th) ==
    LET deferred == {e \in Events : assigned[e].thread = th /\ box[e] = "deferred"}
        room == Cap - Cardinality({e \in Events : assigned[e].thread = th
                                                   /\ box[e] = "waiting"})
    IN {[e \in Events |-> IF e \in chosen THEN "waiting" ELSE box[e]] :
          chosen \in {c \in SUBSET deferred :
                        \/ Cardinality(c) = room
                        \/ c = deferred /\ Cardinality(c) < room}}

\* _evaluate_postbox: too many restarts, the drained inputs get a turn of
\* their own and the answer goes out.
HandOver(e) ==
    LET th == assigned[e].thread IN
    /\ pc[e] = "generating"
    /\ turns[snapshot[e].turn].state = "open"
    /\ ~Outdated(e)
    /\ Drained(th) # {}
    /\ additional[th] >= MaxAdditional
    /\ Len(turns) < MaxTurns
    /\ turns' = Append(turns, NewTurn(th, Drained(th), TRUE))
    /\ recent' = Touched(th)
    /\ postbox' \in Promoted(Consumed(th), th)
    /\ RunEnds(e, "replying")
    /\ UNCHANGED <<threads, assigned, kind, additional, effects, stale, crashes>>

\* _evaluate_postbox: nothing came in, the answer goes out, unless it is empty.
Answer(e) ==
    LET th == assigned[e].thread IN
    /\ pc[e] = "generating"
    /\ turns[snapshot[e].turn].state = "open"
    /\ ~Outdated(e)
    /\ Drained(th) = {}
    /\ \E l \in {"replying", "done"} : RunEnds(e, l)
    /\ UNCHANGED <<threadVars, postbox, kind, additional, effects, stale, crashes>>

\* The provider call raises or is cancelled; the postbox is not looked at.
ProviderFails(e) ==
    /\ pc[e] = "generating"
    /\ RunEnds(e, "done")
    /\ UNCHANGED <<threadVars, postbox, kind, additional, effects, stale, crashes>>

-----------------------------------------------------------------------------
\* Effects

\* A tool call during the generation: the effect carries the frozen turn.
ToolSend(e) ==
    /\ e \in Senders
    /\ pc[e] = "generating"
    /\ effects[<<e, "tool">>].state = "none"
    /\ effects' = [effects EXCEPT ![<<e, "tool">>] =
                     [turn |-> snapshot[e].turn,
                      revision |-> snapshot[e].revision,
                      sources |-> snapshot[e].sources, state |-> "queued"]]
    /\ stale' = IF <<e, "snapshot">> \in stale THEN stale \cup {<<e, "tool">>}
                                               ELSE stale
    /\ UNCHANGED <<threadVars, actorVars, taskVars, crashes>>

\* submit_outbound of the final reply: _run is given no source message and
\* asks the turn provider; without any active turn it raises.
SubmitReply(e) ==
    LET i == ChatActiveTurn IN
    /\ pc[e] = "replying"
    /\ pc' = [pc EXCEPT ![e] = "done"]
    /\ effects' = IF i = 0 THEN effects
                  ELSE [effects EXCEPT ![<<e, "reply">>] =
                          [turn |-> i, revision |-> turns[i].revision,
                           sources |-> {}, state |-> "queued"]]
    /\ UNCHANGED <<threadVars, actorVars, snapshot, runs, stale, crashes>>

\* A mutated check that forgets the turn's state ...
RevisionOnlyMatches(f) ==
    turns[effects[f].turn].revision = effects[f].revision

\* ... or its revision.
TurnOnlyMatches(f) == turns[effects[f].turn].state = "open"

\* SnapshotEffectAuthorizer._revision_matches.
RevisionMatches(f) ==
    LET turn == turns[effects[f].turn] IN
    turn.revision = effects[f].revision /\ turn.state = "open"

\* execute_ready: authorised and claimed, or cancelled.
Execute(f) ==
    /\ effects[f].state = "queued"
    /\ effects' = [effects EXCEPT ![f].state =
                     IF RevisionMatches(f) THEN "dispatched" ELSE "cancelled"]
    /\ UNCHANGED <<threadVars, actorVars, taskVars, stale, crashes>>

-----------------------------------------------------------------------------
\* What changes turns from outside

\* SignalInvalidator._invalidate_turn: an edited or deleted source message raises
\* the revision of its turn and cancels what waits for an older one.
Correct(e) ==
    LET i == assigned[e].turn IN
    /\ i # 0
    /\ turns[i].state = "open"
    /\ turns[i].revision < MaxRevision
    /\ turns' = [turns EXCEPT ![i].revision = @ + 1]
    /\ effects' = StaleCancelled(i, turns[i].revision + 1)
    /\ stale' = stale
         \cup {<<t, "snapshot">> : t \in {x \in Events : pc[x] = "generating"
                                                     /\ e \in snapshot[x].sources}}
         \cup {<<t, "tool">> : t \in {x \in Events : Waiting(<<x, "tool">>)
                                         /\ e \in effects[<<x, "tool">>].sources}}
    /\ UNCHANGED <<threads, recent, assigned, actorVars, taskVars, crashes>>

\* close_chat_threads (/new): all current work of the chat ends.
Reset ==
    LET open == {th \in Threads : threads[th] = "open"} IN
    /\ open # {}
    /\ threads' = [th \in Threads |-> IF th \in open THEN "closed"
                                                     ELSE threads[th]]
    /\ recent' = <<>>
    /\ turns' = [i \in DOMAIN turns |->
                   IF turns[i].thread \in open /\ turns[i].state = "open"
                   THEN [turns[i] EXCEPT !.state = "superseded"] ELSE turns[i]]
    /\ postbox' = [e \in Events |->
                     IF assigned[e].thread \in open
                        /\ postbox[e] \in {"waiting", "deferred"}
                     THEN "cancelled" ELSE postbox[e]]
    /\ busyGens' = [th \in Threads |-> IF th \in open THEN {} ELSE busyGens[th]]
    /\ effects' = [f \in DOMAIN effects |->
                     IF Waiting(f) /\ turns[effects[f].turn].thread \in open
                     THEN [effects[f] EXCEPT !.state = "cancelled"]
                     ELSE effects[f]]
    /\ UNCHANGED <<assigned, kind, inFlight, additional, taskVars, stale, crashes>>

\* settle_idle_turns.
Settle(i) ==
    /\ turns[i].state = "open"
    /\ ~inFlight[turns[i].thread]
    /\ ~ThreadBusy(turns[i].thread)
    /\ turns' = [turns EXCEPT ![i].state = "closed"]
    /\ UNCHANGED <<threads, recent, assigned, actorVars, taskVars, effects,
                   stale, crashes>>

\* The process dies and starts again: tasks and actors are gone, rows stay.
Crash ==
    /\ crashes < MaxCrashes
    /\ crashes' = crashes + 1
    /\ pc' = [e \in Events |-> IF pc[e] = "new" THEN "new" ELSE "done"]
    /\ inFlight' = [th \in Threads |-> FALSE]
    /\ additional' = [th \in Threads |-> 0]
    /\ effects' = [f \in DOMAIN effects |->
                     IF effects[f].state = "queued"
                     THEN [effects[f] EXCEPT !.state = "stranded"]
                     ELSE effects[f]]
    /\ UNCHANGED <<threadVars, postbox, kind, busyGens, snapshot, runs, stale>>

-----------------------------------------------------------------------------
\* The provider call of task e returned.
Evaluate(e) ==
    \/ TurnClosed(e)
    \/ Superseded(e)
    \/ Regenerate(e)
    \/ HandOver(e)
    \/ Answer(e)

\* What the event loop does next for task e.
Task(e) == FollowUp(e) \/ StartRun(e) \/ SubmitReply(e)

Next ==
    \/ \E e \in Events : \/ Route(e)
                        \/ Task(e)
                        \/ Evaluate(e)
                        \/ ProviderFails(e)
                        \/ PlainAnswer(e)
                        \/ ToolSend(e)
                        \/ Correct(e)
    \/ \E f \in DOMAIN effects : Execute(f)
    \/ \E i \in DOMAIN turns : Settle(i)
    \/ Reset
    \/ Crash

Spec == Init /\ [][Next]_vars

\* The event loop runs what is ready, provider calls return (they have a
\* timeout) and the maintenance tick comes round.  No message, edit, reset,
\* failure or crash has to happen.
FairSpec ==
    /\ Spec
    /\ \A e \in Events : /\ WF_vars(Task(e))
                         /\ WF_vars(Evaluate(e))
                         /\ WF_vars(PlainAnswer(e))
    /\ \A f \in Events \X {"tool", "reply"} : WF_vars(Execute(f))
    /\ \A i \in 1..MaxTurns : WF_vars(i \in DOMAIN turns /\ Settle(i))

-----------------------------------------------------------------------------
\* Safety

\* The in-memory flag generation_in_flight is what keeps two messages of one
\* thread from being answered side by side: it is set exactly while one task
\* of the thread is in its provider call, whatever the other tasks, edits,
\* resets and crashes do.
OneGenerationPerThread ==
    \A th \in Threads :
        Cardinality({e \in Events : pc[e] = "generating"
                                    /\ assigned[e].thread = th})
            = (IF inFlight[th] THEN 1 ELSE 0)

\* pending_inputs_per_thread bounds what waits in a postbox, although inputs
\* come from accept and from promote_deferred.
PostboxWithinCap ==
    \A th \in Threads : Cardinality(Postbox(th, "waiting")) <= Cap

Dispatches(f) == effects[f].state = "queued" /\ effects'[f].state = "dispatched"

\* After /new no tool call of the chat's earlier work is dispatched any more:
\* neither what was queued nor what a provider call that was still running
\* queues later, whatever turns the messages after /new opened; and nothing at
\* all goes out under a turn of a closed thread.  (A reply can be bound to a
\* turn of later work, see ResetEndsWork.)
ResetStopsDispatch ==
    [][\A f \in DOMAIN effects :
         Dispatches(f) =>
            /\ threads[turns[effects[f].turn].thread] = "open"
            /\ f[2] = "tool" => threads[assigned[f[1]].thread] = "open"]_vars

\* The messages a turn was opened with or that were routed to it.
OwnSources(i, sources) == \A p \in sources : assigned[p].turn = i

\* What a generation's tool calls have queued, before or after the edit, is not
\* dispatched once the author edited or deleted a message the provider was
\* asked with, as long as that message was routed to the turn.
CorrectionStopsDispatch ==
    [][\A e \in Events :
         LET f == <<e, "tool">> IN
         Dispatches(f) /\ OwnSources(effects[f].turn, effects[f].sources)
             => f \notin stale]_vars

\* An answer leaves _evaluate_postbox only if the chat was not reset and no
\* message routed to its turn was edited since the provider was asked.
AnswerIsCurrent ==
    [][\A e \in Events :
         pc[e] = "generating" /\ pc'[e] = "replying" =>
            /\ threads[assigned[e].thread] = "open"
            /\ OwnSources(snapshot[e].turn, snapshot[e].sources)
                 => <<e, "snapshot">> \notin stale]_vars

\* An input that is drained while the run goes on or answers is kept: it is a
\* source of a turn of its thread, so some snapshot can still contain it.
DrainedIsKept ==
    [][\A e, p \in Events :
         /\ pc[e] = "generating" /\ pc'[e] # "done"
         /\ assigned[p].thread = assigned[e].thread
         /\ postbox[p] = "waiting" /\ postbox'[p] = "consumed"
         => \E i \in DOMAIN turns' : /\ turns'[i].thread = assigned[e].thread
                                     /\ turns'[i].state = "open"
                                     /\ p \in turns'[i].sources]_vars

\* Every message that reaches the responder gets to the end of its task: it is
\* put into the postbox, answered, or given up.
TaskEnds == \A e \in Events : pc[e] = "routed" ~> pc[e] = "done"

-----------------------------------------------------------------------------
\* What comments and tests say and the code does not do

\* "The final reply is dispatched by the orchestrator *after* this scope, so
\* remember the frozen turn against the source message" (responder.py): the
\* reply is bound to the turn its generation was frozen with.
ReplyKeepsTurn ==
    \A e \in Events :
        effects[<<e, "reply">>].state # "none" /\ snapshot[e].turn # 0
            => effects[<<e, "reply">>].turn = snapshot[e].turn

\* "End all current work for one chat without deleting its history." (store.py,
\* close_chat_threads): nothing a message routed before /new led to is
\* dispatched after it, its reply included.
ResetEndsWork ==
    [][\A f \in DOMAIN effects :
         Dispatches(f) => threads[assigned[f[1]].thread] = "open"]_vars

\* "The running generation answers with the wider snapshot" (responder.py): the
\* next generation of a run sees what the last one saw and what was drained.
RestartWidens ==
    [][\A e \in Events :
         pc[e] = "generating" /\ runs'[e] > runs[e] =>
            snapshot[e].sources \cup Drained(assigned[e].thread)
                \subseteq snapshot'[e].sources]_vars

\* "the signal path only journaled. It must reach turn and effects" (test of
\* review F05): an edit of any message a tool effect rests on stops the effect.
EditReachesEffects ==
    [][\A e \in Events : Dispatches(<<e, "tool">>) => <<e, "tool">> \notin stale]_vars

\* "Unsettled work includes the gap between generation completion and dispatch"
\* (thread_busy).
GapIsBusy ==
    \A e \in Events :
        pc[e] = "replying" /\ threads[assigned[e].thread] = "open"
            => ThreadBusy(assigned[e].thread)

\* "remaining inputs continue as the next turn of the same thread instead of
\* restarting forever" (actor.py): a generation runs for a follow-up turn.
FollowUpTurnContinues ==
    \A i \in 1..MaxTurns :
        (i \in DOMAIN turns /\ turns[i].followup)
            ~> (\E e \in Events : snapshot[e].turn = i)

\* "Close turns that went quiet long ago" (settle_idle_turns): when no task is
\* left, an open turn is closed, unless something happens again.
Quiet == \A e \in Events : pc[e] \in {"new", "done"}
QuietTurnsSettle ==
    \A i \in 1..MaxTurns :
        (i \in DOMAIN turns /\ turns[i].state = "open" /\ Quiet)
            ~> (i \in DOMAIN turns /\ (turns[i].state # "open" \/ ~Quiet))

=============================================================================
