-------------------------- MODULE ThreadActorProofs --------------------------
(***************************************************************************)
(* Threads, turns and generations for any number of threads, messages,     *)
(* turns, edits, resets and crashes: one provider call per thread, a       *)
(* bounded postbox, and nothing that was reset or edited is sent.          *)
(***************************************************************************)
EXTENDS ThreadActor, TLAPS

Turn == [thread : Threads, revision : Nat,
         state : {"open", "closed", "superseded"},
         sources : SUBSET Events, followup : BOOLEAN]
Snapshot == [turn : Nat, revision : Nat, sources : SUBSET Events]
Effect == [turn : Nat, revision : Nat, sources : SUBSET Events,
           state : {"none", "queued", "stranded", "dispatched", "cancelled"}]
Slots == Events \X {"tool", "reply"}

\* The part of TypeOK the argument rests on, without the bounds.
Types ==
    /\ threads \in [Threads -> {"absent", "open", "closed"}]
    /\ turns \in Seq(Turn)
    /\ assigned \in [Events -> [thread : Threads \cup {"none"}, turn : Nat]]
    /\ postbox \in [Events -> {"none", "waiting", "deferred", "consumed",
                               "cancelled"}]
    /\ pc \in [Events -> {"new", "routed", "generating", "plain", "replying",
                          "done"}]
    /\ snapshot \in [Events -> Snapshot]
    /\ inFlight \in [Threads -> BOOLEAN]
    /\ effects \in [Slots -> Effect]
    /\ stale \subseteq Events \X {"snapshot", "tool"}

\* An open turn belongs to an open thread.
TurnInv ==
    \A i \in DOMAIN turns :
        turns[i].state = "open" => threads[turns[i].thread] = "open"

\* A message that was routed has a thread and a turn; one that was not is in
\* no postbox.
RouteInv ==
    \A e \in Events :
        IF pc[e] = "new"
        THEN assigned[e].turn = 0 /\ postbox[e] = "none"
        ELSE assigned[e].thread \in Threads /\ assigned[e].turn \in DOMAIN turns

\* The messages a set of sources can hold.
Known(sources) == \A p \in sources : pc[p] # "new"

SourceInv ==
    /\ \A i \in DOMAIN turns : Known(turns[i].sources)
    /\ \A e \in Events : Known(snapshot[e].sources)
    /\ \A f \in Slots : Known(effects[f].sources)

\* The flag of a thread is up exactly while its one generation runs.
FlightInv ==
    /\ \A e \in Events : pc[e] = "generating" => inFlight[assigned[e].thread]
    /\ \A d, e \in Events :
          /\ pc[d] = "generating" /\ pc[e] = "generating"
          /\ assigned[d].thread = assigned[e].thread
          => d = e
    /\ \A th \in Threads :
          inFlight[th] => \E e \in Events : pc[e] = "generating"
                                            /\ assigned[e].thread = th

\* What a running generation was frozen with: a turn of its thread, at most at
\* the turn's revision, and below it once a source routed to the turn was
\* edited.
FrozenWell(e) ==
    LET i == snapshot[e].turn IN
    /\ i \in DOMAIN turns
    /\ turns[i].thread = assigned[e].thread
    /\ snapshot[e].revision <= turns[i].revision
    /\ <<e, "snapshot">> \in stale /\ OwnSources(i, snapshot[e].sources)
          => snapshot[e].revision < turns[i].revision

SnapshotInv == \A e \in Events : pc[e] = "generating" => FrozenWell(e)

\* The same for effects.
BoundWell(f) ==
    LET i == effects[f].turn IN
    /\ i \in DOMAIN turns
    /\ effects[f].revision <= turns[i].revision
    /\ f \in stale /\ Waiting(f) /\ OwnSources(i, effects[f].sources)
          => effects[f].revision < turns[i].revision

EffectInv == \A f \in Slots : effects[f].state # "none" => BoundWell(f)

\* Only what was frozen or queued can be stale.
StaleInv ==
    \A e \in Events :
        /\ <<e, "snapshot">> \in stale => pc[e] \notin {"new", "routed"}
        /\ <<e, "tool">> \in stale => effects[<<e, "tool">>].state # "none"

ActorInv ==
    /\ Types
    /\ TurnInv
    /\ RouteInv
    /\ SourceInv
    /\ FlightInv
    /\ SnapshotInv
    /\ EffectInv
    /\ StaleInv

-----------------------------------------------------------------------------
\* The newest open turn

TurnSeq == turns \in Seq(Turn)

\* active_turn finds an open turn wherever there is one.
ActiveTurnIsOpen ==
    \A th : IF OpenTurns(th) = {} THEN ActiveTurn(th) = 0
                                  ELSE ActiveTurn(th) \in OpenTurns(th)

\* The router's turn provider answers with an open turn, or with none.
LEMMA ChatActiveTurnFacts ==
    ASSUME TurnSeq, ActiveTurnIsOpen, ChatActiveTurn # 0
    PROVE  ChatActiveTurn \in DOMAIN turns /\ turns[ChatActiveTurn].state = "open"
<1>1. \E th : ChatActiveTurn = ActiveTurn(th)
  BY Zenon DEF ChatActiveTurn
<1>2. PICK th : ChatActiveTurn = ActiveTurn(th)
  BY <1>1
<1>3. ActiveTurn(th) \in OpenTurns(th)
  BY <1>2 DEF ActiveTurnIsOpen
<1> QED BY <1>2, <1>3 DEF OpenTurns

-----------------------------------------------------------------------------
\* What a step may do without disturbing a part of the invariant

TurnsGrow ==
    /\ turns' \in Seq(Turn)
    /\ DOMAIN turns \subseteq DOMAIN turns'
    /\ \A i \in DOMAIN turns : /\ turns'[i].thread = turns[i].thread
                               /\ turns'[i].revision \in Nat
                               /\ turns'[i].revision >= turns[i].revision

AssignedKept == \A p \in Events : pc[p] # "new" => assigned'[p] = assigned[p]

LEMMA TurnTypes ==
    ASSUME Types
    PROVE  /\ Len(turns) \in Nat
           /\ DOMAIN turns = 1 .. Len(turns)
           /\ turns \in [1 .. Len(turns) -> Turn]
           /\ \A i \in DOMAIN turns : turns[i] \in Turn
           /\ 0 \notin DOMAIN turns
<1>1. /\ Len(turns) \in Nat
      /\ DOMAIN turns = 1 .. Len(turns)
      /\ turns \in [1 .. Len(turns) -> Turn]
  BY DEF Types
<1> QED BY <1>1

\* Turns that stay, grow.
LEMMA SameTurnsGrow ==
    ASSUME Types, turns' = turns PROVE TurnsGrow
<1>1. \A i \in DOMAIN turns : turns[i].revision \in Nat
  BY TurnTypes, Zenon DEF Turn
<1> QED BY <1>1 DEF TurnsGrow, Types

LEMMA SnapshotKept ==
    ASSUME ActorInv, TurnsGrow, AssignedKept, NEW e \in Events,
           pc[e] = "generating", snapshot'[e] = snapshot[e],
           <<e, "snapshot">> \in stale' => <<e, "snapshot">> \in stale
    PROVE  FrozenWell(e)'
<1> DEFINE i == snapshot[e].turn
<1>1. FrozenWell(e)
  BY DEF ActorInv, SnapshotInv
<1>2. /\ snapshot[e].revision \in Nat
      /\ snapshot[e].sources \subseteq Events
      /\ \A p \in snapshot[e].sources : pc[p] # "new"
  BY DEF ActorInv, Types, Snapshot, SourceInv, Known
<1>3. /\ i \in DOMAIN turns
      /\ turns[i].revision \in Nat
  BY <1>1, TurnTypes, Zenon DEF FrozenWell, ActorInv, Turn
<1>4. /\ i \in DOMAIN turns'
      /\ turns'[i].thread = turns[i].thread
      /\ turns'[i].revision \in Nat
      /\ turns'[i].revision >= turns[i].revision
  BY <1>3, Zenon DEF TurnsGrow
<1>5. \A p \in snapshot[e].sources : assigned'[p] = assigned[p]
  BY <1>2 DEF AssignedKept
<1>6. assigned'[e] = assigned[e]
  BY Zenon DEF AssignedKept
<1> QED BY <1>1, <1>2, <1>3, <1>4, <1>5, <1>6 DEF FrozenWell, OwnSources

LEMMA EffectKept ==
    ASSUME ActorInv, TurnsGrow, AssignedKept, NEW f \in Slots,
           effects[f].state # "none",
           effects'[f].turn = effects[f].turn,
           effects'[f].revision = effects[f].revision,
           effects'[f].sources = effects[f].sources,
           Waiting(f)' => Waiting(f),
           f \in stale' => f \in stale
    PROVE  BoundWell(f)'
<1> DEFINE i == effects[f].turn
<1>1. BoundWell(f)
  BY DEF ActorInv, EffectInv
<1>2. /\ effects[f].revision \in Nat
      /\ effects[f].sources \subseteq Events
      /\ \A p \in effects[f].sources : pc[p] # "new"
  BY Zenon DEF ActorInv, Types, Effect, SourceInv, Known
<1>3. /\ i \in DOMAIN turns
      /\ turns[i].revision \in Nat
  BY <1>1, TurnTypes, Zenon DEF BoundWell, ActorInv, Turn
<1>4. /\ i \in DOMAIN turns'
      /\ turns'[i].revision \in Nat
      /\ turns'[i].revision >= turns[i].revision
  BY <1>3 DEF TurnsGrow
<1>5. \A p \in effects[f].sources : assigned'[p] = assigned[p]
  BY <1>2 DEF AssignedKept
<1> QED BY <1>1, <1>2, <1>3, <1>4, <1>5 DEF BoundWell, OwnSources

LEMMA FlightKept ==
    ASSUME ActorInv, AssignedKept, inFlight' = inFlight,
           \A e \in Events : pc'[e] = "generating" <=> pc[e] = "generating"
    PROVE  FlightInv'
<1>1. \A e \in Events : pc[e] = "generating" => assigned'[e] = assigned[e]
  BY DEF AssignedKept
<1> QED BY <1>1 DEF ActorInv, FlightInv

LEMMA RunEndsFlight ==
    ASSUME ActorInv, assigned' = assigned, NEW e \in Events, NEW l,
           pc[e] = "generating", l # "generating", RunEnds(e, l)
    PROVE  FlightInv'
<1>1. assigned[e].thread \in Threads
  BY DEF ActorInv, RouteInv
<1>2. /\ pc' = [pc EXCEPT ![e] = l]
      /\ inFlight' = [inFlight EXCEPT ![assigned[e].thread] = FALSE]
  BY DEF RunEnds
<1>3. pc \in [Events -> {"new", "routed", "generating", "plain", "replying", "done"}]
      /\ inFlight \in [Threads -> BOOLEAN]
  BY DEF ActorInv, Types
<1>4. \A d \in Events : pc'[d] = "generating"
         => d # e /\ pc[d] = "generating" /\ assigned[d].thread # assigned[e].thread
  BY <1>2, <1>3 DEF ActorInv, FlightInv
<1>5. \A d \in Events : d # e /\ pc[d] = "generating" => pc'[d] = "generating"
  BY <1>2, <1>3
<1>6. \A d \in Events : pc[d] = "generating" => assigned[d].thread \in Threads
  BY DEF ActorInv, RouteInv
<1>7. \A th \in Threads : IF th = assigned[e].thread THEN ~inFlight'[th]
                                                     ELSE inFlight'[th] = inFlight[th]
  BY <1>1, <1>2, <1>3
<1>8. FlightInv
  BY DEF ActorInv
<1>9. \A d \in Events : pc'[d] = "generating" => inFlight'[assigned[d].thread]
  BY <1>4, <1>6, <1>7, <1>8, Zenon DEF FlightInv
<1>10. \A th \in Threads : inFlight'[th] => \E d \in Events : pc'[d] = "generating"
                                                        /\ assigned[d].thread = th
  BY <1>5, <1>7, <1>8, Zenon DEF FlightInv
<1> QED BY <1>4, <1>8, <1>9, <1>10 DEF FlightInv

PCs == {"new", "routed", "generating", "plain", "replying", "done"}
Boxes == {"none", "waiting", "deferred", "consumed", "cancelled"}

\* An effect keeps what it was bound to and does not come to life again.
Milder(f) ==
    /\ effects'[f].turn = effects[f].turn
    /\ effects'[f].revision = effects[f].revision
    /\ effects'[f].sources = effects[f].sources
    /\ effects'[f].state = "none" <=> effects[f].state = "none"
    /\ Waiting(f)' => Waiting(f)

\* Steps that freeze nothing, queue nothing and make nothing stale.
LEMMA Moves ==
    ASSUME ActorInv, TurnsGrow, TurnInv',
           threads' \in [Threads -> {"absent", "open", "closed"}],
           \A i \in DOMAIN turns' : \A p \in turns'[i].sources : pc[p] # "new",
           assigned' = assigned, snapshot' = snapshot, stale' \subseteq stale,
           pc' \in [Events -> PCs],
           \A x \in Events : pc'[x] = "new" <=> pc[x] = "new",
           \A x \in Events : pc'[x] \in {"new", "routed", "generating"}
                                => pc'[x] = pc[x],
           inFlight' \in [Threads -> BOOLEAN], FlightInv',
           postbox' \in [Events -> Boxes],
           \A x \in Events : pc[x] = "new" => postbox'[x] = "none",
           effects' \in [Slots -> Effect],
           \A f \in Slots : Milder(f)
    PROVE  ActorInv'
<1>1. Types'
  BY Zenon DEF ActorInv, Types, TurnsGrow, PCs, Boxes
<1>2. RouteInv'
  <2>1. DOMAIN turns \subseteq DOMAIN turns'
    BY Zenon DEF TurnsGrow
  <2> QED BY <2>1, Zenon DEF ActorInv, RouteInv
<1>3. SourceInv'
  <2>1. \A i \in DOMAIN turns' : turns'[i].sources \subseteq Events
    <3>1. turns' \in Seq(Turn)
      BY DEF TurnsGrow
    <3>2. \A i \in DOMAIN turns' : turns'[i] \in Turn
      BY <3>1
    <3> QED BY <3>2, Zenon DEF Turn
  <2>2. \A e \in Events : snapshot[e].sources \subseteq Events
    BY Zenon DEF ActorInv, Types, Snapshot
  <2>3. \A f \in Slots : effects[f].sources \subseteq Events
    BY Zenon DEF ActorInv, Types, Effect
  <2>4. \A i \in DOMAIN turns' : \A p \in turns'[i].sources : pc'[p] # "new"
    BY <2>1, Zenon
  <2>5. \A e \in Events : \A p \in snapshot'[e].sources : pc'[p] # "new"
    BY <2>2, Zenon DEF ActorInv, SourceInv, Known
  <2>6. \A f \in Slots : \A p \in effects'[f].sources : pc'[p] # "new"
    BY <2>3 DEF ActorInv, SourceInv, Known, Milder
  <2> QED BY <2>4, <2>5, <2>6, Zenon DEF SourceInv, Known
<1>4. AssignedKept
  BY DEF AssignedKept
<1>5. SnapshotInv'
  <2> SUFFICES ASSUME NEW e \in Events, pc'[e] = "generating" PROVE FrozenWell(e)'
    BY Zenon DEF SnapshotInv
  <2>1. pc[e] = "generating"
    BY Zenon
  <2> QED BY <1>4, <2>1, SnapshotKept, Zenon
<1>6. EffectInv'
  <2> SUFFICES ASSUME NEW f \in Slots, effects'[f].state # "none" PROVE BoundWell(f)'
    BY Zenon DEF EffectInv
  <2> QED BY <1>4, EffectKept, Zenon DEF Milder
<1>7. StaleInv'
  <2> SUFFICES ASSUME NEW e \in Events
               PROVE  /\ <<e, "snapshot">> \in stale' => pc'[e] \notin {"new", "routed"}
                      /\ <<e, "tool">> \in stale' => effects'[<<e, "tool">>].state # "none"
    BY DEF StaleInv
  <2>1. /\ <<e, "snapshot">> \in stale => pc[e] \notin {"new", "routed"}
        /\ <<e, "tool">> \in stale => effects[<<e, "tool">>].state # "none"
    BY Zenon DEF ActorInv, StaleInv
  <2>2. <<e, "tool">> \in Slots
    BY DEF Slots
  <2> QED BY <2>1, <2>2, Zenon DEF Milder
<1> QED BY <1>1, <1>2, <1>3, <1>5, <1>6, <1>7, Zenon DEF ActorInv

\* An untouched effect is milder than itself.
LEMMA SameEffects ==
    ASSUME ActorInv, effects' = effects
    PROVE  effects' \in [Slots -> Effect] /\ \A f \in Slots : Milder(f)
BY Zenon DEF ActorInv, Types, Milder, Waiting

\* Turns that did not change are in order.
LEMMA SameTurns ==
    ASSUME ActorInv, UNCHANGED <<threads, turns>>
    PROVE  /\ TurnsGrow
           /\ TurnInv'
           /\ threads' \in [Threads -> {"absent", "open", "closed"}]
           /\ \A i \in DOMAIN turns' : \A p \in turns'[i].sources : pc[p] # "new"
<1>1. TurnsGrow
  BY SameTurnsGrow, Zenon DEF ActorInv
<1> QED BY <1>1 DEF ActorInv, Types, TurnInv, SourceInv, Known

\* A task whose generation does not run, or ends, takes a step.
LEMMA TaskMoves ==
    ASSUME ActorInv, NEW e \in Events, NEW l \in {"plain", "replying", "done"},
           pc[e] # "new", pc' = [pc EXCEPT ![e] = l],
           UNCHANGED <<threads, turns, assigned, snapshot, effects, stale>>,
           inFlight' \in [Threads -> BOOLEAN], FlightInv',
           postbox' \in [Events -> Boxes],
           \A x \in Events : pc[x] = "new" => postbox'[x] = "none"
    PROVE  ActorInv'
<1>1. /\ pc' \in [Events -> PCs]
      /\ \A x \in Events : pc'[x] = IF x = e THEN l ELSE pc[x]
  BY DEF ActorInv, Types, PCs
<1>2. /\ effects' \in [Slots -> Effect]
      /\ \A f \in Slots : Milder(f)
  BY SameEffects
<1>3. /\ TurnsGrow
      /\ TurnInv'
      /\ threads' \in [Threads -> {"absent", "open", "closed"}]
      /\ \A i \in DOMAIN turns' : \A p \in turns'[i].sources : pc[p] # "new"
  BY SameTurns
<1>4. /\ \A x \in Events : pc'[x] = "new" <=> pc[x] = "new"
      /\ \A x \in Events : pc'[x] \in {"new", "routed", "generating"}
                                => pc'[x] = pc[x]
  BY <1>1
<1> QED BY <1>1, <1>2, <1>3, <1>4, Moves, Zenon

\* What RunEnds leaves.
LEMMA RunEndsTypes ==
    ASSUME ActorInv, NEW e \in Events, NEW l, pc[e] = "generating", RunEnds(e, l)
    PROVE  /\ inFlight' \in [Threads -> BOOLEAN]
           /\ pc' = [pc EXCEPT ![e] = l]
           /\ snapshot' = snapshot
BY Zenon DEF RunEnds, ActorInv, Types

-----------------------------------------------------------------------------
\* The draining of the postbox

LEMMA ConsumedFacts ==
    ASSUME ActorInv, NEW th, postbox' = Consumed(th), assigned' = assigned
    PROVE  /\ postbox' \in [Events -> Boxes]
           /\ \A x \in Events : pc[x] = "new" => postbox'[x] = "none"
<1>2. \A x \in Events : pc[x] = "new" => postbox[x] = "none"
  BY Zenon DEF ActorInv, RouteInv
<1>3. \A x \in Events : postbox[x] = "none" => postbox'[x] = "none"
  BY DEF Consumed, Drained, Postbox
<1>4. postbox' \in [Events -> Boxes]
  BY Zenon DEF Consumed, ActorInv, Types, Boxes
<1> QED BY <1>2, <1>3, <1>4, Zenon

LEMMA SamePostbox ==
    ASSUME ActorInv, postbox' = postbox, assigned' = assigned
    PROVE  /\ postbox' \in [Events -> Boxes]
           /\ \A x \in Events : pc[x] = "new" => postbox'[x] = "none"
BY DEF ActorInv, Types, Boxes, RouteInv

-----------------------------------------------------------------------------
\* One lemma per action

LEMMA ActorInit == Init => ActorInv
<1> SUFFICES ASSUME Init PROVE ActorInv
  BY Zenon
<1>1. Types
  BY DEF Init, Types, NoSnapshot, NoEffect, Snapshot, Effect, Slots
<1>2. TurnInv /\ RouteInv /\ SourceInv
  BY DEF Init, TurnInv, RouteInv, SourceInv, Known, NoSnapshot, NoEffect, Slots
<1>3. FlightInv /\ SnapshotInv /\ EffectInv /\ StaleInv
  BY DEF Init, FlightInv, SnapshotInv, EffectInv, StaleInv, NoEffect, Slots
<1> QED BY <1>1, <1>2, <1>3 DEF ActorInv

LEMMA FollowUpInv ==
    ASSUME ActorInv, NEW e \in Events, FollowUp(e)
    PROVE  ActorInv'
<1> DEFINE th == assigned[e].thread
<1>1. /\ pc[e] = "routed"
      /\ pc' = [pc EXCEPT ![e] = "done"]
      /\ UNCHANGED <<threads, turns, assigned, snapshot, effects, stale, inFlight>>
  BY DEF FollowUp, threadVars
<1>2. /\ pc \in [Events -> PCs]
      /\ postbox \in [Events -> Boxes]
      /\ inFlight \in [Threads -> BOOLEAN]
  BY DEF ActorInv, Types, PCs, Boxes
<1>3. FlightInv'
  <2>1. \A x \in Events : pc'[x] = "generating" <=> pc[x] = "generating"
    BY <1>1, <1>2
  <2> QED BY <1>1, <2>1, FlightKept, Zenon DEF AssignedKept
<1>4. CASE postbox' = postbox
  BY <1>1, <1>2, <1>3, <1>4, SamePostbox, TaskMoves, Zenon
<1>5. CASE postbox' = [postbox EXCEPT ![e] =
              IF Cardinality(Postbox(th, "waiting")) >= Cap THEN "deferred"
                                                            ELSE "waiting"]
  <2>1. /\ postbox' \in [Events -> Boxes]
        /\ \A x \in Events : x # e => postbox'[x] = postbox[x]
    BY <1>2, <1>5 DEF Boxes
  <2>2. \A x \in Events : pc[x] = "new" => postbox'[x] = "none"
    BY <1>1, <2>1, Zenon DEF ActorInv, RouteInv
  <2> QED BY <1>1, <1>2, <1>3, <2>1, <2>2, TaskMoves, Zenon
<1>6. postbox' = postbox \/ postbox' = [postbox EXCEPT ![e] =
              IF Cardinality(Postbox(th, "waiting")) >= Cap THEN "deferred"
                                                            ELSE "waiting"]
  BY DEF FollowUp
<1> QED BY <1>4, <1>5, <1>6, Zenon

LEMMA PlainAnswerInv ==
    ASSUME ActorInv, NEW e \in Events, PlainAnswer(e)
    PROVE  ActorInv'
<1>1. /\ pc[e] = "plain"
      /\ pc' = [pc EXCEPT ![e] = "replying"]
      /\ UNCHANGED <<threads, turns, assigned, snapshot, effects, stale, inFlight,
                     postbox>>
  BY DEF PlainAnswer, threadVars, actorVars
<1>2. /\ pc \in [Events -> PCs]
      /\ inFlight \in [Threads -> BOOLEAN]
  BY Zenon DEF ActorInv, Types, PCs
<1>3. FlightInv'
  <2>1. \A x \in Events : pc'[x] = "generating" <=> pc[x] = "generating"
    BY <1>1, <1>2
  <2> QED BY <1>1, <2>1, FlightKept, Zenon DEF AssignedKept
<1> QED BY <1>1, <1>2, <1>3, SamePostbox, TaskMoves, Zenon

\* TurnClosed, Answer and ProviderFails end the run without touching a turn.
LEMMA RunEndsInv ==
    ASSUME ActorInv, NEW e \in Events, TurnClosed(e) \/ Answer(e) \/ ProviderFails(e)
    PROVE  ActorInv'
<1>1. PICK l \in {"replying", "done"} : RunEnds(e, l)
  BY Zenon DEF TurnClosed, Answer, ProviderFails
<1>2. /\ pc[e] = "generating"
      /\ UNCHANGED <<threads, turns, assigned, effects, stale>>
      /\ postbox' = postbox \/ postbox' = Consumed(assigned[e].thread)
  BY DEF TurnClosed, Answer, ProviderFails, threadVars
<1>3. /\ pc' = [pc EXCEPT ![e] = l]
      /\ snapshot' = snapshot
      /\ inFlight' \in [Threads -> BOOLEAN]
  BY <1>1, <1>2, RunEndsTypes, Zenon
<1>4. FlightInv'
  BY <1>1, <1>2, RunEndsFlight, Zenon
<1>5. /\ postbox' \in [Events -> Boxes]
      /\ \A x \in Events : pc[x] = "new" => postbox'[x] = "none"
  BY <1>2, SamePostbox, ConsumedFacts, Zenon
<1> QED BY <1>2, <1>3, <1>4, <1>5, TaskMoves, Zenon

\* cancel_stale_effects cancels and nothing else.
LEMMA StaleCancelledFacts ==
    ASSUME ActorInv, NEW i, NEW r, effects' = StaleCancelled(i, r)
    PROVE  effects' \in [Slots -> Effect] /\ \A f \in Slots : Milder(f)
<1>1. effects \in [Slots -> Effect] /\ DOMAIN effects = Slots
  BY DEF ActorInv, Types
<1>2. \A f \in Slots :
         \/ effects'[f] = effects[f]
         \/ Waiting(f) /\ effects'[f] = [effects[f] EXCEPT !.state = "cancelled"]
  BY <1>1 DEF StaleCancelled
<1>3. \A f \in Slots : [effects[f] EXCEPT !.state = "cancelled"] \in Effect
  BY <1>1 DEF Effect
<1>4. effects' \in [Slots -> Effect]
  BY <1>1, <1>3 DEF StaleCancelled
<1>5. \A f \in Slots : Milder(f)
  <2> SUFFICES ASSUME NEW f \in Slots PROVE Milder(f)
    OBVIOUS
  <2>1. effects[f] \in Effect
    BY <1>1, Zenon
  <2> QED BY <1>2, <2>1, Zenon DEF Milder, Waiting, Effect
<1> QED BY <1>4, <1>5, Zenon

\* A turn is replaced by one of the same thread with no lower revision.
LEMMA TurnReplaced ==
    ASSUME Types, NEW i \in DOMAIN turns, NEW t \in Turn,
           turns' = [turns EXCEPT ![i] = t],
           t.thread = turns[i].thread, t.revision >= turns[i].revision
    PROVE  /\ TurnsGrow
           /\ DOMAIN turns' = DOMAIN turns
           /\ \A j \in DOMAIN turns : turns'[j] = IF j = i THEN t ELSE turns[j]
<1>1. /\ Len(turns) \in Nat
      /\ DOMAIN turns = 1 .. Len(turns)
      /\ turns \in [1 .. Len(turns) -> Turn]
  BY TurnTypes, Zenon
<1>2. /\ turns' \in [1 .. Len(turns) -> Turn]
      /\ DOMAIN turns' = DOMAIN turns
      /\ \A j \in DOMAIN turns : turns'[j] = IF j = i THEN t ELSE turns[j]
  BY <1>1, Zenon
<1>3. turns' \in Seq(Turn)
  BY <1>1, <1>2
<1>4. \A j \in DOMAIN turns : turns[j].revision \in Nat /\ t.revision \in Nat
  BY <1>1, Zenon DEF Turn
<1> QED BY <1>2, <1>3, <1>4 DEF TurnsGrow

LEMMA SupersededInv ==
    ASSUME ActorInv, NEW e \in Events, Superseded(e)
    PROVE  ActorInv'
<1> DEFINE i == snapshot[e].turn
<1>1. /\ pc[e] = "generating"
      /\ turns[i].state = "open"
      /\ postbox' = Consumed(assigned[e].thread)
      /\ RunEnds(e, "done")
      /\ UNCHANGED <<threads, assigned, stale>>
  BY DEF Superseded
<1> DEFINE edited == \E p \in Drained(assigned[e].thread) : kind[p] = "edit"
           r == turns[i].revision + (IF edited THEN 1 ELSE 0)
<1>2. /\ turns' = [turns EXCEPT ![i].revision = r]
      /\ effects' = StaleCancelled(i, r)
  BY Zenon DEF Superseded
<1>3. /\ i \in DOMAIN turns
      /\ turns[i] \in Turn
  BY <1>1, TurnTypes, Zenon DEF ActorInv, SnapshotInv, FrozenWell
<1>a. r \in Nat /\ r >= turns[i].revision
  BY <1>3 DEF Turn
<1> HIDE DEF r
<1> DEFINE t == [turns[i] EXCEPT !.revision = r]
<1>4. /\ t \in Turn
      /\ t.thread = turns[i].thread
      /\ t.revision >= turns[i].revision
      /\ t.state = turns[i].state
      /\ t.sources = turns[i].sources
      /\ turns' = [turns EXCEPT ![i] = t]
  BY <1>2, <1>3, <1>a DEF Turn
<1> HIDE DEF t, i
<1>5. /\ TurnsGrow
      /\ DOMAIN turns' = DOMAIN turns
      /\ \A j \in DOMAIN turns : turns'[j] = IF j = i THEN t ELSE turns[j]
  BY <1>3, <1>4, TurnReplaced, Zenon DEF ActorInv
<1>6. /\ TurnInv'
      /\ threads' \in [Threads -> {"absent", "open", "closed"}]
      /\ \A j \in DOMAIN turns' : \A p \in turns'[j].sources : pc[p] # "new"
  <2>1. \A j \in DOMAIN turns' : /\ turns'[j].thread = turns[j].thread
                                 /\ turns'[j].state = turns[j].state
                                 /\ turns'[j].sources = turns[j].sources
    BY <1>4, <1>5, Zenon
  <2>2. threads' = threads /\ DOMAIN turns' = DOMAIN turns
    BY <1>1, <1>5
  <2>3. TurnInv'
    BY <2>1, <2>2, Zenon DEF ActorInv, TurnInv
  <2>4. threads' \in [Threads -> {"absent", "open", "closed"}]
    BY <2>2, Zenon DEF ActorInv, Types
  <2>5. \A j \in DOMAIN turns' : \A p \in turns'[j].sources : pc[p] # "new"
    BY <2>1, <2>2, Zenon DEF ActorInv, SourceInv, Known
  <2> QED BY <2>3, <2>4, <2>5, Zenon
<1>7. /\ pc' = [pc EXCEPT ![e] = "done"]
      /\ snapshot' = snapshot
      /\ inFlight' \in [Threads -> BOOLEAN]
  BY <1>1, RunEndsTypes, Zenon
<1>8. FlightInv'
  BY <1>1, RunEndsFlight, Zenon
<1>9. /\ postbox' \in [Events -> Boxes]
      /\ \A x \in Events : pc[x] = "new" => postbox'[x] = "none"
  BY <1>1, ConsumedFacts, Zenon
<1>10. /\ effects' \in [Slots -> Effect]
       /\ \A f \in Slots : Milder(f)
  BY <1>2, StaleCancelledFacts, Zenon
<1>11. /\ pc' \in [Events -> PCs]
       /\ \A x \in Events : pc'[x] = "new" <=> pc[x] = "new"
       /\ \A x \in Events : pc'[x] \in {"new", "routed", "generating"}
                                => pc'[x] = pc[x]
  BY <1>1, <1>7, Zenon DEF ActorInv, Types, PCs
<1> QED BY <1>1, <1>5, <1>6, <1>7, <1>8, <1>9, <1>10, <1>11, Moves, Zenon

\* A turn is opened.
LEMMA TurnAppended ==
    ASSUME Types, NEW t \in Turn, turns' = Append(turns, t)
    PROVE  /\ TurnsGrow
           /\ DOMAIN turns' = DOMAIN turns \cup {Len(turns) + 1}
           /\ turns'[Len(turns) + 1] = t
           /\ \A j \in DOMAIN turns : turns'[j] = turns[j]
<1>1. /\ Len(turns) \in Nat
      /\ DOMAIN turns = 1 .. Len(turns)
      /\ turns \in [1 .. Len(turns) -> Turn]
      /\ turns \in Seq(Turn)
  BY TurnTypes, Zenon DEF Types
<1>2. /\ turns' \in Seq(Turn)
      /\ Len(turns') = Len(turns) + 1
      /\ \A j \in 1 .. Len(turns) : turns'[j] = turns[j]
      /\ turns'[Len(turns) + 1] = t
  BY <1>1
<1>3. DOMAIN turns' = 1 .. (Len(turns) + 1)
  BY <1>2
<1>4. \A j \in DOMAIN turns : turns[j].revision \in Nat
  BY <1>1, Zenon DEF Turn
<1> QED BY <1>1, <1>2, <1>3, <1>4 DEF TurnsGrow

\* promote_deferred moves inputs that were routed.
LEMMA PromotedFacts ==
    ASSUME ActorInv, NEW th \in Threads, assigned' = assigned,
           postbox' \in Promoted(Consumed(th), th)
    PROVE  /\ postbox' \in [Events -> Boxes]
           /\ \A x \in Events : pc[x] = "new" => postbox'[x] = "none"
<1> DEFINE box == Consumed(th)
           D == {x \in Events : assigned[x].thread = th /\ box[x] = "deferred"}
<1>1. PICK c \in SUBSET D :
         postbox' = [x \in Events |-> IF x \in c THEN "waiting" ELSE box[x]]
  BY Zenon DEF Promoted
<1>2. /\ box \in [Events -> Boxes]
      /\ \A x \in Events : pc[x] = "new" => box[x] = "none"
  BY Zenon DEF ActorInv, Types, RouteInv, Consumed, Drained, Postbox, Boxes
<1>3. postbox' \in [Events -> Boxes]
  BY <1>1, <1>2, Zenon DEF Boxes
<1>4. \A x \in Events : pc[x] = "new" => postbox'[x] = "none"
  BY <1>1, <1>2, Zenon
<1> QED BY <1>3, <1>4

LEMMA HandOverInv ==
    ASSUME ActorInv, NEW e \in Events, HandOver(e)
    PROVE  ActorInv'
<1> DEFINE th == assigned[e].thread
           i == snapshot[e].turn
           t == NewTurn(th, Drained(th), TRUE)
<1>1. /\ pc[e] = "generating"
      /\ turns[i].state = "open"
      /\ turns' = Append(turns, t)
      /\ postbox' \in Promoted(Consumed(th), th)
      /\ RunEnds(e, "replying")
      /\ UNCHANGED <<threads, assigned, effects, stale>>
  BY Zenon DEF HandOver
<1>2. /\ th \in Threads
      /\ threads[th] = "open"
  BY <1>1, Zenon DEF ActorInv, RouteInv, SnapshotInv, FrozenWell, TurnInv
<1>3. /\ Drained(th) \in SUBSET Events
      /\ \A p \in Drained(th) : pc[p] # "new"
  BY Zenon DEF ActorInv, RouteInv, Drained, Postbox
<1>4. /\ t \in Turn
      /\ t.thread = th
      /\ t.sources = Drained(th)
  BY <1>2, <1>3 DEF NewTurn, Turn
<1> HIDE DEF t
<1>5. /\ TurnsGrow
      /\ DOMAIN turns' = DOMAIN turns \cup {Len(turns) + 1}
      /\ turns'[Len(turns) + 1] = t
      /\ \A j \in DOMAIN turns : turns'[j] = turns[j]
  BY <1>1, <1>4, TurnAppended, ZenonT(30) DEF ActorInv
<1>6. /\ TurnInv'
      /\ threads' \in [Threads -> {"absent", "open", "closed"}]
      /\ \A j \in DOMAIN turns' : \A p \in turns'[j].sources : pc[p] # "new"
  <2>1. TurnInv'
    BY <1>1, <1>2, <1>4, <1>5 DEF ActorInv, Types, TurnInv
  <2>2. threads' \in [Threads -> {"absent", "open", "closed"}]
    BY <1>1, <1>2 DEF ActorInv, Types
  <2>3. \A j \in DOMAIN turns : \A p \in turns[j].sources : pc[p] # "new"
    BY Zenon DEF ActorInv, SourceInv, Known
  <2>4. \A j \in DOMAIN turns' : \A p \in turns'[j].sources : pc[p] # "new"
    BY <1>3, <1>4, <1>5, <2>3, Zenon
  <2> QED BY <2>1, <2>2, <2>4, Zenon
<1>7. /\ pc' = [pc EXCEPT ![e] = "replying"]
      /\ snapshot' = snapshot
      /\ inFlight' \in [Threads -> BOOLEAN]
  BY <1>1, RunEndsTypes, Zenon
<1>8. FlightInv'
  BY <1>1, RunEndsFlight, Zenon
<1>9. /\ postbox' \in [Events -> Boxes]
      /\ \A x \in Events : pc[x] = "new" => postbox'[x] = "none"
  BY <1>1, <1>2, PromotedFacts, Zenon
<1>10. /\ effects' \in [Slots -> Effect]
       /\ \A f \in Slots : Milder(f)
  BY <1>1, SameEffects, Zenon
<1>11. /\ pc' \in [Events -> PCs]
       /\ \A x \in Events : pc'[x] = "new" <=> pc[x] = "new"
       /\ \A x \in Events : pc'[x] \in {"new", "routed", "generating"}
                                => pc'[x] = pc[x]
  BY <1>1, <1>7, Zenon DEF ActorInv, Types, PCs
<1> QED BY <1>1, <1>5, <1>6, <1>7, <1>8, <1>9, <1>10, <1>11, Moves, Zenon

LEMMA ExecuteInv ==
    ASSUME ActorInv, NEW f \in Slots, Execute(f)
    PROVE  ActorInv'
<1>1. /\ effects[f].state = "queued"
      /\ UNCHANGED <<threads, turns, assigned, postbox, inFlight, pc, snapshot, stale>>
  BY DEF Execute, threadVars, actorVars, taskVars
<1>2. PICK s \in {"dispatched", "cancelled"} :
         effects' = [effects EXCEPT ![f].state = s]
  BY Zenon DEF Execute
<1>3. effects \in [Slots -> Effect]
  BY DEF ActorInv, Types
<1>4. /\ effects' \in [Slots -> Effect]
      /\ \A g \in Slots : Milder(g)
  BY <1>1, <1>2, <1>3, Zenon DEF Milder, Waiting, Effect
<1>5. /\ TurnsGrow
      /\ TurnInv'
      /\ threads' \in [Threads -> {"absent", "open", "closed"}]
      /\ \A i \in DOMAIN turns' : \A p \in turns'[i].sources : pc[p] # "new"
  BY <1>1, SameTurns, Zenon
<1>6. FlightInv'
  BY <1>1, FlightKept, Zenon DEF AssignedKept
<1>7. /\ postbox' \in [Events -> Boxes]
      /\ \A x \in Events : pc[x] = "new" => postbox'[x] = "none"
  BY <1>1, SamePostbox, Zenon
<1>8. /\ pc' \in [Events -> PCs]
      /\ inFlight' \in [Threads -> BOOLEAN]
  BY <1>1 DEF ActorInv, Types, PCs
<1> QED BY <1>1, <1>4, <1>5, <1>6, <1>7, <1>8, Moves, Zenon

LEMMA SettleInv ==
    ASSUME ActorInv, NEW i \in DOMAIN turns, Settle(i)
    PROVE  ActorInv'
<1>1. /\ turns' = [turns EXCEPT ![i].state = "closed"]
      /\ UNCHANGED <<threads, assigned, postbox, inFlight, pc, snapshot, effects, stale>>
  BY DEF Settle, actorVars, taskVars
<1>2. turns[i] \in Turn
  BY TurnTypes DEF ActorInv
<1> DEFINE t == [turns[i] EXCEPT !.state = "closed"]
<1>3. /\ t \in Turn
      /\ t.thread = turns[i].thread
      /\ t.revision >= turns[i].revision
      /\ t.state # "open"
      /\ t.sources = turns[i].sources
      /\ turns' = [turns EXCEPT ![i] = t]
  BY <1>1, <1>2 DEF Turn
<1> HIDE DEF t
<1>4. /\ TurnsGrow
      /\ DOMAIN turns' = DOMAIN turns
      /\ \A j \in DOMAIN turns : turns'[j] = IF j = i THEN t ELSE turns[j]
  BY <1>3, TurnReplaced, Zenon DEF ActorInv
<1>5. /\ TurnInv'
      /\ threads' \in [Threads -> {"absent", "open", "closed"}]
      /\ \A j \in DOMAIN turns' : \A p \in turns'[j].sources : pc[p] # "new"
  <2>1. \A j \in DOMAIN turns' : /\ turns'[j].thread = turns[j].thread
                                 /\ turns'[j].state = "open" => turns[j].state = "open"
                                 /\ turns'[j].sources = turns[j].sources
    BY <1>3, <1>4
  <2> QED BY <1>1, <1>4, <2>1 DEF ActorInv, Types, TurnInv, SourceInv, Known
<1>6. FlightInv'
  BY <1>1, FlightKept DEF AssignedKept
<1>7. /\ postbox' \in [Events -> Boxes]
      /\ \A x \in Events : pc[x] = "new" => postbox'[x] = "none"
  BY <1>1, SamePostbox
<1>8. /\ pc' \in [Events -> PCs]
      /\ inFlight' \in [Threads -> BOOLEAN]
  BY <1>1 DEF ActorInv, Types, PCs
<1>9. /\ effects' \in [Slots -> Effect]
      /\ \A f \in Slots : Milder(f)
  BY <1>1, SameEffects, Zenon
<1> QED BY <1>1, <1>4, <1>5, <1>6, <1>7, <1>8, <1>9, Moves, Zenon

LEMMA CrashInv ==
    ASSUME ActorInv, Crash
    PROVE  ActorInv'
<1>1. /\ pc' = [e \in Events |-> IF pc[e] = "new" THEN "new" ELSE "done"]
      /\ inFlight' = [th \in Threads |-> FALSE]
      /\ UNCHANGED <<threads, turns, assigned, postbox, snapshot, stale>>
  BY Zenon DEF Crash, threadVars
<1>2. effects \in [Slots -> Effect] /\ DOMAIN effects = Slots
  BY DEF ActorInv, Types
<1>3. effects' = [f \in Slots |-> IF effects[f].state = "queued"
                                  THEN [effects[f] EXCEPT !.state = "stranded"]
                                  ELSE effects[f]]
  BY <1>2 DEF Crash
<1>4. /\ effects' \in [Slots -> Effect]
      /\ \A f \in Slots : Milder(f)
  BY <1>2, <1>3 DEF Milder, Waiting, Effect
<1>5. /\ TurnsGrow
      /\ TurnInv'
      /\ threads' \in [Threads -> {"absent", "open", "closed"}]
      /\ \A i \in DOMAIN turns' : \A p \in turns'[i].sources : pc[p] # "new"
  BY <1>1, SameTurns, Zenon
<1>6. \A e \in Events : pc'[e] # "generating" /\ (pc'[e] = "new" <=> pc[e] = "new")
  BY <1>1, Zenon
<1>7. FlightInv'
  BY <1>1, <1>6, Zenon DEF FlightInv
<1>8. /\ postbox' \in [Events -> Boxes]
      /\ \A x \in Events : pc[x] = "new" => postbox'[x] = "none"
  BY <1>1, SamePostbox, Zenon
<1>9. /\ pc' \in [Events -> PCs]
      /\ inFlight' \in [Threads -> BOOLEAN]
      /\ \A x \in Events : pc'[x] \in {"new", "routed", "generating"}
                                => pc'[x] = pc[x]
  BY <1>1, Zenon DEF ActorInv, Types, PCs
<1> QED BY <1>1, <1>4, <1>5, <1>6, <1>7, <1>8, <1>9, Moves, Zenon

LEMMA ResetInv ==
    ASSUME ActorInv, Reset
    PROVE  ActorInv'
<1> DEFINE open == {th \in Threads : threads[th] = "open"}
<1>1. /\ threads' = [th \in Threads |-> IF th \in open THEN "closed" ELSE threads[th]]
      /\ turns' = [i \in DOMAIN turns |->
                     IF turns[i].thread \in open /\ turns[i].state = "open"
                     THEN [turns[i] EXCEPT !.state = "superseded"] ELSE turns[i]]
      /\ postbox' = [e \in Events |->
                       IF assigned[e].thread \in open
                          /\ postbox[e] \in {"waiting", "deferred"}
                       THEN "cancelled" ELSE postbox[e]]
      /\ UNCHANGED <<assigned, inFlight, pc, snapshot, stale>>
  BY Zenon DEF Reset, taskVars
<1>2. effects \in [Slots -> Effect] /\ DOMAIN effects = Slots
  BY DEF ActorInv, Types
<1>3. effects' = [f \in Slots |->
                    IF Waiting(f) /\ turns[effects[f].turn].thread \in open
                    THEN [effects[f] EXCEPT !.state = "cancelled"] ELSE effects[f]]
  BY <1>2 DEF Reset
<1>4. /\ effects' \in [Slots -> Effect]
      /\ \A f \in Slots : Milder(f)
  <2>1. \A f \in Slots :
           \/ effects'[f] = effects[f]
           \/ Waiting(f) /\ effects'[f] = [effects[f] EXCEPT !.state = "cancelled"]
    BY <1>3
  <2>2. \A f \in Slots : [effects[f] EXCEPT !.state = "cancelled"] \in Effect
    BY <1>2, Zenon DEF Effect
  <2>3. effects' \in [Slots -> Effect]
    BY <1>2, <1>3, <2>2, Zenon
  <2>4. ASSUME NEW f \in Slots PROVE Milder(f)
    <3>1. effects[f] \in Effect
      BY <1>2
    <3> QED BY <2>1, <3>1, ZenonT(30) DEF Milder, Waiting, Effect
  <2> QED BY <2>3, <2>4, Zenon
<1>5. /\ Len(turns) \in Nat
      /\ DOMAIN turns = 1 .. Len(turns)
      /\ \A i \in DOMAIN turns : turns[i] \in Turn
  BY TurnTypes DEF ActorInv
<1>6. \A i \in DOMAIN turns :
         /\ turns'[i] \in Turn
         /\ turns'[i].thread = turns[i].thread
         /\ turns'[i].revision = turns[i].revision
         /\ turns'[i].sources = turns[i].sources
  BY <1>1, <1>5, Zenon DEF Turn
<1>7. DOMAIN turns' = DOMAIN turns /\ turns' \in [1 .. Len(turns) -> Turn]
  BY <1>1, <1>5, <1>6, Zenon
<1>8. turns' \in Seq(Turn)
  BY <1>5, <1>7
<1>9. TurnsGrow
  <2>1. \A i \in DOMAIN turns : turns[i].revision \in Nat
    BY <1>5 DEF Turn
  <2> QED BY <1>6, <1>7, <1>8, <2>1 DEF TurnsGrow
<1>10. \A i \in DOMAIN turns' : turns'[i].state # "open"
  <2> SUFFICES ASSUME NEW i \in DOMAIN turns PROVE turns'[i].state # "open"
    BY <1>7, Zenon
  <2>1. turns[i].thread \in Threads
    BY <1>5, Zenon DEF Turn
  <2>2. turns[i].state = "open" => turns[i].thread \in open
    BY <2>1 DEF ActorInv, TurnInv
  <2>3. turns[i] \in Turn
    BY <1>5, Zenon
  <2> QED BY <1>1, <2>2, <2>3, Zenon DEF Turn
<1>11. /\ TurnInv'
       /\ threads' \in [Threads -> {"absent", "open", "closed"}]
       /\ \A j \in DOMAIN turns' : \A p \in turns'[j].sources : pc[p] # "new"
  BY <1>1, <1>6, <1>7, <1>10 DEF ActorInv, Types, TurnInv, SourceInv, Known
<1>12. FlightInv'
  BY <1>1, FlightKept, Zenon DEF AssignedKept
<1>13. /\ postbox' \in [Events -> Boxes]
       /\ \A x \in Events : pc[x] = "new" => postbox'[x] = "none"
  BY <1>1, Zenon DEF ActorInv, Types, Boxes, RouteInv
<1>14. /\ pc' \in [Events -> PCs]
       /\ inFlight' \in [Threads -> BOOLEAN]
  BY <1>1, Zenon DEF ActorInv, Types, PCs
<1> QED BY <1>1, <1>4, <1>9, <1>11, <1>12, <1>13, <1>14, Moves, Zenon

\* A message gets its thread and its turn.
LEMMA RouteInvariance ==
    ASSUME ActorInv, ActiveTurnIsOpen, NEW e \in Events, Route(e)
    PROVE  ActorInv'
<1>1. /\ pc[e] = "new"
      /\ pc' = [pc EXCEPT ![e] = "routed"]
      /\ UNCHANGED <<postbox, inFlight, snapshot, effects, stale>>
  BY DEF Route, actorVars
<1>2. PICK th \in Threads :
         /\ threads[th] # "closed"
         /\ threads' = [threads EXCEPT ![th] = "open"]
         /\ \/ /\ turns' = Append(turns, NewTurn(th, {e}, FALSE))
               /\ assigned' = [assigned EXCEPT ![e] =
                                 [thread |-> th, turn |-> Len(turns) + 1]]
            \/ /\ ActiveTurn(th) # 0
               /\ turns' = [turns EXCEPT ![ActiveTurn(th)].sources = @ \cup {e}]
               /\ assigned' = [assigned EXCEPT ![e] =
                                 [thread |-> th, turn |-> ActiveTurn(th)]]
  BY Zenon DEF Route
<1>3. /\ pc \in [Events -> PCs]
      /\ assigned \in [Events -> [thread : Threads \cup {"none"}, turn : Nat]]
      /\ threads \in [Threads -> {"absent", "open", "closed"}]
      /\ Types
  BY Zenon DEF ActorInv, Types, PCs
<1>4. \A x \in Events : pc'[x] = IF x = e THEN "routed" ELSE pc[x]
  BY <1>1, <1>3
<1>5. PICK k \in Nat :
         /\ TurnsGrow
         /\ k \in DOMAIN turns'
         /\ assigned' = [assigned EXCEPT ![e] = [thread |-> th, turn |-> k]]
         /\ turns'[k].thread = th
         /\ \A j \in DOMAIN turns' :
               IF j \in DOMAIN turns
               THEN /\ turns'[j].thread = turns[j].thread
                    /\ turns'[j].state = turns[j].state
                    /\ turns'[j].sources \subseteq turns[j].sources \cup {e}
               ELSE turns'[j].thread = th /\ turns'[j].sources = {e}
  <2>1. CASE /\ turns' = Append(turns, NewTurn(th, {e}, FALSE))
             /\ assigned' = [assigned EXCEPT ![e] =
                               [thread |-> th, turn |-> Len(turns) + 1]]
    <3> DEFINE t == NewTurn(th, {e}, FALSE)
    <3>1. t \in Turn /\ t.thread = th /\ t.sources = {e}
      BY DEF NewTurn, Turn
    <3> HIDE DEF t
    <3>2. /\ TurnsGrow
          /\ DOMAIN turns' = DOMAIN turns \cup {Len(turns) + 1}
          /\ turns'[Len(turns) + 1] = t
          /\ \A j \in DOMAIN turns : turns'[j] = turns[j]
      BY <1>3, <2>1, <3>1, TurnAppended, Zenon DEF t
    <3>3. Len(turns) + 1 \in Nat
      BY <1>3, TurnTypes
    <3> QED BY <2>1, <3>1, <3>2, <3>3, Zenon
  <2>2. CASE /\ ActiveTurn(th) # 0
             /\ turns' = [turns EXCEPT ![ActiveTurn(th)].sources = @ \cup {e}]
             /\ assigned' = [assigned EXCEPT ![e] =
                               [thread |-> th, turn |-> ActiveTurn(th)]]
    <3> DEFINE k == ActiveTurn(th)
               t == [turns[k] EXCEPT !.sources = @ \cup {e}]
    <3>1. k \in DOMAIN turns /\ turns[k].thread = th
      BY <1>3, <2>2, Zenon DEF ActiveTurnIsOpen, OpenTurns
    <3>2. turns[k] \in Turn /\ k \in Nat
      BY <1>3, <3>1, TurnTypes
    <3>3. /\ t \in Turn
          /\ t.thread = turns[k].thread
          /\ t.state = turns[k].state
          /\ t.revision >= turns[k].revision
          /\ t.sources = turns[k].sources \cup {e}
          /\ turns' = [turns EXCEPT ![k] = t]
      BY <2>2, <3>2 DEF Turn
    <3> HIDE DEF t, k
    <3>4. /\ TurnsGrow
          /\ DOMAIN turns' = DOMAIN turns
          /\ \A j \in DOMAIN turns : turns'[j] = IF j = k THEN t ELSE turns[j]
      BY <1>3, <3>1, <3>3, TurnReplaced, Zenon
    <3>5. assigned' = [assigned EXCEPT ![e] = [thread |-> th, turn |-> k]]
      BY <2>2, Zenon DEF k
    <3>6. \A j \in DOMAIN turns' :
             /\ turns'[j].thread = turns[j].thread
             /\ turns'[j].state = turns[j].state
             /\ turns'[j].sources \subseteq turns[j].sources \cup {e}
      BY <3>3, <3>4, Zenon
    <3> QED BY <3>1, <3>2, <3>4, <3>5, <3>6, Zenon
  <2> QED BY <1>2, <2>1, <2>2, Zenon
<1>6. \A x \in Events : assigned'[x] = IF x = e THEN [thread |-> th, turn |-> k]
                                               ELSE assigned[x]
  BY <1>3, <1>5, Zenon
<1>7. AssignedKept
  BY <1>1, <1>6, Zenon DEF AssignedKept
<1>8. Types'
  <2>1. turns' \in Seq(Turn)
    BY <1>5, Zenon DEF TurnsGrow
  <2>2. assigned' \in [Events -> [thread : Threads \cup {"none"}, turn : Nat]]
    BY <1>3, <1>5, Zenon
  <2>3. pc' \in [Events -> PCs]
    BY <1>1, <1>3 DEF PCs
  <2>4. threads' \in [Threads -> {"absent", "open", "closed"}]
    BY <1>2, <1>3, Zenon
  <2> QED BY <1>1, <1>3, <2>1, <2>2, <2>3, <2>4, Zenon DEF Types, PCs
<1>9. TurnInv'
  <2>1. \A t \in Threads : threads[t] = "open" => threads'[t] = "open"
    BY <1>2, <1>3, Zenon
  <2>2. threads'[th] = "open"
    BY <1>2, <1>3, Zenon
  <2>3. \A j \in DOMAIN turns : turns[j].thread \in Threads
    BY <1>3, TurnTypes, Zenon DEF Turn
  <2> QED BY <1>5, <2>1, <2>2, <2>3, Zenon DEF ActorInv, TurnInv
<1>10. RouteInv'
  <2>1. DOMAIN turns \subseteq DOMAIN turns'
    BY <1>5, Zenon DEF TurnsGrow
  <2>2. /\ postbox' = postbox
        /\ \A x \in Events \ {e} : pc'[x] = pc[x] /\ assigned'[x] = assigned[x]
    BY <1>1, <1>4, <1>6, Zenon
  <2>3. /\ pc'[e] = "routed"
        /\ assigned'[e].thread = th /\ assigned'[e].turn = k
    BY <1>4, <1>6
  <2>4. ASSUME NEW x \in Events \ {e}
        PROVE  IF pc'[x] = "new" THEN assigned'[x].turn = 0 /\ postbox'[x] = "none"
               ELSE assigned'[x].thread \in Threads /\ assigned'[x].turn \in DOMAIN turns'
    BY <2>1, <2>2, ZenonT(30) DEF ActorInv, RouteInv
  <2>5. pc'[e] # "new" /\ assigned'[e].thread \in Threads /\ assigned'[e].turn \in DOMAIN turns'
    BY <1>5, <2>3, Zenon
  <2> QED BY <2>4, <2>5, Zenon DEF RouteInv
<1>11. SourceInv'
  <2>1. \A p \in Events : pc[p] # "new" => pc'[p] # "new"
    BY <1>4, Zenon
  <2>2. \A x \in Events : snapshot[x].sources \subseteq Events
    BY <1>3, Zenon DEF Types, Snapshot
  <2>3. \A f \in Slots : effects[f].sources \subseteq Events
    BY <1>3, Zenon DEF Types, Effect
  <2>4. \A j \in DOMAIN turns : turns[j].sources \subseteq Events
    BY <1>3, TurnTypes DEF Turn
  <2>5. pc'[e] # "new"
    BY <1>4, ZenonT(30)
  <2>6. \A j \in DOMAIN turns' : \A p \in turns'[j].sources : pc'[p] # "new"
    BY <1>5, <2>1, <2>4, <2>5 DEF ActorInv, SourceInv, Known
  <2> QED BY <1>1, <2>1, <2>2, <2>3, <2>6, Zenon DEF ActorInv, SourceInv, Known
<1>12. FlightInv'
  <2>1. inFlight' = inFlight
    BY <1>1, Zenon
  <2>2. \A x \in Events : pc'[x] = "generating" <=> pc[x] = "generating"
    BY <1>1, <1>4
  <2> QED BY <1>7, <2>1, <2>2, FlightKept, Zenon
<1>13. SnapshotInv'
  <2> SUFFICES ASSUME NEW x \in Events, pc'[x] = "generating" PROVE FrozenWell(x)'
    BY Zenon DEF SnapshotInv
  <2>1. pc[x] = "generating" /\ snapshot'[x] = snapshot[x] /\ stale' = stale
    BY <1>1, <1>4
  <2> QED BY <1>5, <1>7, <2>1, SnapshotKept, Zenon
<1>14. EffectInv'
  BY <1>1, <1>5, <1>7, EffectKept, Zenon DEF EffectInv, Waiting
<1>15. StaleInv'
  BY <1>1, <1>4 DEF ActorInv, StaleInv
<1> QED BY <1>8, <1>9, <1>10, <1>11, <1>12, <1>13, <1>14, <1>15, Zenon DEF ActorInv

\* A generation is frozen with turn i.
LEMMA Freezes ==
    ASSUME ActorInv, NEW e \in Events, pc[e] \in {"routed", "generating"},
           TurnsGrow, TurnInv', threads' = threads,
           \A j \in DOMAIN turns' : \A p \in turns'[j].sources : pc[p] # "new",
           assigned' = assigned, effects' = effects,
           stale' \subseteq stale, <<e, "snapshot">> \notin stale',
           NEW i \in DOMAIN turns', turns'[i].thread = assigned[e].thread,
           snapshot' = [snapshot EXCEPT ![e] =
                          [turn |-> i, revision |-> turns'[i].revision,
                           sources |-> turns'[i].sources]],
           pc' = [pc EXCEPT ![e] = "generating"],
           inFlight' \in [Threads -> BOOLEAN], FlightInv',
           postbox' \in [Events -> Boxes],
           \A x \in Events : pc[x] = "new" => postbox'[x] = "none"
    PROVE  ActorInv'
<1> DEFINE s == [turn |-> i, revision |-> turns'[i].revision,
                 sources |-> turns'[i].sources]
<1>1. turns' \in Seq(Turn)
  BY Zenon DEF TurnsGrow
<1>2. /\ \A j \in DOMAIN turns' : turns'[j] \in Turn
      /\ DOMAIN turns' \subseteq Nat
  BY <1>1
<1>3. s \in Snapshot
  BY <1>2, Zenon DEF Snapshot, Turn
<1>4. Types
  BY Zenon DEF ActorInv
<1>5. /\ \A x \in Events : pc'[x] = IF x = e THEN "generating" ELSE pc[x]
      /\ \A x \in Events : snapshot'[x] = IF x = e THEN s ELSE snapshot[x]
      /\ pc' \in [Events -> PCs]
      /\ snapshot' \in [Events -> Snapshot]
  BY <1>3, <1>4, Zenon DEF Types, PCs
<1>6. Types'
  BY <1>1, <1>4, <1>5, Zenon DEF Types, PCs, Boxes
<1>7. RouteInv'
  BY <1>5, Zenon DEF ActorInv, RouteInv, TurnsGrow
<1>8. AssignedKept
  BY Zenon DEF AssignedKept
<1>9. \A p \in Events : pc[p] # "new" => pc'[p] # "new"
  BY <1>5, Zenon
<1>10. SourceInv'
  <2>1. \A j \in DOMAIN turns' : turns'[j].sources \subseteq Events
    BY <1>2, Zenon DEF Turn
  <2>2. \A j \in DOMAIN turns' : \A p \in turns'[j].sources : pc'[p] # "new"
    BY <1>9, <2>1, Zenon
  <2>3. \A x \in Events : snapshot[x].sources \subseteq Events
    BY <1>4, Zenon DEF Types, Snapshot
  <2>4. \A f \in Slots : effects[f].sources \subseteq Events
    BY <1>4, Zenon DEF Types, Effect
  <2>5. \A x \in Events : \A p \in snapshot'[x].sources : pc'[p] # "new"
    <3>1. \A x \in Events : \A p \in snapshot[x].sources : pc'[p] # "new"
      BY <1>9, <2>3, ZenonT(30) DEF ActorInv, SourceInv, Known
    <3>2. \A x \in Events : snapshot'[x].sources = snapshot[x].sources
                            \/ snapshot'[x].sources = turns'[i].sources
      BY <1>5
    <3> QED BY <2>2, <3>1, <3>2, Zenon
  <2>6. \A f \in Slots : \A p \in effects'[f].sources : pc'[p] # "new"
    BY <1>9, <2>4, Zenon DEF ActorInv, SourceInv, Known
  <2> QED BY <2>2, <2>5, <2>6, Zenon DEF SourceInv, Known
<1>11. SnapshotInv'
  <2> SUFFICES ASSUME NEW x \in Events, pc'[x] = "generating" PROVE FrozenWell(x)'
    BY Zenon DEF SnapshotInv
  <2>1. CASE x # e
    <3>1. /\ pc[x] = "generating"
          /\ snapshot'[x] = snapshot[x]
          /\ <<x, "snapshot">> \in stale' => <<x, "snapshot">> \in stale
      BY <1>5, <2>1, ZenonT(30)
    <3> QED BY <1>8, <3>1, SnapshotKept, Zenon
  <2>2. CASE x = e
    <3>1. snapshot'[e].turn = i /\ snapshot'[e].revision = turns'[i].revision
      BY <1>5, Zenon
    <3>2. turns'[i].revision \in Nat
      BY <1>2, Zenon DEF Turn
    <3>3. snapshot'[e].revision <= turns'[i].revision
      BY <3>1, <3>2
    <3> QED BY <2>2, <3>1, <3>3, Zenon DEF FrozenWell
  <2> QED BY <2>1, <2>2, Zenon
<1>12. EffectInv'
  <2> SUFFICES ASSUME NEW f \in Slots, effects'[f].state # "none" PROVE BoundWell(f)'
    BY Zenon DEF EffectInv
  <2>1. f \in stale' => f \in stale
    BY Zenon
  <2> QED BY <1>8, <2>1, EffectKept, Zenon DEF Waiting
<1>13. StaleInv'
  BY <1>5, Zenon DEF ActorInv, StaleInv
<1> QED BY <1>6, <1>7, <1>10, <1>11, <1>12, <1>13, Zenon DEF ActorInv

LEMMA StartRunInv ==
    ASSUME ActorInv, ActiveTurnIsOpen, NEW e \in Events, StartRun(e)
    PROVE  ActorInv'
<1> DEFINE th == assigned[e].thread
<1>1. /\ pc[e] = "routed"
      /\ ~inFlight[th]
      /\ UNCHANGED <<threads, turns, assigned, postbox, effects, stale>>
  BY Zenon DEF StartRun, threadVars
<1>2. /\ th \in Threads
      /\ pc \in [Events -> PCs]
      /\ inFlight \in [Threads -> BOOLEAN]
  BY <1>1, Zenon DEF ActorInv, RouteInv, Types, PCs
<1>3. /\ postbox' \in [Events -> Boxes]
      /\ \A x \in Events : pc[x] = "new" => postbox'[x] = "none"
  BY <1>1, SamePostbox, Zenon
<1>4. CASE ActiveTurn(th) = 0
  <2>1. /\ pc' = [pc EXCEPT ![e] = "plain"]
        /\ UNCHANGED <<snapshot, inFlight>>
    BY <1>4, Zenon DEF StartRun
  <2>2. \A x \in Events : pc'[x] = "generating" <=> pc[x] = "generating"
    BY <1>1, <1>2, <2>1, Zenon
  <2>3. FlightInv'
    BY <1>1, <2>1, <2>2, FlightKept, Zenon DEF AssignedKept
  <2> QED BY <1>1, <1>2, <1>3, <2>1, <2>3, TaskMoves, Zenon
<1>5. CASE ActiveTurn(th) # 0
  <2> DEFINE i == ActiveTurn(th)
  <2>1. /\ pc' = [pc EXCEPT ![e] = "generating"]
        /\ snapshot' = [snapshot EXCEPT ![e] =
                          [turn |-> i, revision |-> turns'[i].revision,
                           sources |-> turns'[i].sources]]
        /\ inFlight' = [inFlight EXCEPT ![th] = TRUE]
    BY <1>1, <1>5, Zenon DEF StartRun, Frozen
  <2>2. i \in DOMAIN turns /\ turns[i].thread = th
    BY <1>5, Zenon DEF ActiveTurnIsOpen, OpenTurns
  <2> HIDE DEF i
  <2>3. /\ TurnsGrow
        /\ TurnInv'
        /\ \A j \in DOMAIN turns' : \A p \in turns'[j].sources : pc[p] # "new"
    BY <1>1, SameTurns, Zenon
  <2>4. /\ inFlight' \in [Threads -> BOOLEAN]
        /\ inFlight'[th]
        /\ \A t \in Threads : t # th => inFlight'[t] = inFlight[t]
        /\ \A x \in Events : pc'[x] = IF x = e THEN "generating" ELSE pc[x]
    BY <1>2, <2>1, Zenon
  <2>5. FlightInv'
    <3>1. \A x \in Events : pc[x] = "generating" =>
             assigned[x].thread \in Threads /\ assigned[x].thread # th
      BY <1>1, Zenon DEF ActorInv, RouteInv, FlightInv
    <3>2. \A x \in Events : pc'[x] = "generating" => inFlight'[assigned[x].thread]
      BY <1>2, <2>4, <3>1, Zenon DEF ActorInv, FlightInv
    <3>3. \A x, y \in Events :
             /\ pc'[x] = "generating" /\ pc'[y] = "generating"
             /\ assigned[x].thread = assigned[y].thread
             => x = y
      BY <2>4, <3>1 DEF ActorInv, FlightInv
    <3>4. \A t \in Threads : inFlight'[t] =>
             \E x \in Events : pc'[x] = "generating" /\ assigned[x].thread = t
      <4> SUFFICES ASSUME NEW t \in Threads, inFlight'[t]
                   PROVE  \E x \in Events : pc'[x] = "generating"
                                            /\ assigned[x].thread = t
        BY Zenon
      <4>1. CASE t = th
        BY <2>4, <4>1, ZenonT(30)
      <4>2. CASE t # th
        BY <1>1, <2>4, <4>2 DEF ActorInv, FlightInv
      <4> QED BY <4>1, <4>2, Zenon
    <3> QED BY <1>1, <3>2, <3>3, <3>4, Zenon DEF FlightInv
  <2>6. <<e, "snapshot">> \notin stale'
    BY <1>1, Zenon DEF ActorInv, StaleInv
  <2> QED BY <1>1, <1>3, <2>1, <2>2, <2>3, <2>4, <2>5, <2>6, Freezes, Zenon
<1> QED BY <1>4, <1>5, Zenon

\* What a regeneration does to its turn: it widens the sources by what it drained.
LEMMA RegenerateTurns ==
    ASSUME ActorInv, NEW e \in Events, Regenerate(e)
    PROVE  LET th == assigned[e].thread
               i == snapshot[e].turn
               t == [turns[i] EXCEPT !.sources = @ \cup Drained(th)]
           IN  /\ i \in DOMAIN turns /\ turns[i].thread = th /\ th \in Threads
               /\ \A p \in Drained(th) : pc[p] # "new"
               /\ t \in Turn
               /\ t.thread = th
               /\ t.state = turns[i].state
               /\ t.sources = turns[i].sources \cup Drained(th)
               /\ TurnsGrow
               /\ DOMAIN turns' = DOMAIN turns
               /\ \A j \in DOMAIN turns : turns'[j] = IF j = i THEN t ELSE turns[j]
<1> DEFINE th == assigned[e].thread
           i == snapshot[e].turn
           t == [turns[i] EXCEPT !.sources = @ \cup Drained(th)]
<1>1. /\ pc[e] = "generating"
      /\ turns[i].state = "open"
      /\ postbox' = Consumed(th)
      /\ turns' = [turns EXCEPT ![i].sources = @ \cup Drained(th)]
      /\ stale' = stale \ {<<e, "snapshot">>}
      /\ UNCHANGED <<threads, assigned, effects>>
  BY DEF Regenerate
<1>2. /\ i \in DOMAIN turns
      /\ turns[i] \in Turn
      /\ turns[i].thread = th
      /\ th \in Threads
  BY <1>1, TurnTypes, Zenon DEF ActorInv, SnapshotInv, FrozenWell, RouteInv
<1>3. /\ Drained(th) \in SUBSET Events
      /\ \A p \in Drained(th) : pc[p] # "new"
  BY DEF ActorInv, RouteInv, Drained, Postbox
<1>4. /\ t \in Turn
      /\ t.thread = turns[i].thread
      /\ t.revision >= turns[i].revision
      /\ t.state = turns[i].state
      /\ t.sources = turns[i].sources \cup Drained(th)
      /\ turns' = [turns EXCEPT ![i] = t]
  BY <1>1, <1>2, <1>3 DEF Turn
<1> HIDE DEF t
<1>5. /\ TurnsGrow
      /\ DOMAIN turns' = DOMAIN turns
      /\ \A j \in DOMAIN turns : turns'[j] = IF j = i THEN t ELSE turns[j]
  BY <1>2, <1>4, TurnReplaced, Zenon DEF ActorInv
<1> QED BY <1>2, <1>3, <1>4, <1>5, Zenon DEF t

LEMMA RegenerateInv ==
    ASSUME ActorInv, ActiveTurnIsOpen', NEW e \in Events, Regenerate(e)
    PROVE  ActorInv'
<1> DEFINE th == assigned[e].thread
           i == snapshot[e].turn
           t == [turns[i] EXCEPT !.sources = @ \cup Drained(th)]
<1>1. /\ pc[e] = "generating"
      /\ turns[i].state = "open"
      /\ postbox' = Consumed(th)
      /\ turns' = [turns EXCEPT ![i].sources = @ \cup Drained(th)]
      /\ stale' = stale \ {<<e, "snapshot">>}
      /\ UNCHANGED <<threads, assigned, effects>>
  BY DEF Regenerate
<1>2. /\ i \in DOMAIN turns /\ turns[i].thread = th /\ th \in Threads
      /\ \A p \in Drained(th) : pc[p] # "new"
      /\ t \in Turn
      /\ t.thread = th
      /\ t.state = turns[i].state
      /\ t.sources = turns[i].sources \cup Drained(th)
      /\ TurnsGrow
      /\ DOMAIN turns' = DOMAIN turns
      /\ \A j \in DOMAIN turns : turns'[j] = IF j = i THEN t ELSE turns[j]
  BY RegenerateTurns, Zenon
<1>3. Drained(th) \in SUBSET Events
  BY Zenon DEF Drained, Postbox
<1> HIDE DEF t
<1>6. /\ TurnInv'
      /\ threads' \in [Threads -> {"absent", "open", "closed"}]
      /\ \A j \in DOMAIN turns' : \A p \in turns'[j].sources : pc[p] # "new"
  <2>1. \A j \in DOMAIN turns' : /\ turns'[j].thread = turns[j].thread
                                 /\ turns'[j].state = turns[j].state
                                 /\ turns'[j].sources \subseteq
                                       turns[j].sources \cup Drained(th)
    BY <1>2
  <2> QED BY <1>1, <1>2, <1>3, <2>1 DEF ActorInv, Types, TurnInv, SourceInv, Known
<1>7. /\ postbox' \in [Events -> Boxes]
      /\ \A x \in Events : pc[x] = "new" => postbox'[x] = "none"
  BY <1>1, ConsumedFacts, Zenon
<1>8. CASE RunEnds(e, "done")
  <2>1. /\ pc' = [pc EXCEPT ![e] = "done"]
        /\ snapshot' = snapshot
        /\ inFlight' \in [Threads -> BOOLEAN]
    BY <1>1, <1>8, RunEndsTypes, Zenon
  <2>2. FlightInv'
    BY <1>1, <1>8, RunEndsFlight, Zenon
  <2>3. /\ effects' \in [Slots -> Effect]
        /\ \A f \in Slots : Milder(f)
    BY <1>1, SameEffects, Zenon
  <2>4. /\ pc' \in [Events -> PCs]
        /\ \A x \in Events : pc'[x] = "new" <=> pc[x] = "new"
        /\ \A x \in Events : pc'[x] \in {"new", "routed", "generating"}
                                => pc'[x] = pc[x]
    BY <1>1, <2>1, Zenon DEF ActorInv, Types, PCs
  <2>5. stale' \subseteq stale
    BY <1>1, Zenon
  <2> QED BY <1>1, <1>2, <1>6, <1>7, <2>1, <2>2, <2>3, <2>4, <2>5, Moves, Zenon
<1>9. CASE /\ snapshot' = [snapshot EXCEPT ![e] = Frozen(th)']
           /\ UNCHANGED <<pc, inFlight>>
  <2> DEFINE k == ActiveTurn(th)'
  <2>1. i \in OpenTurns(th)'
    <3>1. i \in DOMAIN turns' /\ turns'[i].thread = th /\ turns'[i].state = "open"
      BY <1>1, <1>2, Zenon
    <3> QED BY <1>1, <3>1, Zenon DEF OpenTurns
  <2>2. k \in OpenTurns(th)'
    BY <1>1, <2>1, Zenon DEF ActiveTurnIsOpen
  <2>3. k \in DOMAIN turns' /\ turns'[k].thread = th
    BY <1>1, <2>2, Zenon DEF OpenTurns
  <2>4. snapshot' = [snapshot EXCEPT ![e] =
                       [turn |-> k, revision |-> turns'[k].revision,
                        sources |-> turns'[k].sources]]
    BY <1>9, Zenon DEF Frozen
  <2> HIDE DEF k
  <2>5. FlightInv'
    BY <1>1, <1>9, FlightKept, Zenon DEF AssignedKept
  <2>6. /\ pc' = [pc EXCEPT ![e] = "generating"]
        /\ inFlight' \in [Threads -> BOOLEAN]
    BY <1>1, <1>9, Zenon DEF ActorInv, Types
  <2>7. stale' \subseteq stale /\ <<e, "snapshot">> \notin stale'
    BY <1>1
  <2> QED BY <1>1, <1>2, <1>6, <1>7, <2>3, <2>4, <2>5, <2>6, <2>7, Freezes, Zenon
<1>10. \/ RunEnds(e, "done")
       \/ /\ snapshot' = [snapshot EXCEPT ![e] = Frozen(th)']
          /\ UNCHANGED <<pc, inFlight>>
  BY Zenon DEF Regenerate
<1> QED BY <1>8, <1>9, <1>10, Zenon

\* Steps that leave tasks and turns alone and queue an effect.
LEMMA Queues ==
    ASSUME ActorInv, NEW f \in Slots, NEW x \in Effect,
           UNCHANGED <<threads, turns, assigned, postbox, inFlight, snapshot>>,
           effects' = [effects EXCEPT ![f] = x],
           stale \subseteq stale', stale' \subseteq stale \cup {f},
           x.state # "none", x.turn \in DOMAIN turns,
           x.revision <= turns[x.turn].revision,
           Known(x.sources),
           f \in stale' /\ OwnSources(x.turn, x.sources)
              => x.revision < turns[x.turn].revision,
           \A e \in Events : f # <<e, "snapshot">>,
           pc' \in [Events -> PCs],
           \A e \in Events : pc'[e] = pc[e] \/ (pc[e] = "replying" /\ pc'[e] = "done"),
           stale' \subseteq Events \X {"snapshot", "tool"}
    PROVE  ActorInv'
<1>1. Types
  BY Zenon DEF ActorInv
<1>2. /\ effects' \in [Slots -> Effect]
      /\ \A g \in Slots : effects'[g] = IF g = f THEN x ELSE effects[g]
  BY <1>1, Zenon DEF Types
<1>3. Types'
  BY <1>1, <1>2, Zenon DEF Types, PCs
<1>4. TurnsGrow /\ TurnInv'
  BY SameTurns, Zenon
<1>5. RouteInv'
  BY Zenon DEF ActorInv, RouteInv
<1>6. SourceInv'
  <2>1. \A j \in DOMAIN turns : turns[j].sources \subseteq Events
    BY <1>1, TurnTypes, Zenon DEF Turn
  <2>2. \A d \in Events : snapshot[d].sources \subseteq Events
    BY <1>1, Zenon DEF Types, Snapshot
  <2>3. \A g \in Slots : effects[g].sources \subseteq Events
    BY <1>1, Zenon DEF Types, Effect
  <2>4. x.sources \subseteq Events
    BY Zenon DEF Effect
  <2>5. \A p \in Events : pc[p] # "new" => pc'[p] # "new"
    BY Zenon
  <2>6. \A j \in DOMAIN turns' : \A p \in turns'[j].sources : pc'[p] # "new"
    BY <2>1, <2>5, Zenon DEF ActorInv, SourceInv, Known
  <2>7. \A d \in Events : \A p \in snapshot'[d].sources : pc'[p] # "new"
    BY <2>2, <2>5, ZenonT(30) DEF ActorInv, SourceInv, Known
  <2>8. \A g \in Slots : \A p \in effects'[g].sources : pc'[p] # "new"
    BY <1>2, <2>3, <2>4, <2>5 DEF ActorInv, SourceInv, Known
  <2> QED BY <2>6, <2>7, <2>8, Zenon DEF SourceInv, Known
<1>7. AssignedKept
  BY Zenon DEF AssignedKept
<1>8. FlightInv'
  BY <1>7, FlightKept, Zenon
<1>9. SnapshotInv'
  <2> SUFFICES ASSUME NEW d \in Events, pc'[d] = "generating" PROVE FrozenWell(d)'
    BY Zenon DEF SnapshotInv
  <2>1. /\ pc[d] = "generating"
        /\ snapshot'[d] = snapshot[d]
        /\ <<d, "snapshot">> \in stale' => <<d, "snapshot">> \in stale
    BY Zenon
  <2> QED BY <1>4, <1>7, <2>1, SnapshotKept, Zenon
<1>10. EffectInv'
  <2> SUFFICES ASSUME NEW g \in Slots, effects'[g].state # "none" PROVE BoundWell(g)'
    BY Zenon DEF EffectInv
  <2>1. CASE g = f
    BY <1>2, <2>1, Zenon DEF BoundWell, OwnSources
  <2>2. CASE g # f
    <3>1. effects'[g] = effects[g] /\ (g \in stale' => g \in stale)
      BY <1>2, <2>2, Zenon
    <3> QED BY <1>4, <1>7, <3>1, EffectKept, Zenon DEF Waiting
  <2> QED BY <2>1, <2>2, Zenon
<1>11. StaleInv'
  <2> SUFFICES ASSUME NEW d \in Events
               PROVE  /\ <<d, "snapshot">> \in stale' => pc'[d] \notin {"new", "routed"}
                      /\ <<d, "tool">> \in stale' => effects'[<<d, "tool">>].state # "none"
    BY DEF StaleInv
  <2>1. <<d, "tool">> \in Slots
    BY Zenon DEF Slots
  <2>2. <<d, "snapshot">> \in stale' => <<d, "snapshot">> \in stale
    BY Zenon
  <2> QED BY <1>2, <2>1, <2>2, Zenon DEF ActorInv, StaleInv
<1> QED BY <1>3, <1>4, <1>5, <1>6, <1>8, <1>9, <1>10, <1>11, Zenon DEF ActorInv

LEMMA ToolSendInv ==
    ASSUME ActorInv, NEW e \in Events, ToolSend(e)
    PROVE  ActorInv'
<1> DEFINE f == <<e, "tool">>
           i == snapshot[e].turn
           x == [turn |-> i, revision |-> snapshot[e].revision,
                 sources |-> snapshot[e].sources, state |-> "queued"]
<1>1. /\ pc[e] = "generating"
      /\ effects[f].state = "none"
      /\ effects' = [effects EXCEPT ![f] = x]
      /\ stale' = IF <<e, "snapshot">> \in stale THEN stale \cup {f} ELSE stale
      /\ UNCHANGED <<threads, turns, assigned, postbox, inFlight, pc, snapshot>>
  BY DEF ToolSend, threadVars, actorVars, taskVars
<1>2. f \in Slots /\ \A d \in Events : f # <<d, "snapshot">>
  BY DEF Slots
<1>3. snapshot[e] \in Snapshot
  BY ZenonT(30) DEF ActorInv, Types
<1>4. /\ x \in Effect
      /\ x.turn = i
      /\ x.revision = snapshot[e].revision
      /\ x.sources = snapshot[e].sources
      /\ x.state = "queued"
  BY <1>3, Zenon DEF Effect, Snapshot
<1> HIDE DEF x
<1>5. FrozenWell(e)
  BY <1>1 DEF ActorInv, SnapshotInv
<1>6. f \notin stale
  BY <1>1, ZenonT(30) DEF ActorInv, StaleInv
<1>7. /\ i \in DOMAIN turns
      /\ x.revision <= turns[i].revision
      /\ f \in stale' /\ OwnSources(i, x.sources) => x.revision < turns[i].revision
  BY <1>1, <1>4, <1>5, <1>6, Zenon DEF FrozenWell
<1>8. Known(x.sources)
  BY <1>4, Zenon DEF ActorInv, SourceInv
<1>9. stale' \subseteq Events \X {"snapshot", "tool"} /\ pc' \in [Events -> PCs]
  BY <1>1 DEF ActorInv, Types, PCs
<1>10. stale \subseteq stale' /\ stale' \subseteq stale \cup {f}
  BY <1>1, Zenon
<1> HIDE DEF f
<1> QED BY <1>1, <1>2, <1>4, <1>7, <1>8, <1>9, <1>10, Queues, ZenonT(30)

LEMMA SubmitReplyInv ==
    ASSUME ActorInv, ActiveTurnIsOpen, NEW e \in Events, SubmitReply(e)
    PROVE  ActorInv'
<1> DEFINE i == ChatActiveTurn
           f == <<e, "reply">>
           x == [turn |-> i, revision |-> turns[i].revision, sources |-> {},
                 state |-> "queued"]
<1>1. /\ pc[e] = "replying"
      /\ pc' = [pc EXCEPT ![e] = "done"]
      /\ UNCHANGED <<threads, turns, assigned, postbox, inFlight, snapshot, stale>>
  BY Zenon DEF SubmitReply, threadVars, actorVars
<1>2. /\ pc' \in [Events -> PCs]
      /\ \A d \in Events : pc'[d] = pc[d] \/ (pc[d] = "replying" /\ pc'[d] = "done")
  BY <1>1 DEF ActorInv, Types, PCs
<1>3. CASE i = 0
  <2>1. effects' = effects
    BY <1>3, Zenon DEF SubmitReply
  <2>2. FlightInv'
    BY <1>1, <1>2, FlightKept, Zenon DEF AssignedKept
  <2>3. inFlight' \in [Threads -> BOOLEAN]
    BY <1>1 DEF ActorInv, Types
  <2> QED BY <1>1, <2>1, <2>2, <2>3, SamePostbox, TaskMoves, Zenon
<1>4. CASE i # 0
  <2>1. effects' = [effects EXCEPT ![f] = x]
    BY <1>4, Zenon DEF SubmitReply
  <2>2. i \in DOMAIN turns /\ turns[i] \in Turn /\ i \in Nat
    <3>1. Types /\ TurnSeq
      BY Zenon DEF TurnSeq, ActorInv, Types
    <3>2. i \in DOMAIN turns
      BY <1>4, <3>1, ChatActiveTurnFacts, Zenon
    <3> HIDE DEF i
    <3>3. turns[i] \in Turn
      BY <3>1, <3>2, TurnTypes, Zenon
    <3>4. i \in Nat
      BY <3>1, <3>2, TurnTypes
    <3> QED BY <3>2, <3>3, <3>4, Zenon
  <2> HIDE DEF i
  <2>3. /\ x \in Effect
        /\ x.turn = i
        /\ x.revision = turns[i].revision
        /\ x.sources = {}
        /\ x.state = "queued"
    BY <2>2, Zenon DEF Effect, Turn
  <2>4. turns[i].revision \in Nat
    BY <2>2, Zenon DEF Turn
  <2> HIDE DEF x
  <2>5. /\ f \in Slots
        /\ \A d \in Events : f # <<d, "snapshot">>
        /\ f \notin stale
    BY Zenon DEF Slots, ActorInv, Types
  <2> HIDE DEF f
  <2>6. Known(x.sources) /\ stale' \subseteq Events \X {"snapshot", "tool"}
    BY <1>1, <2>3, Zenon DEF Known, ActorInv, Types
  <2>7. x.turn \in DOMAIN turns /\ x.revision <= turns[x.turn].revision
    BY <2>2, <2>3, <2>4
  <2> QED BY <1>1, <1>2, <2>1, <2>3, <2>5, <2>6, <2>7, Queues, ZenonT(30)
<1> QED BY <1>3, <1>4, Zenon

LEMMA CorrectInv ==
    ASSUME ActorInv, NEW e \in Events, Correct(e)
    PROVE  ActorInv'
<1> DEFINE i == assigned[e].turn
           t == [turns[i] EXCEPT !.revision = @ + 1]
           asked == {d \in Events : pc[d] = "generating" /\ e \in snapshot[d].sources}
           queued == {d \in Events : Waiting(<<d, "tool">>)
                                       /\ e \in effects[<<d, "tool">>].sources}
<1>1. /\ i # 0
      /\ turns' = [turns EXCEPT ![i].revision = @ + 1]
      /\ effects' = StaleCancelled(i, turns[i].revision + 1)
      /\ stale' = stale \cup {<<d, "snapshot">> : d \in asked}
                        \cup {<<d, "tool">> : d \in queued}
      /\ UNCHANGED <<threads, assigned, postbox, inFlight, pc, snapshot>>
  BY DEF Correct, actorVars, taskVars
<1>2. Types
  BY Zenon DEF ActorInv
<1>3. i \in DOMAIN turns /\ turns[i] \in Turn
  BY <1>1, <1>2, TurnTypes, Zenon DEF ActorInv, RouteInv
<1>4. /\ t \in Turn
      /\ t.thread = turns[i].thread
      /\ t.revision = turns[i].revision + 1
      /\ t.revision >= turns[i].revision
      /\ t.state = turns[i].state
      /\ t.sources = turns[i].sources
      /\ turns' = [turns EXCEPT ![i] = t]
  BY <1>1, <1>3 DEF Turn
<1> HIDE DEF t
<1>5. /\ TurnsGrow
      /\ DOMAIN turns' = DOMAIN turns
      /\ \A j \in DOMAIN turns : turns'[j] = IF j = i THEN t ELSE turns[j]
  BY <1>2, <1>3, <1>4, TurnReplaced, Zenon
<1>6. \A j \in DOMAIN turns' : /\ turns'[j].thread = turns[j].thread
                               /\ turns'[j].state = turns[j].state
                               /\ turns'[j].sources = turns[j].sources
  BY <1>4, <1>5, Zenon
<1>7. TurnInv'
  BY <1>1, <1>5, <1>6 DEF ActorInv, TurnInv
<1>8. effects' \in [Slots -> Effect] /\ \A f \in Slots : Milder(f)
  BY <1>1, StaleCancelledFacts
<1>9. Types'
  <2>1. stale' \subseteq Events \X {"snapshot", "tool"}
    <3>1. \A d \in asked \cup queued : d \in Events
      BY Zenon
    <3> HIDE DEF asked, queued
    <3>2. \A d \in asked : <<d, "snapshot">> \in Events \X {"snapshot", "tool"}
      BY <3>1, Zenon
    <3>3. \A d \in queued : <<d, "tool">> \in Events \X {"snapshot", "tool"}
      BY <3>1, Zenon
    <3>4. stale \subseteq Events \X {"snapshot", "tool"}
      BY <1>2, Zenon DEF Types
    <3> QED BY <1>1, <3>2, <3>3, <3>4, Zenon
  <2>2. turns' \in Seq(Turn)
    BY <1>5 DEF TurnsGrow
  <2> QED BY <1>1, <1>2, <1>8, <2>1, <2>2, Zenon DEF Types
<1>10. RouteInv'
  BY <1>1, <1>5, Zenon DEF ActorInv, RouteInv
<1>11. SourceInv'
  <2>1. pc' = pc /\ snapshot' = snapshot
    BY <1>1
  <2>2. SourceInv
    BY Zenon DEF ActorInv
  <2>3. \A j \in DOMAIN turns' : \A p \in turns'[j].sources : pc'[p] # "new"
    BY <1>5, <1>6, <2>1, <2>2, Zenon DEF SourceInv, Known
  <2>4. \A f \in Slots : \A p \in effects'[f].sources : pc'[p] # "new"
    BY <1>8, <2>1, <2>2, Zenon DEF SourceInv, Known, Milder
  <2> QED BY <2>1, <2>2, <2>3, <2>4, Zenon DEF SourceInv, Known
<1>12. AssignedKept
  BY <1>1, Zenon DEF AssignedKept
<1>13. FlightInv'
  BY <1>1, <1>12, FlightKept, Zenon
<1>14. turns[i].revision \in Nat /\ turns'[i].revision = turns[i].revision + 1
  BY <1>3, <1>4, <1>5, Zenon DEF Turn
<1>15. SnapshotInv'
  <2> SUFFICES ASSUME NEW d \in Events, pc'[d] = "generating" PROVE FrozenWell(d)'
    BY DEF SnapshotInv
  <2>1. pc[d] = "generating" /\ snapshot'[d] = snapshot[d]
    BY <1>1, Zenon
  <2>2. CASE e \notin snapshot[d].sources
    <3>1. <<d, "snapshot">> \in stale' => <<d, "snapshot">> \in stale
      BY <1>1, <2>2, Zenon
    <3> QED BY <1>5, <1>12, <2>1, <3>1, SnapshotKept, Zenon
  <2>3. CASE e \in snapshot[d].sources
    <3>1. FrozenWell(d) /\ snapshot[d].revision \in Nat
      BY <1>2, <2>1, Zenon DEF ActorInv, SnapshotInv, Types, Snapshot
    <3>2. snapshot[d].turn \in DOMAIN turns
      BY <3>1, Zenon DEF FrozenWell
    <3>3. /\ turns'[snapshot[d].turn].thread = assigned[d].thread
          /\ turns[snapshot[d].turn].revision \in Nat
          /\ turns'[snapshot[d].turn].revision \in Nat
          /\ turns'[snapshot[d].turn].revision >= turns[snapshot[d].turn].revision
      BY <1>2, <1>5, <3>1, <3>2, TurnTypes, Zenon DEF FrozenWell, TurnsGrow, Turn
    <3>4. OwnSources(snapshot[d].turn, snapshot[d].sources) => snapshot[d].turn = i
      BY <2>3, Zenon DEF OwnSources
    <3>a. snapshot[d].revision <= turns[snapshot[d].turn].revision
      BY <3>1, ZenonT(30) DEF FrozenWell
    <3>5. OwnSources(snapshot[d].turn, snapshot[d].sources)
             => snapshot[d].revision < turns'[snapshot[d].turn].revision
      BY <1>14, <3>1, <3>3, <3>4, <3>a
    <3>6. snapshot[d].revision <= turns'[snapshot[d].turn].revision
      BY <3>1, <3>3, <3>a
    <3> QED BY <1>1, <1>5, <2>1, <3>2, <3>3, <3>5, <3>6, Zenon DEF FrozenWell,
               OwnSources
  <2> QED BY <2>2, <2>3, Zenon
<1>16. EffectInv'
  <2> SUFFICES ASSUME NEW f \in Slots, effects'[f].state # "none" PROVE BoundWell(f)'
    BY Zenon DEF EffectInv
  <2>1. effects[f].state # "none" /\ Milder(f)
    BY <1>8, Zenon DEF Milder
  <2>2. CASE f \in stale' => f \in stale
    BY <1>5, <1>12, <2>1, <2>2, EffectKept, Zenon DEF Milder
  <2>3. CASE f \in stale' /\ f \notin stale
    <3>1. e \in effects[f].sources
      <4>1. \A d \in Events : f # <<d, "snapshot">>
        BY DEF Slots
      <4>2. PICK d \in queued : f = <<d, "tool">>
        BY <1>1, <2>3, <4>1, ZenonT(30)
      <4> QED BY <4>2, Zenon
    <3>2. BoundWell(f) /\ effects[f].revision \in Nat
      BY <1>2, <2>1, Zenon DEF ActorInv, EffectInv, Types, Effect
    <3>3. effects[f].turn \in DOMAIN turns
      BY <3>2, Zenon DEF BoundWell
    <3>4. /\ turns[effects[f].turn].revision \in Nat
          /\ turns'[effects[f].turn].revision \in Nat
          /\ turns'[effects[f].turn].revision >= turns[effects[f].turn].revision
      BY <1>2, <1>5, <3>3, TurnTypes, Zenon DEF TurnsGrow, Turn
    <3>5. OwnSources(effects[f].turn, effects[f].sources) => effects[f].turn = i
      BY <3>1, Zenon DEF OwnSources
    <3>a. effects[f].revision <= turns[effects[f].turn].revision
      BY <3>2, ZenonT(30) DEF BoundWell
    <3>6. OwnSources(effects[f].turn, effects[f].sources)
             => effects[f].revision < turns'[effects[f].turn].revision
      BY <1>14, <3>2, <3>4, <3>5, <3>a
    <3>7. effects[f].revision <= turns'[effects[f].turn].revision
      BY <3>2, <3>4, <3>a
    <3> QED BY <1>1, <1>5, <2>1, <3>3, <3>6, <3>7, Zenon DEF BoundWell, OwnSources,
               Milder
  <2> QED BY <2>2, <2>3, Zenon
<1>17. StaleInv'
  <2> SUFFICES ASSUME NEW d \in Events
               PROVE  /\ <<d, "snapshot">> \in stale' => pc'[d] \notin {"new", "routed"}
                      /\ <<d, "tool">> \in stale' => effects'[<<d, "tool">>].state # "none"
    BY DEF StaleInv
  <2>1. <<d, "tool">> \in Slots
    BY Zenon DEF Slots
  <2>2. <<d, "snapshot">> \in stale' => <<d, "snapshot">> \in stale \/ pc[d] = "generating"
    BY <1>1
  <2>3. <<d, "tool">> \in stale' => <<d, "tool">> \in stale \/ Waiting(<<d, "tool">>)
    BY <1>1, Zenon
  <2>4. <<d, "tool">> \in stale' => effects[<<d, "tool">>].state # "none"
    BY <2>3, Zenon DEF ActorInv, StaleInv, Waiting
  <2>5. <<d, "snapshot">> \in stale' => pc[d] \notin {"new", "routed"}
    BY <2>2, Zenon DEF ActorInv, StaleInv
  <2> QED BY <1>1, <1>8, <2>1, <2>4, <2>5, Zenon DEF Milder
<1> QED BY <1>7, <1>9, <1>10, <1>11, <1>13, <1>15, <1>16, <1>17, Zenon DEF ActorInv

-----------------------------------------------------------------------------
\* Which steps dispatch, answer and drain

\* Only execute_ready dispatches.
LEMMA DispatchIsExecute ==
    ASSUME ActorInv, [Next]_vars, NEW f \in Slots, Dispatches(f)
    PROVE  Execute(f) /\ RevisionMatches(f)
<1>1. /\ effects[f].state = "queued"
      /\ effects'[f].state = "dispatched"
      /\ effects' # effects
      /\ effects \in [Slots -> Effect]
      /\ DOMAIN effects = Slots
  BY DEF Dispatches, ActorInv, Types
<1>2. \A i, r : effects' # StaleCancelled(i, r)
  <2> SUFFICES ASSUME NEW i, NEW r, effects' = StaleCancelled(i, r) PROVE FALSE
    OBVIOUS
  <2>1. effects'[f] = effects[f] \/ effects'[f] = [effects[f] EXCEPT !.state = "cancelled"]
    BY <1>1, Zenon DEF StaleCancelled
  <2>2. effects[f] \in Effect
    BY <1>1
  <2> QED BY <1>1, <2>1, <2>2, Zenon DEF Effect
<1>3. ASSUME NEW e \in Events, Route(e) \/ Task(e) \/ Evaluate(e) \/ ProviderFails(e)
                                \/ PlainAnswer(e) \/ ToolSend(e) \/ Correct(e)
      PROVE  FALSE
  <2>1. CASE Route(e) \/ FollowUp(e) \/ StartRun(e) \/ TurnClosed(e) \/ Regenerate(e)
               \/ HandOver(e) \/ Answer(e) \/ ProviderFails(e) \/ PlainAnswer(e)
    BY <1>1, <2>1, ZenonT(30) DEF Route, FollowUp, StartRun, TurnClosed, Regenerate,
       HandOver, Answer, ProviderFails, PlainAnswer
  <2>2. CASE Superseded(e) \/ Correct(e)
    BY <1>2, <2>2, Zenon DEF Superseded, Correct
  <2>3. CASE ToolSend(e)
    <3>1. PICK x : x.state = "queued" /\ effects' = [effects EXCEPT ![<<e, "tool">>] = x]
      BY <2>3, Zenon DEF ToolSend
    <3> QED BY <1>1, <3>1, Zenon
  <2>4. CASE SubmitReply(e)
    <3>1. PICK x : x.state = "queued" /\ effects' = [effects EXCEPT ![<<e, "reply">>] = x]
      BY <1>1, <2>4, Zenon DEF SubmitReply
    <3> QED BY <1>1, <3>1, Zenon
  <2> QED BY <1>3, <2>1, <2>2, <2>3, <2>4, Zenon DEF Task, Evaluate
<1>4. ASSUME NEW g \in Slots, Execute(g) PROVE g = f /\ RevisionMatches(f)
  <2>1. effects' = [effects EXCEPT ![g].state =
                      IF RevisionMatches(g) THEN "dispatched" ELSE "cancelled"]
    BY <1>4, Zenon DEF Execute
  <2>2. effects[f] \in Effect
    BY <1>1
  <2>3. g = f
    BY <1>1, <2>1, Zenon
  <2>4. effects'[f].state = IF RevisionMatches(f) THEN "dispatched" ELSE "cancelled"
    BY <1>1, <2>1, <2>2, <2>3, Zenon DEF Effect
  <2> QED BY <1>1, <2>3, <2>4, Zenon
<1>5. ~Reset
  <2> SUFFICES ASSUME Reset PROVE FALSE
    BY Zenon
  <2>1. effects'[f] = effects[f] \/ effects'[f] = [effects[f] EXCEPT !.state = "cancelled"]
    BY <1>1, Zenon DEF Reset
  <2>2. effects[f] \in Effect
    BY <1>1, Zenon
  <2> QED BY <1>1, <2>1, <2>2, Zenon DEF Effect
<1>6. ~Crash
  <2> SUFFICES ASSUME Crash PROVE FALSE
    OBVIOUS
  <2>1. effects'[f] = effects[f] \/ effects'[f] = [effects[f] EXCEPT !.state = "stranded"]
    BY <1>1, Zenon DEF Crash
  <2>2. effects[f] \in Effect
    BY <1>1
  <2> QED BY <1>1, <2>1, <2>2, Zenon DEF Effect
<1>7. \A i : ~Settle(i)
  BY <1>1 DEF Settle
<1>8. ~UNCHANGED vars
  BY <1>1, Zenon DEF vars
<1> QED BY <1>1, <1>3, <1>4, <1>5, <1>6, <1>7, <1>8, Zenon DEF Next

\* What makes a task answer.
LEMMA AnswerComesFrom ==
    ASSUME ActorInv, [Next]_vars, NEW e \in Events,
           pc[e] = "generating", pc'[e] = "replying"
    PROVE  HandOver(e) \/ Answer(e)
<1>1. pc \in [Events -> PCs]
  BY Zenon DEF ActorInv, Types, PCs
<1>2. ASSUME NEW d \in Events, Route(d) \/ Task(d) \/ Evaluate(d) \/ ProviderFails(d)
                                \/ PlainAnswer(d) \/ ToolSend(d) \/ Correct(d)
      PROVE  HandOver(e) \/ Answer(e)
  <2>1. CASE Route(d) \/ FollowUp(d) \/ StartRun(d) \/ SubmitReply(d) \/ PlainAnswer(d)
    <3>1. pc[d] # "generating"
      BY <2>1, Zenon DEF Route, FollowUp, StartRun, SubmitReply, PlainAnswer
    <3>2. PICK l : pc' = [pc EXCEPT ![d] = l]
      BY <2>1, Zenon DEF Route, FollowUp, StartRun, SubmitReply, PlainAnswer
    <3> QED BY <1>1, <3>1, <3>2, Zenon
  <2>2. CASE TurnClosed(d) \/ Superseded(d) \/ ProviderFails(d)
    <3>1. pc' = [pc EXCEPT ![d] = "done"]
      BY <2>2, Zenon DEF TurnClosed, Superseded, ProviderFails, RunEnds
    <3> QED BY <1>1, <3>1, Zenon
  <2>3. CASE Regenerate(d)
    <3>1. pc' = pc \/ pc' = [pc EXCEPT ![d] = "done"]
      BY <2>3, Zenon DEF Regenerate, RunEnds
    <3> QED BY <1>1, <3>1, Zenon
  <2>4. CASE HandOver(d) \/ Answer(d)
    <3>1. PICK l : pc' = [pc EXCEPT ![d] = l]
      BY <2>4, Zenon DEF HandOver, Answer, RunEnds
    <3>2. d = e
      BY <1>1, <3>1, Zenon
    <3> QED BY <2>4, <3>2, Zenon
  <2>5. CASE ToolSend(d) \/ Correct(d)
    BY <2>5, Zenon DEF ToolSend, Correct, taskVars
  <2> QED BY <1>2, <2>1, <2>2, <2>3, <2>4, <2>5, Zenon DEF Task, Evaluate
<1>3. \A f : ~Execute(f)
  BY DEF Execute, taskVars
<1>4. \A i : ~Settle(i)
  BY Zenon DEF Settle, taskVars
<1>5. ~Reset
  BY DEF Reset, taskVars
<1>6. ~Crash
  BY DEF Crash
<1>7. ~UNCHANGED vars
  BY Zenon DEF vars, taskVars
<1> QED BY <1>2, <1>3, <1>4, <1>5, <1>6, <1>7, Zenon DEF Next

\* Only the evaluation of the thread's own generation consumes an input.
LEMMA ConsumedBy ==
    ASSUME ActorInv, [Next]_vars, NEW p \in Events,
           postbox[p] = "waiting", postbox'[p] = "consumed"
    PROVE  \E d \in Events :
              /\ pc[d] = "generating"
              /\ assigned[d].thread = assigned[p].thread
              /\ TurnClosed(d) \/ Superseded(d) \/ Regenerate(d) \/ HandOver(d)
              /\ p \in Drained(assigned[d].thread)
<1>1. /\ postbox \in [Events -> Boxes]
      /\ postbox' # postbox
  BY Zenon DEF ActorInv, Types, Boxes
<1>2. ASSUME NEW d \in Events, TurnClosed(d) \/ Superseded(d) \/ Regenerate(d)
      PROVE  pc[d] = "generating" /\ p \in Drained(assigned[d].thread)
  <2>1. pc[d] = "generating" /\ postbox' = Consumed(assigned[d].thread)
    BY <1>2, Zenon DEF TurnClosed, Superseded, Regenerate
  <2> QED BY <2>1, Zenon DEF Consumed
<1>3. ASSUME NEW d \in Events, HandOver(d)
      PROVE  pc[d] = "generating" /\ p \in Drained(assigned[d].thread)
  <2>1. /\ pc[d] = "generating"
        /\ postbox' \in Promoted(Consumed(assigned[d].thread), assigned[d].thread)
    BY <1>3, Zenon DEF HandOver
  <2>2. PICK c : postbox' = [e \in Events |-> IF e \in c THEN "waiting"
                                              ELSE Consumed(assigned[d].thread)[e]]
    BY <2>1, Zenon DEF Promoted
  <2>3. Consumed(assigned[d].thread)[p] = "consumed"
    BY <2>2, Zenon
  <2> QED BY <2>1, <2>3, Zenon DEF Consumed
<1>4. ASSUME NEW d \in Events, FollowUp(d) PROVE FALSE
  <2>1. PICK b \in {"waiting", "deferred"} : postbox' = [postbox EXCEPT ![d] = b]
    BY <1>1, <1>4, Zenon DEF FollowUp
  <2> QED BY <1>1, <2>1, Zenon
<1>5. ASSUME NEW d \in Events, Route(d) \/ StartRun(d) \/ SubmitReply(d) \/ Answer(d)
                                \/ ProviderFails(d) \/ PlainAnswer(d) \/ ToolSend(d)
                                \/ Correct(d)
      PROVE  FALSE
  BY <1>1, <1>5, Zenon DEF Route, StartRun, SubmitReply, Answer, ProviderFails,
     PlainAnswer, ToolSend, Correct, actorVars
<1>6. \A f : ~Execute(f)
  BY <1>1, Zenon DEF Execute, actorVars
<1>7. \A i : ~Settle(i)
  BY <1>1, Zenon DEF Settle, actorVars
<1>8. ~Reset
  BY DEF Reset
<1>9. ~Crash /\ ~UNCHANGED vars
  BY <1>1, Zenon DEF Crash, vars, actorVars
<1>10. \A th : p \in Drained(th) => th = assigned[p].thread
  BY Zenon DEF Drained, Postbox
<1> QED BY <1>2, <1>3, <1>4, <1>5, <1>6, <1>7, <1>8, <1>9, <1>10, Zenon DEF Next, Task,
           Evaluate

-----------------------------------------------------------------------------
\* The invariant holds throughout

INSTANCE FiniteSetTheorems

\* A set of numbers up to n that is not empty has a greatest element: the one
\* that is closest to n.
LEMMA GreatestElement ==
    ASSUME NEW n \in Nat, NEW S \in SUBSET (1 .. n), S # {}
    PROVE  \E m \in S : \A k \in S : k <= m
<1> DEFINE T == {n - k : k \in S}
<1>1. T \subseteq Nat /\ T # {}
  <2>1. \A k \in S : n - k \in Nat
    OBVIOUS
  <2> QED BY <2>1, Zenon
<1>2. \A k \in S : k \in Int
  OBVIOUS
<1>3. PICK x \in T : \A y \in T : ~(<<y, x>> \in OpToRel(<, Nat))
  <2> HIDE DEF T
  <2> QED BY <1>1, NatLessThanWellFounded, WFMin
<1>4. PICK m \in S : x = n - m
  BY Zenon
<1>5. ASSUME NEW k \in S, k > m PROVE FALSE
  <2> DEFINE y == n - k
  <2>1. y \in T /\ y \in Nat /\ x \in Nat /\ y < x
    BY <1>4, <1>5
  <2> HIDE DEF y
  <2>2. <<y, x>> \in OpToRel(<, Nat)
    BY <2>1, Zenon DEF OpToRel
  <2> QED BY <1>3, <2>1, <2>2
<1> QED BY <1>2, <1>5

\* active_turn finds an open turn wherever there is one.
LEMMA ActiveTurnFacts == TurnSeq => ActiveTurnIsOpen
<1> SUFFICES ASSUME TurnSeq, NEW th, OpenTurns(th) # {}
             PROVE  ActiveTurn(th) \in OpenTurns(th)
  BY Zenon DEF ActiveTurnIsOpen, ActiveTurn
<1>1. /\ Len(turns) \in Nat
      /\ DOMAIN turns = 1 .. Len(turns)
  BY DEF TurnSeq
<1>2. OpenTurns(th) \in SUBSET (1 .. Len(turns))
  BY <1>1, Zenon DEF OpenTurns
<1>3. \E i \in OpenTurns(th) : \A j \in OpenTurns(th) : j <= i
  BY <1>1, <1>2, GreatestElement, Zenon
<1> QED BY <1>3, Zenon DEF ActiveTurn

\* ... also in the next state.
LEMMA ActiveTurnFactsNext == TurnSeq' => ActiveTurnIsOpen'
BY ActiveTurnFacts, PTL

LEMMA ActorStep == ActorInv /\ [Next]_vars => ActorInv'
<1> SUFFICES ASSUME ActorInv, [Next]_vars PROVE ActorInv'
  BY Zenon
<1>0. ActiveTurnIsOpen
  BY ActiveTurnFacts, Zenon DEF TurnSeq, ActorInv, Types
<1>1. ASSUME NEW e \in Events, Route(e) \/ Task(e) PROVE ActorInv'
  BY <1>0, <1>1, RouteInvariance, FollowUpInv, StartRunInv, SubmitReplyInv, ZenonT(30) DEF
     Task
<1>2. ASSUME NEW e \in Events, Evaluate(e) \/ ProviderFails(e) PROVE ActorInv'
  <2>1. CASE Regenerate(e)
    <3>1. ActiveTurnIsOpen'
      <4>1. TurnsGrow
        BY <2>1, RegenerateTurns, Zenon
      <4> QED BY <4>1, ActiveTurnFactsNext, Zenon DEF TurnsGrow, TurnSeq
    <3> QED BY <2>1, <3>1, RegenerateInv, ZenonT(30)
  <2> QED BY <1>2, <2>1, RunEndsInv, SupersededInv, HandOverInv, ZenonT(30) DEF Evaluate
<1>3. ASSUME NEW e \in Events, PlainAnswer(e) \/ ToolSend(e) \/ Correct(e)
      PROVE  ActorInv'
  BY <1>3, PlainAnswerInv, ToolSendInv, CorrectInv, Zenon
<1>4. ASSUME NEW f \in DOMAIN effects, Execute(f) PROVE ActorInv'
  <2>1. f \in Slots
    BY Zenon DEF ActorInv, Types
  <2> QED BY <1>4, <2>1, ExecuteInv, Zenon
<1>5. ASSUME NEW i \in DOMAIN turns, Settle(i) PROVE ActorInv'
  BY <1>5, SettleInv, Zenon
<1>6. CASE Reset
  BY <1>6, ResetInv, Zenon
<1>7. CASE Crash
  BY <1>7, CrashInv, Zenon
<1>8. CASE UNCHANGED vars
  <2>1. UNCHANGED <<threads, turns, assigned, postbox, pc, snapshot, inFlight,
                    effects, stale>>
    BY <1>8, Zenon DEF vars, threadVars, actorVars, taskVars
  <2>2. Types' /\ TurnInv' /\ RouteInv' /\ StaleInv'
    BY <2>1, ZenonT(30) DEF ActorInv, Types, TurnInv, RouteInv, StaleInv
  <2>3. SourceInv' /\ FlightInv'
    BY <2>1, ZenonT(30) DEF ActorInv, SourceInv, Known, FlightInv
  <2>4. SnapshotInv' /\ EffectInv'
    BY <2>1, ZenonT(30) DEF ActorInv, SnapshotInv, FrozenWell, EffectInv, BoundWell,
                            Waiting, OwnSources
  <2> QED BY <2>2, <2>3, <2>4, Zenon DEF ActorInv
<1> QED BY <1>1, <1>2, <1>3, <1>4, <1>5, <1>6, <1>7, <1>8 DEF Next

LEMMA ActorInvariance == Spec => []ActorInv
BY ActorInit, ActorStep, PTL DEF Spec

-----------------------------------------------------------------------------
\* What is dispatched

\* An edit of a message routed to a turn stops what a tool call queued for that
\* turn, before the edit or after it: the revision the effect carries is lower
\* than the turn's.
THEOREM CorrectionIsFinal == Spec => CorrectionStopsDispatch
<1>1. ActorInv /\ [Next]_vars =>
         \A e \in Events :
            LET f == <<e, "tool">> IN
            Dispatches(f) /\ OwnSources(effects[f].turn, effects[f].sources)
                => f \notin stale
  <2> SUFFICES ASSUME ActorInv, [Next]_vars, NEW e \in Events,
                      Dispatches(<<e, "tool">>),
                      OwnSources(effects[<<e, "tool">>].turn,
                                 effects[<<e, "tool">>].sources)
               PROVE  <<e, "tool">> \notin stale
    BY Zenon
  <2> DEFINE f == <<e, "tool">>
  <2>1. f \in Slots
    BY Zenon DEF Slots
  <2>2. RevisionMatches(f)
    BY <2>1, DispatchIsExecute, ZenonT(30)
  <2>3. /\ BoundWell(f)
        /\ effects[f].revision \in Nat
        /\ Waiting(f)
    BY <2>1, Zenon DEF ActorInv, EffectInv, Types, Effect, Dispatches, Waiting
  <2>4. ~(effects[f].revision < effects[f].revision)
    BY <2>3
  <2> QED BY <2>2, <2>3, <2>4, Zenon DEF BoundWell, RevisionMatches
<1> QED BY <1>1, ActorInvariance, PTL DEF Spec, CorrectionStopsDispatch

\* _evaluate_postbox lets an answer go out only if the chat was not reset and no
\* message routed to its turn was edited since the provider was asked.
THEOREM AnswersAreCurrent == Spec => AnswerIsCurrent
<1>1. ActorInv /\ [Next]_vars =>
         \A e \in Events :
            pc[e] = "generating" /\ pc'[e] = "replying" =>
               /\ threads[assigned[e].thread] = "open"
               /\ OwnSources(snapshot[e].turn, snapshot[e].sources)
                    => <<e, "snapshot">> \notin stale
  <2> SUFFICES ASSUME ActorInv, [Next]_vars, NEW e \in Events,
                      pc[e] = "generating", pc'[e] = "replying"
               PROVE  /\ threads[assigned[e].thread] = "open"
                      /\ OwnSources(snapshot[e].turn, snapshot[e].sources)
                           => <<e, "snapshot">> \notin stale
    BY Zenon
  <2>1. HandOver(e) \/ Answer(e)
    BY AnswerComesFrom, Zenon
  <2>2. turns[snapshot[e].turn].state = "open" /\ ~Outdated(e)
    BY <2>1, ZenonT(30) DEF HandOver, Answer
  <2>3. turns[snapshot[e].turn].revision = snapshot[e].revision
    BY <2>2, Zenon DEF Outdated
  <2>4. FrozenWell(e) /\ snapshot[e].revision \in Nat
    BY Zenon DEF ActorInv, SnapshotInv, Types, Snapshot
  <2>5. threads[assigned[e].thread] = "open"
    BY <2>2, <2>4, Zenon DEF FrozenWell, ActorInv, TurnInv
  <2>6. OwnSources(snapshot[e].turn, snapshot[e].sources) /\ <<e, "snapshot">> \in stale
           => snapshot[e].revision < snapshot[e].revision
    BY <2>3, <2>4, ZenonT(30) DEF FrozenWell
  <2>7. ~(snapshot[e].revision < snapshot[e].revision)
    BY <2>4
  <2> QED BY <2>5, <2>6, <2>7, Zenon
<1> QED BY <1>1, ActorInvariance, PTL DEF Spec, AnswerIsCurrent

-----------------------------------------------------------------------------
\* What is drained

\* What _evaluate_postbox drains while the run goes on or answers becomes a
\* source of an open turn of the thread: no input is lost between the postbox
\* and the turns.
THEOREM DrainedInputsAreKept == Spec => DrainedIsKept
<1>1. ActorInv /\ [Next]_vars =>
         \A e, p \in Events :
            /\ pc[e] = "generating" /\ pc'[e] # "done"
            /\ assigned[p].thread = assigned[e].thread
            /\ postbox[p] = "waiting" /\ postbox'[p] = "consumed"
            => \E i \in DOMAIN turns' : /\ turns'[i].thread = assigned[e].thread
                                        /\ turns'[i].state = "open"
                                        /\ p \in turns'[i].sources
  <2> SUFFICES ASSUME ActorInv, [Next]_vars, NEW e \in Events, NEW p \in Events,
                      pc[e] = "generating", pc'[e] # "done",
                      assigned[p].thread = assigned[e].thread,
                      postbox[p] = "waiting", postbox'[p] = "consumed"
               PROVE  \E i \in DOMAIN turns' : /\ turns'[i].thread = assigned[e].thread
                                               /\ turns'[i].state = "open"
                                               /\ p \in turns'[i].sources
    BY Zenon
  <2> DEFINE th == assigned[e].thread
             i == snapshot[e].turn
  <2>1. /\ TurnClosed(e) \/ Superseded(e) \/ Regenerate(e) \/ HandOver(e)
        /\ p \in Drained(th)
    <3>1. PICK d \in Events :
             /\ pc[d] = "generating"
             /\ assigned[d].thread = assigned[p].thread
             /\ TurnClosed(d) \/ Superseded(d) \/ Regenerate(d) \/ HandOver(d)
             /\ p \in Drained(assigned[d].thread)
      BY ConsumedBy, Zenon
    <3>2. FlightInv
      BY ZenonT(30) DEF ActorInv
    <3>3. d = e
      BY <3>1, <3>2 DEF FlightInv
    <3> QED BY <3>1, <3>3, ZenonT(30)
  <2>2. ~TurnClosed(e) /\ ~Superseded(e)
    <3>1. pc \in [Events -> PCs]
      BY Zenon DEF ActorInv, Types, PCs
    <3> QED BY <3>1, Zenon DEF TurnClosed, Superseded, RunEnds
  <2>3. /\ i \in DOMAIN turns
        /\ turns[i].thread = th
        /\ turns[i] \in Turn
        /\ th \in Threads
        /\ turns \in [1 .. Len(turns) -> Turn]
        /\ DOMAIN turns = 1 .. Len(turns)
    BY TurnTypes, Zenon DEF ActorInv, SnapshotInv, FrozenWell, RouteInv
  <2>4. CASE Regenerate(e)
    <3>1. /\ turns[i].state = "open"
          /\ turns' = [turns EXCEPT ![i].sources = @ \cup Drained(th)]
      BY <2>4, Zenon DEF Regenerate
    <3>2. /\ i \in DOMAIN turns'
          /\ turns'[i] = [turns[i] EXCEPT !.sources = @ \cup Drained(th)]
      BY <2>3, <3>1, Zenon
    <3>3. /\ turns'[i].thread = th
          /\ turns'[i].state = "open"
          /\ p \in turns'[i].sources
      BY <2>1, <2>3, <3>1, <3>2, ZenonT(30) DEF Turn
    <3> QED BY <3>2, <3>3, ZenonT(30)
  <2>5. CASE HandOver(e)
    <3> DEFINE t == NewTurn(th, Drained(th), TRUE)
    <3>1. turns' = Append(turns, t)
      BY <2>5, Zenon DEF HandOver
    <3>2. /\ t \in Turn
          /\ t.thread = th
          /\ t.state = "open"
          /\ p \in t.sources
      BY <2>1, <2>3, Zenon DEF NewTurn, Turn, Drained, Postbox
    <3> HIDE DEF t
    <3>3. /\ DOMAIN turns' = DOMAIN turns \cup {Len(turns) + 1}
          /\ turns'[Len(turns) + 1] = t
      BY <3>1, <3>2, TurnAppended, Zenon DEF ActorInv
    <3> QED BY <3>2, <3>3, Zenon
  <2> QED BY <2>1, <2>2, <2>4, <2>5, ZenonT(30)
<1> QED BY <1>1, ActorInvariance, PTL DEF Spec, DrainedIsKept

-----------------------------------------------------------------------------
\* How many run and how many wait

\* ThreadActor._generation_in_flight keeps two messages of one thread from
\* being answered side by side, for any number of messages and threads.
THEOREM GenerationsAreExclusive == Spec => []OneGenerationPerThread
<1>1. ActorInv => OneGenerationPerThread
  <2> SUFFICES ASSUME ActorInv, NEW th \in Threads
               PROVE  Cardinality({e \in Events : pc[e] = "generating"
                                                  /\ assigned[e].thread = th})
                        = (IF inFlight[th] THEN 1 ELSE 0)
    BY Zenon DEF OneGenerationPerThread
  <2> DEFINE running == {e \in Events : pc[e] = "generating"
                                        /\ assigned[e].thread = th}
  <2>1. CASE inFlight[th]
    <3>1. PICK e \in Events : pc[e] = "generating" /\ assigned[e].thread = th
      BY <2>1, ZenonT(30) DEF ActorInv, FlightInv
    <3>2. running = {e}
      BY <3>1 DEF ActorInv, FlightInv
    <3>3. Cardinality({e}) = 1
      BY FS_Singleton, Zenon
    <3> QED BY <2>1, <3>2, <3>3, Zenon
  <2>2. CASE ~inFlight[th]
    <3>1. running = {}
      BY <2>2 DEF ActorInv, FlightInv
    <3> QED BY <2>2, <3>1, FS_EmptySet, ZenonT(30)
  <2> QED BY <2>1, <2>2, Zenon
<1> QED BY <1>1, ActorInvariance, PTL

LEMMA WaitingFinite ==
    ASSUME NEW th
    PROVE  IsFiniteSet(Postbox(th, "waiting"))
           /\ Cardinality(Postbox(th, "waiting")) \in Nat
<1>1. Postbox(th, "waiting") \in SUBSET Events
  BY Zenon DEF Postbox
<1>2. IsFiniteSet(Postbox(th, "waiting"))
  BY <1>1, ThreadActorAssumption, FS_Subset, ZenonT(30)
<1> QED BY <1>2, FS_CardinalityType, Zenon

\* A postbox that gained nothing holds no more than before.
LEMMA PostboxShrinks ==
    ASSUME NEW th, Postbox(th, "waiting")' \subseteq Postbox(th, "waiting"),
           Cardinality(Postbox(th, "waiting")) <= Cap
    PROVE  Cardinality(Postbox(th, "waiting")') <= Cap
<1>1. /\ IsFiniteSet(Postbox(th, "waiting")')
      /\ Cardinality(Postbox(th, "waiting")') <= Cardinality(Postbox(th, "waiting"))
  BY WaitingFinite, FS_Subset, Zenon
<1>2. Cardinality(Postbox(th, "waiting")') \in Nat
  BY <1>1, FS_CardinalityType, Zenon
<1> QED BY <1>1, <1>2, WaitingFinite, ThreadActorAssumption

LEMMA CapKept ==
    ASSUME PostboxWithinCap,
           \A e \in Events : \A th \in Threads :
              postbox'[e] = "waiting" /\ assigned'[e].thread = th
                 => postbox[e] = "waiting" /\ assigned[e].thread = th
    PROVE  PostboxWithinCap'
<1> SUFFICES ASSUME NEW th \in Threads
             PROVE  Cardinality(Postbox(th, "waiting")') <= Cap
  BY ZenonT(30) DEF PostboxWithinCap
<1>1. Postbox(th, "waiting")' \subseteq Postbox(th, "waiting")
  BY Zenon DEF Postbox
<1>2. Cardinality(Postbox(th, "waiting")) <= Cap
  BY Zenon DEF PostboxWithinCap
<1> QED BY <1>1, <1>2, PostboxShrinks, Zenon

\* accept puts an input into a postbox only while there is room.
LEMMA FollowUpCap ==
    ASSUME ActorInv, PostboxWithinCap, NEW e \in Events, FollowUp(e)
    PROVE  PostboxWithinCap'
<1> DEFINE th == assigned[e].thread
           W == Postbox(th, "waiting")
<1>1. assigned' = assigned /\ postbox \in [Events -> Boxes]
  BY Zenon DEF FollowUp, threadVars, ActorInv, Types, Boxes
<1>2. CASE postbox' = postbox
  BY <1>1, <1>2, CapKept, ZenonT(30)
<1>3. CASE postbox' = [postbox EXCEPT ![e] = "deferred"]
  <2>1. \A x \in Events : postbox'[x] = "waiting" => postbox[x] = "waiting"
    BY <1>1, <1>3, Zenon
  <2> QED BY <1>1, <2>1, CapKept, Zenon
<1>4. CASE /\ postbox' = [postbox EXCEPT ![e] = "waiting"]
           /\ ~(Cardinality(W) >= Cap)
  <2> SUFFICES ASSUME NEW t \in Threads
               PROVE  Cardinality(Postbox(t, "waiting")') <= Cap
    BY Zenon DEF PostboxWithinCap
  <2>1. \A x \in Events : x # e => postbox'[x] = postbox[x]
    BY <1>1, <1>4, Zenon
  <2>2. CASE t # th
    <3>1. Postbox(t, "waiting")' \subseteq Postbox(t, "waiting")
      BY <1>1, <2>1, <2>2, Zenon DEF Postbox
    <3>2. Cardinality(Postbox(t, "waiting")) <= Cap
      BY Zenon DEF PostboxWithinCap
    <3> QED BY <3>1, <3>2, PostboxShrinks, Zenon
  <2>3. CASE t = th
    <3>1. Postbox(t, "waiting")' \subseteq W \cup {e}
      BY <1>1, <2>1, <2>3, Zenon DEF Postbox
    <3>2. IsFiniteSet(W) /\ Cardinality(W) \in Nat
      BY WaitingFinite, ZenonT(30)
    <3>3. Cardinality(W) < Cap
      BY <1>4, <3>2, ThreadActorAssumption
    <3> HIDE DEF W
    <3>4. /\ IsFiniteSet(W \cup {e})
          /\ \/ Cardinality(W \cup {e}) = Cardinality(W)
             \/ Cardinality(W \cup {e}) = Cardinality(W) + 1
      BY <3>2, FS_AddElement, Zenon
    <3>5. /\ Cardinality(Postbox(t, "waiting")') <= Cardinality(W \cup {e})
          /\ IsFiniteSet(Postbox(t, "waiting")')
      BY <3>1, <3>4, FS_Subset, Zenon
    <3>6. Cardinality(Postbox(t, "waiting")') \in Nat
      BY <3>5, FS_CardinalityType, Zenon
    <3> QED BY <3>2, <3>3, <3>4, <3>5, <3>6, ThreadActorAssumption
  <2> QED BY <2>2, <2>3, Zenon
<1>5. \/ postbox' = postbox
      \/ postbox' = [postbox EXCEPT ![e] = "deferred"]
      \/ /\ postbox' = [postbox EXCEPT ![e] = "waiting"]
         /\ ~(Cardinality(W) >= Cap)
  BY Zenon DEF FollowUp
<1> QED BY <1>2, <1>3, <1>4, <1>5, ZenonT(30)

\* promote_deferred fills an emptied postbox up to the cap and no further.
LEMMA HandOverCap ==
    ASSUME ActorInv, PostboxWithinCap, NEW e \in Events, HandOver(e)
    PROVE  PostboxWithinCap'
<1> DEFINE th == assigned[e].thread
           box == Consumed(th)
           W == {x \in Events : assigned[x].thread = th /\ box[x] = "waiting"}
           D == {x \in Events : assigned[x].thread = th /\ box[x] = "deferred"}
<1>1. assigned' = assigned /\ postbox' \in Promoted(box, th)
  BY Zenon DEF HandOver
<1>2. W = {}
  BY Zenon DEF Consumed, Drained, Postbox
<1>3. Cardinality(W) = 0
  BY <1>2, FS_EmptySet, ZenonT(30)
<1>4. PICK c \in SUBSET D :
         /\ Cardinality(c) = Cap - 0 \/ Cardinality(c) < Cap - 0
         /\ postbox' = [x \in Events |-> IF x \in c THEN "waiting" ELSE box[x]]
  BY <1>1, <1>3, Zenon DEF Promoted
<1>5. IsFiniteSet(c) /\ Cardinality(c) <= Cap /\ Cardinality(c) \in Nat
  <2>1. c \in SUBSET Events
    BY Zenon
  <2>2. IsFiniteSet(c)
    BY <2>1, ThreadActorAssumption, FS_Subset, Zenon
  <2>3. Cardinality(c) \in Nat
    BY <2>2, FS_CardinalityType, ZenonT(30)
  <2>4. \A n \in Nat : n = Cap - 0 \/ n < Cap - 0 => n <= Cap
    BY ThreadActorAssumption
  <2> QED BY <1>4, <2>2, <2>3, <2>4, ZenonT(30)
<1>6. \A x \in Events : box[x] = "waiting" => postbox[x] = "waiting"
  BY ZenonT(30) DEF Consumed
<1> SUFFICES ASSUME NEW t \in Threads
             PROVE  Cardinality(Postbox(t, "waiting")') <= Cap
  BY Zenon DEF PostboxWithinCap
<1>7. CASE t = th
  <2>1. Postbox(t, "waiting")' \subseteq c
    BY <1>1, <1>2, <1>4, <1>7, Zenon DEF Postbox
  <2>2. /\ IsFiniteSet(Postbox(t, "waiting")')
        /\ Cardinality(Postbox(t, "waiting")') <= Cardinality(c)
    BY <1>5, <2>1, FS_Subset, Zenon
  <2>3. Cardinality(Postbox(t, "waiting")') \in Nat
    BY <2>2, FS_CardinalityType, ZenonT(30)
  <2>4. \A m, n \in Nat : m <= n /\ n <= Cap => m <= Cap
    BY ThreadActorAssumption
  <2> QED BY <1>5, <2>2, <2>3, <2>4, ZenonT(30)
<1>8. CASE t # th
  <2>1. Postbox(t, "waiting")' \subseteq Postbox(t, "waiting")
    BY <1>1, <1>4, <1>6, <1>8, ZenonT(30) DEF Postbox
  <2>2. Cardinality(Postbox(t, "waiting")) <= Cap
    BY ZenonT(30) DEF PostboxWithinCap
  <2> QED BY <2>1, <2>2, PostboxShrinks, Zenon
<1> QED BY <1>7, <1>8, Zenon

\* The other steps let nothing new wait.
LEMMA CapStep == ActorInv /\ PostboxWithinCap /\ [Next]_vars => PostboxWithinCap'
<1> SUFFICES ASSUME ActorInv, PostboxWithinCap, [Next]_vars PROVE PostboxWithinCap'
  BY Zenon
<1>1. ASSUME NEW e \in Events, Route(e) PROVE PostboxWithinCap'
  <2>1. postbox[e] = "none"
    BY <1>1, Zenon DEF Route, ActorInv, RouteInv
  <2>2. /\ postbox' = postbox
        /\ \A x \in Events : x # e => assigned'[x] = assigned[x]
    <3>1. assigned \in [Events -> [thread : Threads \cup {"none"}, turn : Nat]]
      BY Zenon DEF ActorInv, Types
    <3>2. PICK a : assigned' = [assigned EXCEPT ![e] = a]
      BY <1>1, Zenon DEF Route
    <3>3. postbox' = postbox
      BY <1>1, Zenon DEF Route, actorVars
    <3> QED BY <3>1, <3>2, <3>3, ZenonT(30)
  <2> QED BY <2>1, <2>2, CapKept, Zenon
<1>2. ASSUME NEW e \in Events,
             \/ StartRun(e) \/ SubmitReply(e) \/ Answer(e) \/ ProviderFails(e)
             \/ PlainAnswer(e) \/ ToolSend(e) \/ Correct(e)
      PROVE  PostboxWithinCap'
  <2>1. postbox' = postbox /\ assigned' = assigned
    BY <1>2, Zenon DEF StartRun, SubmitReply, Answer, ProviderFails, PlainAnswer,
       ToolSend, Correct, threadVars, actorVars
  <2> QED BY <2>1, CapKept, Zenon
<1>3. ASSUME NEW e \in Events, TurnClosed(e) \/ Superseded(e) \/ Regenerate(e)
      PROVE  PostboxWithinCap'
  <2>1. postbox' = Consumed(assigned[e].thread) /\ assigned' = assigned
    BY <1>3, Zenon DEF TurnClosed, Superseded, Regenerate, threadVars
  <2>2. \A x \in Events : postbox'[x] = "waiting" => postbox[x] = "waiting"
    BY <2>1, Zenon DEF Consumed
  <2> QED BY <2>1, <2>2, CapKept, ZenonT(30)
<1>4. ASSUME NEW f, Execute(f) PROVE PostboxWithinCap'
  <2>1. postbox' = postbox /\ assigned' = assigned
    BY <1>4, Zenon DEF Execute, threadVars, actorVars
  <2> QED BY <2>1, CapKept, Zenon
<1>5. ASSUME NEW i, Settle(i) PROVE PostboxWithinCap'
  <2>1. postbox' = postbox /\ assigned' = assigned
    BY <1>5, Zenon DEF Settle, actorVars
  <2> QED BY <2>1, CapKept
<1>6. CASE Reset
  <2>1. /\ assigned' = assigned
        /\ \A x \in Events : postbox'[x] = "waiting" => postbox[x] = "waiting"
    BY <1>6, Zenon DEF Reset
  <2> QED BY <2>1, CapKept, Zenon
<1>7. CASE Crash \/ UNCHANGED vars
  <2>1. postbox' = postbox /\ assigned' = assigned
    BY <1>7, Zenon DEF Crash, vars, threadVars, actorVars
  <2> QED BY <2>1, CapKept
<1> QED BY <1>1, <1>2, <1>3, <1>4, <1>5, <1>6, <1>7, FollowUpCap, HandOverCap
        DEF Next, Task, Evaluate

\* pending_inputs_per_thread bounds the postbox of a thread whatever accept and
\* promote_deferred put into it.
THEOREM PostboxIsBounded == Spec => []PostboxWithinCap
<1>1. Init => PostboxWithinCap
  <2> SUFFICES ASSUME Init PROVE PostboxWithinCap
    OBVIOUS
  <2>1. \A th \in Threads : Postbox(th, "waiting") = {}
    BY DEF Init, Postbox
  <2> QED BY <2>1, FS_EmptySet, ThreadActorAssumption DEF PostboxWithinCap
<1> QED BY <1>1, CapStep, ActorInvariance, PTL DEF Spec

-----------------------------------------------------------------------------
\* What /new ends

\* A tool call's effect is bound to a turn of the thread its message was routed
\* to.
ToolBound(e) ==
    effects[<<e, "tool">>].state # "none" =>
        /\ pc[e] # "new"
        /\ turns[effects[<<e, "tool">>].turn].thread = assigned[e].thread

ToolInv == \A e \in Events : ToolBound(e)

\* Turns stay where they were opened.
ThreadsKept ==
    \A i \in DOMAIN turns : i \in DOMAIN turns' /\ turns'[i].thread = turns[i].thread

ToolKept(e) ==
    effects'[<<e, "tool">>].state # "none" =>
        /\ effects[<<e, "tool">>].state # "none"
        /\ effects'[<<e, "tool">>].turn = effects[<<e, "tool">>].turn

LEMMA ToolBoundKept ==
    ASSUME ActorInv, ToolInv, ThreadsKept, AssignedKept, NEW e \in Events,
           pc[e] # "new" => pc'[e] # "new", ToolKept(e)
    PROVE  ToolBound(e)'
<1> SUFFICES ASSUME effects'[<<e, "tool">>].state # "none"
             PROVE  /\ pc'[e] # "new"
                    /\ turns'[effects'[<<e, "tool">>].turn].thread = assigned'[e].thread
  BY Zenon DEF ToolBound
<1>1. /\ effects[<<e, "tool">>].state # "none"
      /\ effects'[<<e, "tool">>].turn = effects[<<e, "tool">>].turn
  BY Zenon DEF ToolKept
<1>2. <<e, "tool">> \in Slots
  BY Zenon DEF Slots
<1>3. effects[<<e, "tool">>].turn \in DOMAIN turns
  BY <1>1, <1>2, Zenon DEF ActorInv, EffectInv, BoundWell
<1>4. /\ pc[e] # "new"
      /\ turns[effects[<<e, "tool">>].turn].thread = assigned[e].thread
  BY <1>1, Zenon DEF ToolInv, ToolBound
<1> QED BY <1>1, <1>3, <1>4, Zenon DEF ThreadsKept, AssignedKept

\* A turn that is replaced by one of its thread, or appended, moves no other.
LEMMA ReplacedKept ==
    ASSUME ActorInv, NEW i, NEW t, i \in DOMAIN turns => t.thread = turns[i].thread,
           turns' = [turns EXCEPT ![i] = t]
    PROVE  ThreadsKept
BY Zenon DEF ThreadsKept

LEMMA AppendedKept ==
    ASSUME ActorInv, NEW t, turns' = Append(turns, t)
    PROVE  ThreadsKept
<1>1. Len(turns) \in Nat /\ DOMAIN turns = 1 .. Len(turns)
  BY TurnTypes, Zenon DEF ActorInv
<1> QED BY <1>1 DEF ThreadsKept, ActorInv, Types

LEMMA StepKeepsThreads ==
    ASSUME ActorInv, [Next]_vars
    PROVE  ThreadsKept
<1>1. \A i \in DOMAIN turns : turns[i] \in Turn
  BY TurnTypes, Zenon DEF ActorInv
<1>2. CASE turns' = turns
  BY <1>2, Zenon DEF ThreadsKept
<1>3. ASSUME NEW i, NEW s, turns' = [turns EXCEPT ![i].sources = s]
      PROVE  ThreadsKept
  <2>1. turns' = [turns EXCEPT ![i] = [turns[i] EXCEPT !.sources = s]]
    BY <1>3, Zenon
  <2>2. i \in DOMAIN turns => [turns[i] EXCEPT !.sources = s].thread = turns[i].thread
    BY <1>1, Zenon DEF Turn
  <2> QED BY <2>1, <2>2, ReplacedKept, Zenon
<1>4. ASSUME NEW i, NEW r, turns' = [turns EXCEPT ![i].revision = r]
      PROVE  ThreadsKept
  <2>1. turns' = [turns EXCEPT ![i] = [turns[i] EXCEPT !.revision = r]]
    BY <1>4, Zenon
  <2>2. i \in DOMAIN turns => [turns[i] EXCEPT !.revision = r].thread = turns[i].thread
    BY <1>1, Zenon DEF Turn
  <2> QED BY <2>1, <2>2, ReplacedKept, Zenon
<1>5. ASSUME NEW i, turns' = [turns EXCEPT ![i].state = "closed"]
      PROVE  ThreadsKept
  <2>1. turns' = [turns EXCEPT ![i] = [turns[i] EXCEPT !.state = "closed"]]
    BY <1>5, Zenon
  <2>2. i \in DOMAIN turns
           => [turns[i] EXCEPT !.state = "closed"].thread = turns[i].thread
    BY <1>1, Zenon DEF Turn
  <2> QED BY <2>1, <2>2, ReplacedKept, Zenon
<1>6. ASSUME NEW e \in Events, Route(e) PROVE ThreadsKept
  <2>1. \/ \E t : turns' = Append(turns, t)
        \/ \E i, s : turns' = [turns EXCEPT ![i].sources = s]
    BY <1>6, Zenon DEF Route
  <2> QED BY <1>3, <2>1, AppendedKept, Zenon
<1>7. ASSUME NEW e \in Events, Evaluate(e) PROVE ThreadsKept
  <2>1. CASE TurnClosed(e) \/ Answer(e)
    BY <1>2, <2>1, Zenon DEF TurnClosed, Answer, threadVars
  <2>2. CASE Superseded(e)
    <3>1. \E i, r : turns' = [turns EXCEPT ![i].revision = r]
      BY <2>2, Zenon DEF Superseded
    <3> QED BY <1>4, <3>1, Zenon
  <2>3. CASE Regenerate(e)
    <3>1. \E i, s : turns' = [turns EXCEPT ![i].sources = s]
      BY <2>3, Zenon DEF Regenerate
    <3> QED BY <1>3, <3>1, Zenon
  <2>4. CASE HandOver(e)
    <3>1. \E t : turns' = Append(turns, t)
      BY <2>4, Zenon DEF HandOver
    <3> QED BY <3>1, AppendedKept, Zenon
  <2> QED BY <1>7, <2>1, <2>2, <2>3, <2>4, Zenon DEF Evaluate
<1>8. ASSUME NEW e \in Events, Task(e) \/ ProviderFails(e) \/ PlainAnswer(e) \/ ToolSend(e)
      PROVE  ThreadsKept
  BY <1>2, <1>8, Zenon DEF Task, FollowUp, StartRun, SubmitReply, ProviderFails,
     PlainAnswer, ToolSend, threadVars
<1>9. ASSUME NEW e \in Events, Correct(e) PROVE ThreadsKept
  BY <1>4, <1>9, Zenon DEF Correct
<1>10. CASE Reset
  <2>1. turns' = [i \in DOMAIN turns |->
                    IF /\ turns[i].thread \in {th \in Threads : threads[th] = "open"}
                       /\ turns[i].state = "open"
                    THEN [turns[i] EXCEPT !.state = "superseded"] ELSE turns[i]]
    BY <1>10, Zenon DEF Reset
  <2>2. \A i \in DOMAIN turns :
           [turns[i] EXCEPT !.state = "superseded"].thread = turns[i].thread
    BY <1>1, Zenon DEF Turn
  <2> QED BY <2>1, <2>2, Zenon DEF ThreadsKept
<1>11. ASSUME NEW f, Execute(f) PROVE ThreadsKept
  BY <1>2, <1>11, Zenon DEF Execute, threadVars
<1>12. ASSUME NEW i, Settle(i) PROVE ThreadsKept
  BY <1>5, <1>12, Zenon DEF Settle
<1>13. CASE Crash \/ UNCHANGED vars
  BY <1>2, <1>13, Zenon DEF Crash, vars, threadVars
<1> QED BY <1>6, <1>7, <1>8, <1>9, <1>10, <1>11, <1>12, <1>13, Zenon DEF Next

\* A routed message stays routed, where it was.
LEMMA StepKeepsRoutes ==
    ASSUME ActorInv, [Next]_vars
    PROVE  AssignedKept /\ \A x \in Events : pc[x] # "new" => pc'[x] # "new"
<1>1. pc \in [Events -> PCs]
      /\ assigned \in [Events -> [thread : Threads \cup {"none"}, turn : Nat]]
  BY Zenon DEF ActorInv, Types, PCs
<1>2. CASE pc' = pc /\ assigned' = assigned
  BY <1>2, Zenon DEF AssignedKept
<1>3. ASSUME NEW e, NEW l, l # "new", pc' = [pc EXCEPT ![e] = l], assigned' = assigned
      PROVE  AssignedKept /\ \A x \in Events : pc[x] # "new" => pc'[x] # "new"
  BY <1>1, <1>3, Zenon DEF AssignedKept
<1>4. ASSUME NEW e \in Events, Route(e)
      PROVE  AssignedKept /\ \A x \in Events : pc[x] # "new" => pc'[x] # "new"
  <2>1. /\ pc[e] = "new" /\ pc' = [pc EXCEPT ![e] = "routed"]
        /\ \E a : assigned' = [assigned EXCEPT ![e] = a]
    BY <1>4, Zenon DEF Route
  <2>2. PICK a : assigned' = [assigned EXCEPT ![e] = a]
    BY <2>1, Zenon
  <2> QED BY <1>1, <2>1, <2>2, Zenon DEF AssignedKept
<1>5. ASSUME NEW e \in Events, Task(e) \/ Evaluate(e) \/ ProviderFails(e) \/ PlainAnswer(e)
      PROVE  AssignedKept /\ \A x \in Events : pc[x] # "new" => pc'[x] # "new"
  <2>1. assigned' = assigned
    BY <1>5, Zenon DEF Task, FollowUp, StartRun, SubmitReply, ProviderFails, PlainAnswer,
       Evaluate, TurnClosed, Superseded, Regenerate, HandOver, Answer, threadVars
  <2>2. \/ pc' = pc
        \/ \E l \in {"plain", "generating", "replying", "done"} :
              pc' = [pc EXCEPT ![e] = l]
    BY <1>5, Zenon DEF Task, FollowUp, StartRun, SubmitReply, ProviderFails, PlainAnswer,
       Evaluate, TurnClosed, Superseded, Regenerate, HandOver, Answer, RunEnds
  <2> QED BY <1>2, <1>3, <2>1, <2>2, Zenon
<1>6. ASSUME NEW e, ToolSend(e) \/ Correct(e)
      PROVE  AssignedKept /\ \A x \in Events : pc[x] # "new" => pc'[x] # "new"
  BY <1>2, <1>6, Zenon DEF ToolSend, Correct, threadVars, taskVars
<1>7. ASSUME NEW f, Execute(f) \/ Settle(f)
      PROVE  AssignedKept /\ \A x \in Events : pc[x] # "new" => pc'[x] # "new"
  BY <1>2, <1>7, Zenon DEF Execute, Settle, threadVars, taskVars
<1>8. CASE Reset \/ UNCHANGED vars
  BY <1>2, <1>8, Zenon DEF Reset, vars, threadVars, taskVars
<1>9. CASE Crash
  <2>1. /\ assigned' = assigned
        /\ pc' = [x \in Events |-> IF pc[x] = "new" THEN "new" ELSE "done"]
    BY <1>9, Zenon DEF Crash, threadVars
  <2> QED BY <2>1, Zenon DEF AssignedKept
<1> QED BY <1>4, <1>5, <1>6, <1>7, <1>8, <1>9, Zenon DEF Next

\* Only a tool call of the running generation binds a tool effect.
LEMMA StepKeepsTools ==
    ASSUME ActorInv, [Next]_vars, NEW e \in Events, ~ToolSend(e)
    PROVE  ToolKept(e)
<1> DEFINE f == <<e, "tool">>
<1>1. /\ effects \in [Slots -> Effect]
      /\ f \in Slots
      /\ effects[f] \in Effect
      /\ DOMAIN effects = Slots
  BY Zenon DEF ActorInv, Types, Slots
<1> SUFFICES ASSUME effects'[f].state # "none"
             PROVE  effects[f].state # "none" /\ effects'[f].turn = effects[f].turn
  BY Zenon DEF ToolKept
<1>2. CASE effects'[f] = effects[f]
  BY <1>2, Zenon
<1>3. ASSUME NEW s, effects'[f] = [effects[f] EXCEPT !.state = s], effects[f].state # "none"
      PROVE  effects[f].state # "none" /\ effects'[f].turn = effects[f].turn
  BY <1>1, <1>3, Zenon DEF Effect
<1>4. ASSUME NEW i, NEW r, effects' = StaleCancelled(i, r)
      PROVE  effects[f].state # "none" /\ effects'[f].turn = effects[f].turn
  <2>1. \/ effects'[f] = effects[f]
        \/ effects'[f] = [effects[f] EXCEPT !.state = "cancelled"] /\ Waiting(f)
    BY <1>1, <1>4, Zenon DEF StaleCancelled
  <2> QED BY <1>2, <1>3, <2>1, Zenon DEF Waiting
<1>5. ASSUME NEW d \in Events, Route(d) \/ FollowUp(d) \/ StartRun(d) \/ TurnClosed(d)
                \/ Regenerate(d) \/ HandOver(d) \/ Answer(d) \/ ProviderFails(d)
                \/ PlainAnswer(d)
      PROVE  effects' = effects
  BY <1>5, ZenonT(30) DEF Route, FollowUp, StartRun, TurnClosed, Regenerate,
     HandOver, Answer, ProviderFails, PlainAnswer
<1>6. ASSUME NEW d \in Events, Superseded(d) \/ Correct(d)
      PROVE  effects[f].state # "none" /\ effects'[f].turn = effects[f].turn
  BY <1>4, <1>6, Zenon DEF Superseded, Correct
<1>7. ASSUME NEW d \in Events, ToolSend(d) PROVE effects'[f] = effects[f]
  <2>1. d # e
    BY <1>7, Zenon
  <2>2. \E x : effects' = [effects EXCEPT ![<<d, "tool">>] = x]
    BY <1>7, Zenon DEF ToolSend
  <2>3. <<d, "tool">> # f
    BY <2>1, Zenon
  <2> QED BY <1>1, <2>2, <2>3, Zenon
<1>8. ASSUME NEW d \in Events, SubmitReply(d) PROVE effects'[f] = effects[f]
  <2>1. effects' = effects \/ \E x : effects' = [effects EXCEPT ![<<d, "reply">>] = x]
    BY <1>8, Zenon DEF SubmitReply
  <2>2. <<d, "reply">> # f
    OBVIOUS
  <2> QED BY <1>1, <2>1, <2>2, Zenon
<1>9. ASSUME NEW g, Execute(g)
      PROVE  effects[f].state # "none" /\ effects'[f].turn = effects[f].turn
  <2>1. /\ effects[g].state = "queued"
        /\ \E s : effects' = [effects EXCEPT ![g].state = s]
    BY <1>9, Zenon DEF Execute
  <2>2. PICK s : effects' = [effects EXCEPT ![g].state = s]
    BY <2>1, Zenon
  <2>3. CASE g = f
    BY <1>1, <1>3, <2>1, <2>2, <2>3, Zenon
  <2>4. CASE g # f
    BY <1>1, <1>2, <2>2, <2>4, Zenon
  <2> QED BY <2>3, <2>4, Zenon
<1>10. CASE Reset
  <2>1. \/ effects'[f] = effects[f]
        \/ effects'[f] = [effects[f] EXCEPT !.state = "cancelled"] /\ Waiting(f)
    BY <1>1, <1>10, Zenon DEF Reset
  <2> QED BY <1>2, <1>3, <2>1, Zenon DEF Waiting
<1>11. CASE Crash
  <2>1. \/ effects'[f] = effects[f]
        \/ effects'[f] = [effects[f] EXCEPT !.state = "stranded"]
              /\ effects[f].state = "queued"
    BY <1>1, <1>11, Zenon DEF Crash
  <2> QED BY <1>2, <1>3, <2>1, Zenon
<1>12. ASSUME NEW i, Settle(i) PROVE effects' = effects
  BY <1>12, Zenon DEF Settle
<1>13. CASE UNCHANGED vars
  BY <1>2, <1>13, Zenon DEF vars
<1>14. ASSUME effects' = effects
       PROVE  effects[f].state # "none" /\ effects'[f].turn = effects[f].turn
  BY <1>2, <1>14, Zenon
<1>15. ASSUME NEW d \in Events, Route(d) \/ Task(d) \/ Evaluate(d) \/ ProviderFails(d)
                                 \/ PlainAnswer(d) \/ ToolSend(d) \/ Correct(d)
       PROVE  effects[f].state # "none" /\ effects'[f].turn = effects[f].turn
  BY <1>2, <1>5, <1>6, <1>7, <1>8, <1>14, <1>15, Zenon DEF Task, Evaluate
<1> QED BY <1>9, <1>10, <1>11, <1>12, <1>13, <1>14, <1>15, Zenon DEF Next

LEMMA ToolStep == ActorInv /\ ToolInv /\ [Next]_vars => ToolInv'
<1> SUFFICES ASSUME ActorInv, ToolInv, [Next]_vars, NEW e \in Events
             PROVE  ToolBound(e)'
  BY Zenon DEF ToolInv
<1>1. ThreadsKept /\ AssignedKept /\ (pc[e] # "new" => pc'[e] # "new")
  BY StepKeepsThreads, StepKeepsRoutes, Zenon
<1>2. CASE ~ToolSend(e)
  BY <1>1, <1>2, StepKeepsTools, ToolBoundKept, Zenon
<1>3. CASE ToolSend(e)
  <2>1. /\ pc[e] = "generating"
        /\ UNCHANGED <<turns, assigned, pc>>
        /\ effects' = [effects EXCEPT ![<<e, "tool">>] =
                         [turn |-> snapshot[e].turn,
                          revision |-> snapshot[e].revision,
                          sources |-> snapshot[e].sources, state |-> "queued"]]
    BY <1>3, Zenon DEF ToolSend, threadVars, taskVars
  <2>2. effects \in [Slots -> Effect] /\ <<e, "tool">> \in Slots
    BY Zenon DEF ActorInv, Types, Slots
  <2>3. effects'[<<e, "tool">>].turn = snapshot[e].turn
    BY <2>1, <2>2
  <2>4. turns[snapshot[e].turn].thread = assigned[e].thread
    BY <2>1, Zenon DEF ActorInv, SnapshotInv, FrozenWell
  <2>5. pc'[e] # "new"
    BY <2>1, Zenon
  <2> QED BY <2>1, <2>3, <2>4, <2>5, Zenon DEF ToolBound
<1> QED BY <1>2, <1>3, Zenon

LEMMA ToolInvariance == Spec => []ToolInv
<1>1. Init => ToolInv
  BY DEF Init, ToolInv, ToolBound, NoEffect, Slots
<1> QED BY <1>1, ActorInvariance, ToolStep, PTL DEF Spec

\* After close_chat_threads no tool call of the chat's earlier work is
\* dispatched, also one that a provider call still running then queues later,
\* and nothing goes out under a turn of a closed thread: a tool effect is bound
\* to a turn of its message's thread, and a turn is open only while its thread
\* is.
THEOREM ResetIsFinal == Spec => ResetStopsDispatch
<1>1. ActorInv /\ ToolInv /\ [Next]_vars =>
         \A f \in DOMAIN effects :
            Dispatches(f) =>
               /\ threads[turns[effects[f].turn].thread] = "open"
               /\ f[2] = "tool" => threads[assigned[f[1]].thread] = "open"
  <2> SUFFICES ASSUME ActorInv, ToolInv, [Next]_vars, NEW f \in Slots, Dispatches(f)
               PROVE  /\ threads[turns[effects[f].turn].thread] = "open"
                      /\ f[2] = "tool" => threads[assigned[f[1]].thread] = "open"
    BY Zenon DEF ActorInv, Types
  <2>1. RevisionMatches(f)
    BY DispatchIsExecute, ZenonT(30)
  <2>2. effects[f].turn \in DOMAIN turns
    BY Zenon DEF ActorInv, EffectInv, BoundWell, Dispatches
  <2>3. threads[turns[effects[f].turn].thread] = "open"
    BY <2>1, <2>2, ZenonT(30) DEF ActorInv, TurnInv, RevisionMatches
  <2>4. ASSUME f[2] = "tool" PROVE f[1] \in Events /\ f = <<f[1], "tool">>
    BY <2>4 DEF Slots
  <2>5. ASSUME f[2] = "tool"
        PROVE  turns[effects[f].turn].thread = assigned[f[1]].thread
    <3>1. effects[<<f[1], "tool">>].state # "none"
      BY <2>4, <2>5, Zenon DEF Dispatches
    <3>2. turns[effects[<<f[1], "tool">>].turn].thread = assigned[f[1]].thread
      BY <2>4, <2>5, <3>1, Zenon DEF ToolInv, ToolBound
    <3> QED BY <2>4, <2>5, <3>2, Zenon
  <2> QED BY <2>3, <2>5, Zenon
<1> QED BY <1>1, ActorInvariance, ToolInvariance, PTL DEF Spec, ResetStopsDispatch
=============================================================================
