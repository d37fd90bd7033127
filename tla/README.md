# Verification of the yeoman gateway

TLA+ specifications of the parts of yeoman that decide whether a message leaves
the house, what it is paid from, and what is kept of the messages that came in:
the managed outbox (effect store, gateway, reconciler), the send budgets, the
thread actor that produces messages, the scheduler and the ledger of the messages
the assistant sends unasked, and the raw archive. TLC checks the specifications
on small instances; TLAPS proves nearly all safety properties for every instance.
Line numbers refer to the sources under `src/`; `processing/` and
`consciousness/` are short for the directories of that name in
`src/packages/gateway/yeoman_gateway/`, `raw_archive/` for
`src/packages/shared/yeoman_shared/raw_archive/`.

Contents: 1 the system, 2 modules and code, 3 runs, 4 findings, 5 proofs,
6 abstractions, 7 what is not modelled.

## 1. The system

yeoman is a chat agent. Channels (WhatsApp through a TypeScript bridge, Telegram)
deliver messages to a gateway process, an orchestrator decides whether and how
to answer, a provider (language model) is called, and answers, reactions and
tool-made messages go back out through the channels. The gateway is one Python
process with one asyncio event loop and a SQLite database per concern.

| Part | State | Operations | What makes it hard |
|---|---|---|---|
| Effect state machine (`processing/models.py`) | ten states and a table | `validate_transition` | requeue only with evidence, leave *executing* only as the claim holder |
| Effect store (`processing/store.py`) | tables effects, attempts, receipts | enqueue, claim, release, transition, recover | leases that run out while the call goes on |
| Effect gateway (`processing/effects.py`, `dispatch.py`, channels) | coroutines in `_run` | submit, capacity block, authorise, claim, send, record | two runs of one operation key, crash between commits, answers that never come |
| Reconciler (`processing/reconcile.py`) | probe plan, running tick | recover, plan, probe, escalate, operator decision | decides on readings made before an await |
| Budgets (`processing/budget.py`, `store.py`) | durable reservations, in-memory soft window | reserve, next-ready, defer | sliding windows, ties, restart |
| Threads and turns (`processing/threads.py`, `actor.py`, `responder.py`, `invalidation.py`) | threads, turns with revisions, postbox, generations | route, start, drain, restart, hand over, answer, edit, reset, settle | messages, edits and `/new` arrive while a provider call runs |
| Participation scheduler (`consciousness/opportunities.py`, `participation_runtime.py`) | pending record per chat, claims, watermark, worker pool | offer, merge, run, retire, cancel | repeated triggers, direct requests that take a record from a running handler, restarts that forget everything but the watermark |
| Participation ledger (`consciousness/log.py`, `delivery.py`, `tools.py`) | reservations, approvals, claims | reserve, stage, approve, attempt, project, release | commits separately from the outbox; charges are dated later than they are checked |
| Raw archive (`raw_archive/`) | month files, spool, memory queue, AUDIT, journal, MANIFEST, media | append, drain, defer, purge, recover, seal | three processes, disk faults, crashes between file operations |
| Bus, cron, heartbeat, a2a, sessions, pipeline, knowledge, bridge, overseer | queues, job files, derived data | — | see section 7 |

`PROJECT.json` lists every part with its status, and the hazards (what a test
would hardly reach) with the line where each bites.

How the parts interact. Every message is archived first (the Bridge keeps it until
the archive has acknowledged it). A message is routed to a thread and a turn; the
thread's actor runs one generation at a time and keeps later messages in a
postbox. A generation is frozen with a turn revision; what its tool calls send,
and its final reply, become effects bound to a turn revision. The router enqueues
an effect, passes the budgets, and the gateway authorises, claims and executes
it over a channel. Whatever is left unproven (dead process, lost answer, lease
run out) is the reconciler's, which only looks at local evidence. Beside this,
observed messages are offered to the participation scheduler; a worker evaluates
them, and a comment that is worth making reserves an allowance in the ledger, is
approved by the owner where needed, and becomes an effect like any other; a
second reconciler carries the effect's outcome back into the ledger. A direct
request fences the chat off from the scheduler while it lasts.

The properties that make this correct: a message goes out at most once per
operation key; *sent* and *not run* are never said wrongly; everything unproven
is eventually decided; no window of a budget or an allowance is overspent; one
answer at a time per thread and one evaluation at a time per chat; nothing
outdated (edited, reset) is sent; no input is lost or evaluated twice; the owner's
word counts; what was acknowledged is archived, in order; what was purged is gone.

## 2. Modules and code

**EffectModel** is `processing/models.py`: the states, `Transitions` (the table),
`ValidTransition` (claim-holder and evidence rules of `validate_transition`).

**EffectStore** is the outbox part of `processing/store.py`. A row is a record
(state, origin, claim owner, lease end, update time, expiry), the attempts table
a sequence of outcomes per effect, `receipt` the best transport receipt stored.
Each method is one operator that is one transaction: `EnqueueEffect`,
`ClaimEffect`, `ReleaseClaim`, `Transition` (the compare-and-set with the closing
of open attempts), `RecoverExecuting`, `RecordTransportReceipt`. `StoreSpec` lets
any caller with any worker id use them in any order, which is more than the
gateway does; it is the specification the callers are measured against.

**EffectGateway** is one coroutine per task through `IntentEffectRouter._run`,
`EffectGateway.execute_ready`, `BusEffectExecutor.execute` and the channel's send
method. Locations: *submitted* (enqueued), *ready* (capacity passed, before the
policy await), *claimed* (claim committed, no await yet), *calling* / *written*
(inside the transport call, between and during commands), *acked* (receipt
stored, state not yet). Steps between awaits are atomic for other coroutines
(`LoopFree`), not for a crash. WhatsApp writes `Parts` commands one after the
other and waits for each; Telegram returns silently on several failures and
repeats a failed formatted send as plain text. The bridge and the providers are
external: a written command is accepted now, later, or never.

**Reconciler** is `ReconciliationService`: `TickBegins` reads the clock, recovers
expired claims and lists the unknown effects; per candidate `EscalateUnplanned`,
`EscalateOverdue`, `WaitForProbe`, `StartProbe` (evidence gathered, then await)
and `ProbeAnswers` (applied by compare-and-set). The store commits call by call:
`TickCutShort` and `CandidateCutShort` are what a tick that dies between two commits
leaves behind (claims recovered but not all of their probes planned, a probe finished
or planned and the effect not moved). `OperatorConfirms` is `operator_decision`.

**EffectOutbox** composes them with the provider, the clock, `Crash` (also inside a
tick), `Restart` (the startup tick of `app/bootstrap.py`), `RestartFails` (a start that
dies in that tick) and `StartupDone`. **EffectContract**
has no tasks, leases, probes or crashes: per action a verdict, a count of issued
and of performed commands. The refinement mapping reads the verdict off the
effect's state (`VerdictOf`) and maps `frames` and `accepted` to the counts.

**ThreadActor** is one chat. `Route` is `ThreadRegistry._persist` with the thread
a free choice; `StartRun`, `FollowUp` the two branches of the responder; the five
actions of `Evaluate` are the outcomes of `_evaluate_postbox` (turn closed,
superseded, restart with the drained inputs, hand-over to a follow-up turn,
answer); `ToolSend`, `SubmitReply`, `Execute` make and execute effects with the
revision check of the policy; `Correct` is `SignalInvalidator` for an edit or a
delete, `Reset` is `/new`, `Settle` is `settle_idle_turns`. `stale` is a history
variable: which snapshots and tool effects rest on a message that was edited
since; no action reads it.

**SendBudget** is the way of an effect through `_capacity_block` with the pure
functions of `budget.py` (`SpentAt`, `AvailableAt`, `NextReady`, `DeferUntil`)
and `reserve_send_budget`. The units of a set of reservations are counted as a
set (each reservation with each of its units), which is the sum the code forms
and needs no recursion.

**OpportunityScheduler** is what turns observed messages into evaluations:
`Inbound` and `Redelivered` are `ParticipationIngress.handle_event`, `Trigger` the
offer of a burst, a lull or a trend, all through `OfferSource` (`offer_source`
with the hydration of the watermark, `offer_with_result` and the release of
claims); `Pop` and `HandlerEnds` are the worker with `_run_one` and `_retire`;
`DirectRequest`, `DirectRedelivered` and `DirectFinished` are the fence of
`processing/policy.py`; `Restart` forgets the scheduler, keeps the databases, and
may leave the claims of an offer it interrupted. `handed` is a history variable.

**ParticipationLedger** is the ledger with its callers: a decision's coroutine
(`Reserve`, `Abandon`, `SubmitComment`, `Stage`, `PreviewSent`, `PreviewFailed`), the
owner's codes (`Approve`, `Close`, `Refuse`, `SubmitApproved`), the effect in the
other database (`Start`, `Outcome`, `LateReceipt`, `Probe`, `OperatorConfirms`,
`Signal`), the router's return (`Finish`) and the receipt reconciler (`Reconcile`; its
first pass after a start is part of `Restart`). `CrashBetweenCommits` cuts between the
effect's commit and the ledger's. What a ledger method makes of a row is an operator
of its own: `Attempted`, `ReleasedRow`, `AcceptedRow`, `DeliveredRow`, `UnknownRow`.

**RawArchive** is the writer of the gateway (`AppendCall`, `DrainAppend`,
`DrainUnlink`, `DrainMemory`, `Write`, `Defer`), the owner's purge (`PurgeLock` to
`PurgeMedia`, one file operation a step; `PurgeRefused` where the recovery of an
earlier one raises) and `yeoman raw verify` (`SealCheck`, `SealChmod`, `SealRecord`),
three processes that meet in the files, with a crash of each. `torn` says which of
AUDIT and the purge's journal ends in the fragment a purge left that died while it
appended; `intake` whether the WhatsApp channel runs, which a full memory queue stops.
A line is the event it records and whether it references a stored medium; the digest
of a file is its contents. `taken` is a history variable: the pairs of events of which
the first had a line no later than the second.

The modules `MC*` instantiate these for TLC. Definitions such as
`RecoverExecutingToQueued` or `StartRunAlways`, each in front of the definition it
varies, are plausible mistakes; every property is checked to fail under one.

## 3. Runs

| Run | Instance | States | Shows |
|---|---|---|---|
| store | 1 effect, 2 worker ids, 3 attempts, clock 0..3 | 14,926 | claims, leases and attempts stay in step (`ClaimBookkeeping`); nothing is attempted after *sent* (`NoAttemptAfterSent`) |
| outbox | 1 effect, 2 tasks, 1 command, 2 probes, 1 crash, clock 0..5 | 511,029 | `AtMostOnce`, `SentIsTrue`, `NotRunIsTrue`, `ReplySentIsTrue`, `ParticipationNeedsReceipt`, and the refinements `ImplementsContract` and `UsesStore`; no deadlock |
| outbox_live | 1 effect, 1 task, 2 commands, 2 crashes, clock 0..4, fairness | 164,776 | `ExecutingEnds`, `UnknownEnds`, `StoredReceiptCounts` |
| thread_actor | 3 messages, 1 thread, postbox of 1, 2 turns, 2 revisions | 996,370 | `OneGenerationPerThread`, `PostboxWithinCap`, `DrainedIsKept` |
| two_threads | 2 messages, 2 threads, tool calls, edits, reset, 1 crash | 350,033 | `ResetStopsDispatch`, `CorrectionStopsDispatch`, `AnswerIsCurrent` |
| thread_live | 2 messages, 1 thread, 1 crash, fairness | 71,995 | `TaskEnds` |
| send_budget | 3 effects (units 1, 1, 2), 3 submissions, limit 2 per window 2, clock 0..3, 1 crash | 1,082,953 | `NoWindowOverspent`, `ClaimIsPaid`, `NextReadyHasRoom`, `DeferUntilIsEarliest` |
| opportunity | 2 chats, 2 workers, 1 pending record, 2 references, 2 epochs, 1 restart, fairness | 122,896 | `OneHandlerPerChat`, `NeverHandedTwice`, `ClaimsCoverWork`, `AcceptedIsEvaluated` |
| ledger | 2 proposals, one of them needs approval, 2 coroutines, a rolling and a calendar window, clock 0..2, 1 crash, fairness | 688,212 | `WindowKept`, `ChargedWasSent`, `OwnerDecides`, `NeverRefunded`, `ConfirmedIsCharged` |
| raw_archive | 3 of 4 events (every kind of call), 2 files, a memory queue of 1, budgets of faults, crashes, purges and verify runs, fairness | 341,934 | `AckedIsDurable`, `OrderKept`, `PurgeErases`, `PendingUntouched`, `ReferencesExist`, `NothingDropped`, `NoResurrection`, `DurableIsAcked` |

Two larger instances that take longer and are not among the runs pass as well:
`MCLedgerLong.cfg` (clock 0..3, 2,261,775 states) and `MCRawArchiveWide.cfg` (other
combinations of budgets, 395,062 states), both without the liveness property.

**Why the bounds are enough for the cases.** Effects do not share rows, claims or
probes; the only thing two effects share is the event loop and the tick, which the
proofs cover for any number. Two tasks on one effect give every race for a claim and
every overtaking by recovery; one crash gives every cut between two commits, the
reconciler's own among them, and the second one of `outbox_live` every cut of the
recovery from the first. Clock 0..5 lets a lease (1), the effect's expiry (2), the
probe schedule and the deadline (3) pass in any order. In `ThreadActor` a postbox of
one and one additional generation put both limits within reach of three messages;
`MaxRevision` 2 gives one edit per turn. `thread_live` has more turns than two
messages can open, so that no bound stops a task. In `SendBudget` window 2 in a clock
0..3 has attempts that leave the window, and a two-unit effect on a limit of 2 does
not fit beside another one. In the scheduler one pending record for two chats puts the
bound on chats, and two references for three messages the bound on references, within
reach; a restart between the messages leaves only the watermark. In the ledger the two
proposals share a category with room for one; every TTL can pass before, while and
after the preview, the approval and the send. In the archive two calls with a failing
disk fill the memory queue and stop the channel; two purges, a crash that may tear a
bookkeeping line, faults and a verify run meet in any order. The budgets are sets of
combinations, so that not all of them are at their largest together. The safety
properties do not depend on these choices: section 5.

**Fairness.** In the outbox: code between two awaits runs on, the loop gives the
reconciler its turns (a periodic task of the process), a dead process is restarted
(service manager), and time passes. Nothing is assumed of transport calls, the
provider, callers or the operator. The liveness properties speak of leases and
deadlines that come due before the clock's bound. In `ThreadActor`: ready coroutines
run, provider calls return or time out, queued effects of a live task are executed,
the idle sweep comes round. In the scheduler: the pool's tasks wake up (`_next_ready`
waits a quarter of a second) and a handler ends. In the ledger: the reconciliation
loop goes on. In the archive: a call that has the writer's lock, a purge and a verify
run go on, the history projector drains the spool at every fence, and a running
channel tries an event of the Bridge again until it is acknowledged (strong fairness,
since other calls may hold the lock in between). Nobody has to start a channel that
stopped because the memory queue was full ("explicitly restarted",
`channels/whatsapp.py:1435`): `DurableIsAcked` has as a premise that it runs again and
again. No message, edit, reset, owner's code, failure or crash has to happen.

Deadlock is checked in the store and outbox runs and in raw_archive. The others
switch it off: all messages handled is a normal end.

## 4. Findings

Places where code and its own documentation disagree. VMediaFailed and
VBacklogStuck are runs of the project (media_failed, backlog_stuck) that end in
TLC's counterexample; the others are reproduced with the named configuration in
the same way (`tlc -config <cfg> <module>`).

| Configuration | Property | What the code does | What is said |
|---|---|---|---|
| VMediaFailed | `NotRunIsTrue` | a bridge that goes away between two media files raises "not connected", the effect is marked *failed* although the first file is out (`effects.py:276`) | "provably happened before anything was dispatched" (`effects.py:28`) |
| VBacklogStuck | `BacklogDrains` | a line for a month that is sealed by now cannot be opened for writing; it goes to the spool, where every drain stops at it, and every later event of any month queues up behind it (`raw_archive/writer.py:757`) | "Both drain, oldest first, on the next" append (`raw_archive/writer.py:4`) |
| VSealedMonth | `SealedMatches` | sealing takes none of the purge's locks: a month sealed between the journalling and the replacement of its rewrite keeps the digest of the old bytes, after which every purge of it stops with a checksum mismatch (`raw_archive/verify.py:78`) | "MANIFEST is append-only; the latest entry per file wins" (`raw_archive/verify.py:4`) |
| VFollowUpLost | `FollowUpIsQueued` | a direct request takes the record from a running handler; a worker pops the key of the next record while that handler is active and drops it, and the handler's `_retire` looks only at its own record (`opportunities.py:410`) | "The active handler's _retire() queues its merged follow-up." (`opportunities.py:410`) |
| VChatMuted | `MutedOnlyWhileDirect` | a direct message delivered again after its request has finished cancels the chat again and has no binding left to finish (`processing/policy.py:803`) | "Allow a chat to be scheduled again after a direct request finished." (`opportunities.py:321`) |
| VReleasedSent | `ReleasedNeverSent` | the sweep may release a reservation while its preview is on its way; the codes are offered all the same and `record_send_attempt` marks the released row, so an approved message goes out that no allowance is charged for (`log.py:1864`) | "Release an unsubmitted/definitely-unaccepted reservation." (`log.py:2042`) |
| VHoldKept | `HoldIsReconciled` | an approval after the reservation's lease makes `record_send_attempt` raise; the effect has expired on arrival and the reconciler releases only rows that were submitted (`tools.py:1257`) | "Keep the hold until the same deterministic effect is reconciled." (`tools.py:1257`) |
| VLateReceipt | `LateReceiptCorrects` | only *unknown* effects are listed, a receipt after the escalation is never read (`reconcile.py:458`) | "A late receipt still corrects it to `sent`" (runbook:162) |
| VReplyTurn | `ReplyKeepsTurn` | `submit_outbound` passes no source message, the reply is bound to the chat's active turn, maybe of another thread (`dispatch.py:967`) | "remember the frozen turn against the source message" (`responder.py:225`) |
| VEditMissed | `EditReachesEffects` | an edit is looked up by the turn the message was routed to (`invalidation.py:120`); a message drained into another turn's generation is a source there but keeps its old turn id, so effects that rest on the old text go out | "It must reach turn and effects." (`tests/gateway/test_processing_review_fixes.py:159`) |
| VFollowUpTurn | `FollowUpTurnContinues` | nobody generates for the turn opened for remaining inputs (`actor.py:345`) | "continue as the next turn of the same thread" (`actor.py:43`) |
| VRestartNarrows | `RestartWidens` | a restart freezes the thread's newest open turn, which need not hold the original question (`actor.py:322`) | "answers with the wider snapshot" (`responder.py:161`) |
| VBlockedReply | `BlockedReplyIsTrue` | *blocked* is reported even when the compare-and-set missed and the effect is *sent* (`dispatch.py:1420`) | "stays recorded as ``blocked``" (`dispatch.py:1391`) |
| VOpenProbe | `EscalatedPlanIsClosed` | a probe that was scheduled but never claimed stays open after the escalation (`reconcile.py:521`) | "must be closed" (`reconcile.py:519`) |
| VResetReply | `ResetEndsWork` | a reply looks its turn up when it is submitted: one that `/new` overtakes on its way is bound to the turn of the next message and dispatched (`dispatch.py:1137`) | "End all current work for one chat" (`store.py:2883`) |
| VTelegramSent | `SentIsTrue` | Telegram's send returns normally on several failures (`channels/telegram.py:378`) | "the channel accepted the message, and raises otherwise" (`channels/manager.py:437`) |
| VTelegramTwice | `AtMostOnce` | after an ambiguous error the text is sent again as plain text (`channels/telegram.py:417`) | "execute one queued effect at most once" (`effects.py:186`) |
| VGapNotBusy | `GapIsBusy` | no row shows the work between the answer and the reply's enqueue (`store.py:2763`) | "Unsettled work includes the gap" (`store.py:2756`) |
| VQuietTurn | `QuietTurnsSettle` | an unfinished generation row or a waiting input left by a crash or failure keeps its turn open for ever (`store.py:2831`) | "Close turns that went quiet long ago" (`store.py:2810`) |
| VNextReady | `NextReadyIsNext` | the time returned is the end of the attempt that fills the window, not of the oldest one (`budget.py:65`) | "When the next unit becomes available" (`budget.py:56`) |

`runbook` is `src/docs/architecture/processing-rollout-runbook.md`. The counterexample
of VEditMissed is short: two messages of a thread open two turns, the second one is
generated first and drains the other from the postbox, that message is edited (which
revises only its own turn), and the tool call of the generation that was asked with
the old text is dispatched. `CorrectionStopsDispatch` is what does hold: an edit of a
message that was routed to the turn stops everything. Likewise `NotRunIsTrue` holds
for single commands, `AcceptedIsEvaluated` unless a cancelled handler is still
running, `ResetStopsDispatch` for tool calls and for everything bound to a closed
thread, and `DurableIsAcked` also with a stuck backlog, since the spool counts as
durable. A receipt that was stored before a crash can still end in an escalation, as
in VLateReceipt: when the process dies again before the probe's verdict is applied,
the effect may be overdue or out of probes at the next start and is escalated without
a look at the receipt; `StoredReceiptCounts` says that this is the only way.

A sealed month is one cause of a stuck backlog. The other is a purge that died while
it appended to AUDIT or to its journal: the fragment makes every later append raise,
whichever file it is for (`_record_is_disposed`, `_pending_publications`), one of the
journal every later purge too; lines go to the spool until somebody repairs the file.
The model has both, and the safety properties hold with them.

## 5. Proofs

`tlapm` checks eight modules to the last leaf. Assumed of the constants is what the
modules' `ASSUME`s say (positive leases, windows, limits and capacities, functions
on the right domains, a lease no shorter than the opportunity's TTL); clock, crash
and fault bounds are arbitrary numbers, effects, tasks, chats, workers, proposals and
files arbitrary sets, infinite ones included where the code does not rule it out.
Only the messages of `ThreadActor` are assumed to be finitely many.

| Theorem | Statement | Restricted to |
|---|---|---|
| **EffectOutboxProofs** | | |
| `StoreTyped`, `ClaimsAreBooked`, `StoreCorrect` | `StoreSpec => []StoreTypeOK`, `[]ClaimBookkeeping`, `[]NoAttemptAfterSent` | |
| `ProbesAreInTurn` | `Spec => []ProbesInTurn` | |
| `OutboxUsesStore` | `Spec => UsesStore` | |
| `RepliesAreBacked`, `ParticipationIsReceipted` | `Spec => []ReplySentIsTrue`, `[]ParticipationNeedsReceipt` | |
| `WhatsAppAtMostOnce`, `WhatsAppSentIsTrue` | `Spec => []AtMostOnce`, `[]SentIsTrue` | WhatsApp |
| `NotRunVerdictsAreTrue` | `Spec => []NotRunIsTrue` | Telegram, or one part |
| `OutboxImplementsContract` | `Spec => ImplementsContract` | WhatsApp, one part |
| **ThreadActorProofs** | | |
| `GenerationsAreExclusive`, `PostboxIsBounded` | `Spec => []OneGenerationPerThread`, `[]PostboxWithinCap` | |
| `ResetIsFinal`, `CorrectionIsFinal`, `AnswersAreCurrent`, `DrainedInputsAreKept` | `Spec => ResetStopsDispatch`, `CorrectionStopsDispatch`, `AnswerIsCurrent`, `DrainedIsKept` (action properties) | |
| **SendBudgetProofs** | | |
| `BudgetTyped`, `WindowsAreNotOverspent`, `AttemptsArePaidOnce`, `ClaimsArePaid` | `Spec => []TypeOK`, `[]NoWindowOverspent`, `[]AttemptPaidOnce`, `ClaimIsPaid` | |
| `NextReadyIsReady`, `DefersAreEarliest` | `Spec => []NextReadyHasRoom`, `[]DeferUntilIsEarliest` | |
| **OpportunityProofs** | | |
| `HandlersAreExclusive`, `WatermarkIsDurable` | `Spec => []OneHandlerPerChat`, `[]WatermarkFollows` | |
| `QueuedStaysReady`, `LimitsHold` | `Spec => []QueuedIsReady`, `[]WithinLimits` | |
| `SourcesAreHandedOnce`, `WorkIsClaimed` | `Spec => []NeverHandedTwice`, `[]ClaimsCoverWork` | |
| **ParticipationLedgerProofs** | | |
| `LedgerTyped`, `ChargesAreEarned`, `OwnerHasTheWord`, `ChargesStay` | `Spec => []TypeOK`, `[]ChargedWasSent`, `[]OwnerDecides`, `NeverRefunded` | |
| **ParticipationWindows** | | |
| `WindowsHold` | `Spec => []WindowKept` | |
| **RawArchiveAppend**, **RawArchiveProofs** | | |
| `ArchiveTyped`, `AckedStaysDurable`, `PendingStaysUntouched`, `PurgeIsComplete`, `MediaAreKept` | `Spec => []TypeOK`, `[]AckedIsDurable`, `[]PendingUntouched`, `[]PurgeErases`, `[]ReferencesExist` | |
| `OrderStaysKept` | `Spec => []OrderKept` | |
| `LinesAreNotDropped`, `PurgedStaysPurged` | `Spec => NothingDropped`, `NoResurrection` (action properties) | |

The restrictions of the outbox are not the proof's: VTelegramTwice, VTelegramSent and
VMediaFailed are counterexamples without them.

TLC has checked every inductive invariant below on the instances of section 3 (of
`PlanInv` with dates 0..20, since it names no set of dates), beside the properties
that the runs list, before it was proved; so it has `ProbesInTurn`, `QueuedIsReady`,
`WithinLimits`, `WatermarkFollows`, `AttemptPaidOnce` and the `TypeOK` of every module.

**The store.** `StoreInv` ties an open attempt to the last place of the list and to
the state *executing*, and a *sent* attempt to the state *sent*, from which the
transition table has no way out; without the latter `NoAttemptAfterSent` is not
inductive.

**The reconciler's questions.** `PlanInv` stands beside `OutboxInv` and needs nothing
of it: the probes of an effect are closed except perhaps the newest, and an awaited
answer has its open probe, held by the reconciler. A crash leaves
a probe open and forgets the answer; a later tick takes up the open probe and plans a
new one only where there is none.

**The outbox.** `OutboxInv` carries everything else:

- `StoreInv`, `GatewayTypeOK`: types, and the store's invariant. Every step of the
  outbox is shown to be a step of the store, which keeps `StoreInv`.
- `SubmittedInv`: a task at work has a row.
- `TickInv`: an effect a tick has listed is unknown, escalated or sent by the time
  it is handled, never back in a state that can be claimed.
- `ClaimInv`: an effect is claimed at most once in its life. States before a claim
  have seen no attempt, command or receipt; a task inside its transport call finds
  its effect executing or overtaken; two tasks are never inside for one effect.
- `EvidenceInv`: local evidence never calls for a requeue. Outside *failed* there
  is no failed attempt, so the outcome *not executed* cannot arise and no
  production step leads back to *queued*. `ClaimInv` is not inductive without it.
- `CallInv`: a task inside its call knows how many commands are out and that no
  receipt is stored yet.
- `WireInv`: on WhatsApp receipts and *sent* rest on accepted commands.
- `RefusalInv`: a refusal that counts as proof precedes the first command.

The module first shows for each kind of step (before a claim, end of a call, crash,
claim, commands, receipt, provider, verdicts) that the conjuncts stay, then applies
this action by action. The refinement of `EffectContract` follows from the invariant
step by step.

**The thread actor.** `ActorInv`: an open turn has an open thread (`TurnInv`), a
routed message a thread and a turn (`RouteInv`), sources are routed messages
(`SourceInv`), the in-flight flag is up exactly while one generation runs
(`FlightInv`). `SnapshotInv` and `EffectInv` are the heart: what is frozen or queued
has at most the revision of its turn, and a smaller one as soon as a source routed to
that turn was edited. That makes the policy's comparison of revisions, which
knows nothing of edits, stop everything outdated. `ResetStopsDispatch` needs `ToolInv`
beside it: a tool call is bound to a turn of the thread its message was routed to, and
stays there, so a closed thread closes the way for everything its generations queue.
For replies the like does not hold (VResetReply). The newest open turn, a `Max` in the
code, exists because a bounded set of numbers has a greatest element
(`GreatestElement`, proved from the well-foundedness of `<` without induction).
The cap on the postbox is counted on top of `ActorInv`: a message enters a postbox
only below the cap, a hand-over refills an emptied one up to it, and every other
step lets the set of waiting messages shrink or stay.

**The send budget.** `BudgetInv`: reservations and noted sends lie in the past
(`PastInv`), so a window that ends later contains no more than one that was checked,
and a run that was admitted has paid for the row version it is about to claim, as
long as the row is queued (`RunInv`: only an absent row becomes queued, so the
version does not change before the claim). `NextReadyHasRoom` follows because with
the attempt that fills the window everything older leaves too; `DeferUntilIsEarliest`
by counting the sends at or after a stamp.

**The scheduler.** `SchedulerInv`: the revision of a pending or running record never
exceeds the durable watermark, which makes `WatermarkFollows` inductive. `WorkInv`:
references of records are claimed and not above the watermark, while offers only
bring references above it; an unreported reference was never handed out; and a
pending record without its own handler has something unreported. The last is what
rules out that an evaluation falls back to material that was given out before
(`_as_opportunity` does so when nothing is unreported).

`QueuedIsReady` and `WithinLimits` rest on one lemma, `RecordsMove`: a step concerns the
record and the key of one chat, which it takes away, ages, pops, puts back or merges
an offer into. A key may outlive its record, but the pop of a chat that has a record
takes the mark off it, so a record never keeps a mark that no key backs; and a record
is new only below the limit.

**The ledger.** `LedgerInv`: what is charged or confirmed by a receipt was performed
(`ConfirmedWasPerformed`; an operator's word makes an effect *sent* without one and
charges nothing). `OwnerInv`: a denial cancels only an unsubmitted
reservation, by then the draft is done, the status is terminal and no submission has
left the proposal in the cache, so no later submission loads it. `WindowsHold` needs
two more: charges and confirmations are dated between the reservation and now
(`StampInv`), and `CapacityInv`, which counts for every window, past or present, not
only its charges but also the open holds that may still be charged to it. A
reservation looks at one window only; `CapacityInv` survives because every other
window a new hold can reach has no more in it than the one that was checked.

**The archive.** `ArchiveInv`: a journalled rewrite has the length of the file and
differs from it only in tombstones for disposed lines, and files and MANIFEST have the
contents from before or after it (`JournalInv`); the spool file that is about to be
unlinked is archived or disposed of (`UnlinkInv`); what a purge still has to replace
is journalled (`PurgeInv`); the media guard excludes calls that bring media while a
purge plans to delete some (`MediaInv`). `RawArchiveAppend` shows that one locked
append keeps all of it and loses no line, `RawArchiveProofs` goes through the steps of
the three processes.

The order of the lines has an invariant of its own on top, `OrderInv`: an event with a
line was taken, and what was taken and not disposed of has a line. A line that comes
new is therefore in no store yet, and it suffices to show that no step exchanges two
kept lines (`Unmoved`). The lemma `AheadConcat` reduces the order in the file, the
spool and the memory queue, one behind the other, to the order within each of them.
A rewrite keeps the place of every kept line; a drain takes the head of one store to
the end of the store before it; an unlinked head is in its file by `UnlinkInv`; and
`_defer_locked` lets a line into the spool only behind the whole memory queue.

**Only model-checked.** Liveness (`ExecutingEnds`, `UnknownEnds`,
`StoredReceiptCounts`, `TaskEnds`, `AcceptedIsEvaluated`, `ConfirmedIsCharged`,
`DurableIsAcked`): the prover does not handle fairness.
`TypeOK` of `EffectOutbox` (due times are sums over the backoff list, which
takes induction over data) and of `ThreadActor` and `OpportunityScheduler` (their
invariants carry the types the proofs need).

## 6. Abstractions

- One event loop, one gateway worker id, one reconciler. Code between two suspension
  points is one step. Ids, texts and payloads are model values; expiry and update
  times are small numbers. The clock does not step back, and events in the same
  millisecond have a fixed order.
- Whether the policy or the capacity check refuses an effect is a free choice in
  `EffectGateway`; `SendBudget` has the capacity check in full, `ThreadActor` the
  turn-revision check.
- A claim, a receipt and a state are separate commits and a crash may fall between
  them. A probe is two steps because it awaits in between. A tick reads the clock when
  it begins; in the code it does so before the awaited projection of participation
  receipts (`reconcile.py:427`), so that its time may lag further behind. A pass of
  the reconciler reads at most a fixed number of rows; the model has all of them in
  one pass, so starvation behind that limit is out of its sight.
- Callers that exist in the store but not in production (`release_claim`, requeueing a
  failed or blocked effect, forced reconciliation) are steps of `StoreSpec` only.
  `operator_decision` has no caller in the repository; it is an interface of the
  operator's and modelled as such. Nobody executes an effect that was left *queued* or
  *blocked* by an earlier process, so the model has no such step.
- `Parts` counts the media files that pass validation. `whatsapp.py:774` skips a file
  that does not and reports success for the rest.
- `EffectConflictError` (same key, other payload) and purge are left out. Calls of
  SQLite do not raise: the responder's degraded path (`responder.py:164`) and failures
  of `mark_considered` or of the release of claims are not modelled.
- `ThreadActor`: which thread a message joins, in which order deferred inputs are
  promoted and when a turn counts as idle are free choices. That an idle thread goes
  dormant and is reopened changes nothing the model has; a thread closed by `/new` is
  not reopened by a reply (`threads.py:731`). Corrections and deletions, which join
  the turn of the message they name, and messages that may not open a turn are not
  routed. Postbox inputs of kind *edit* are part of the actor's interface though
  production only enqueues messages; the two_threads run has both. A closed turn is
  not revised. After a crash queued effects stay behind as rows nobody executes
  (*stranded*).
- `SendBudget`: the router has a budget, as production wires it; one thread per chat;
  the soft limit is advisory as in the default configuration. The recent sends of a
  thread are a set of run and time instead of a list, which `defer_until` sorts
  anyway. Claims of a crashed process become *unknown* at once. The in-memory
  `SendBudget` class of `dispatch.py` is replaced by the durable one in production.
- `OpportunityScheduler`: a source is its revision; the bound on bytes drops from the
  same end as the bound on references and is left out, like the shadow lane. When a
  burst, lull or trend triggers, and when a record outlives its TTL, are free choices.
  Every source belongs to the participation lane; one that the legacy path owns is
  dropped before it is offered (`participation_runtime.py:306`). A missing entry of
  `_evaluated_revision` (−1) is 0, as revisions start at 1. A chat whose lane is off
  takes no steps.
- `ParticipationLedger`: the rows a reservation has in several categories change
  together and are one. The effect is abstract (`EffectOutbox` is its model):
  `Outcome` is what its executing ends in, `Probe` the reconciler's verdict on an
  unknown one, sent with a receipt and escalated without. A receipt comes late only
  before that verdict, since transport calls time out well before the reconciliation
  deadline, and a recipient's signal only matters while the reconciler still reads its
  row. Reserving the same proposal again writes nothing (`log.py:922`) and is left
  out: the scheduler hands out a set of sources once. The commit lock lets one
  approved submission through at a time. The time of a delivery signal is that of the
  pass that reads it. The JSON store of proposals from before the ledger takes no
  part.
- `RawArchive`: an append under the disposition lock is one step, and so is the
  recovery it does first; the disk fails per call. The files are not owned by root
  (Dockerfile:32), so mode 0444 refuses a write. Spool names are in order of time. A
  derived file is never sealed. A torn line in a month file is a line without an
  identity; a fragment of AUDIT or of the journal refuses every later append, one of
  the journal every later purge. An outgoing command, or its result, that the full
  memory queue refuses stops the channel. Left out: the quarantine of corrupt spool
  files, errors in acquiring the guard or writing the status file, the status that
  `_capacity_blocked` shows, and a fragment of MANIFEST.

## 7. Not modelled

Shared state that is not modelled: quotas and quiet capabilities (one transaction
each), retention (an hourly purge by age, days against leases of minutes), the
history and knowledge projections (rebuilt from the archive), the message bus, cron,
heartbeat and a2a relay (one task each, no state in common with the parts above), the
bridge's own outbox and the overseer (other programs, met here as a provider and as
restarts), dormancy of threads (verdicts that change nothing), ambient threads and
generation slots.

Not meant to be: prompt assembly, provider adapters, skills and media handling
(external calls and text), policy rules (pure evaluation, their answers are free
choices here), people, trends and group state (derived text), IPC, API, CLI,
configuration and telemetry (parsing and presentation).
