------------------------------ MODULE SendBudget -------------------------------
(***************************************************************************)
(* The limits an effect passes between its submission and its execution    *)
(* (IntentEffectRouter._run, processing/dispatch.py): the soft limit per   *)
(* thread (ThreadBudget), the cap on waiting effects of a chat and the     *)
(* hard budget of a chat, a sliding window over durable reservations       *)
(* (ChatBudget, processing/budget.py, and reserve_send_budget,             *)
(* processing/store.py).  Several submissions run at once, an effect may be*)
(* submitted again, and the process may crash: reservations and effect     *)
(* rows survive, the soft limit and the runs do not.                       *)
(***************************************************************************)
EXTENDS Integers, FiniteSetsExt

CONSTANTS
    Effects,
    Runs,          \* bound: submissions in a behaviour
    Chats,
    Chat,          \* chat of an effect; a chat has one thread here
    Units,         \* payload_units of an effect
    Limit,         \* chat_hard_units
    Window,        \* chat_hard_window_seconds
    SoftLimit,     \* thread_soft_units
    SoftWindow,    \* thread_soft_window_seconds
    SoftEnforce,   \* thread_soft_enforce
    WaitingCap,    \* outbox_waiting_per_chat
    MaxTime,       \* bound: clock
    MaxCrashes     \* bound: crashes

ASSUME SendBudgetAssumption ==
    /\ Chat \in [Effects -> Chats]
    /\ Units \in [Effects -> Nat \ {0}]
    /\ Limit \in Nat \ {0} /\ Window \in Nat \ {0}
    /\ SoftLimit \in Nat \ {0} /\ SoftWindow \in Nat \ {0}
    /\ SoftEnforce \in BOOLEAN
    /\ WaitingCap \in Nat /\ MaxTime \in Nat /\ MaxCrashes \in Nat

VARIABLES
    now,
    row,        \* state and updated_ms of an effect
    reserved,   \* send_budget_reservations: attempt id = effect and stamp
    recent,     \* ThreadBudget._recent: when which run noted a send
    pc, op,     \* the runs
    crashes

vars == <<now, row, reserved, recent, pc, op, crashes>>

TypeOK ==
    /\ now \in 0..MaxTime
    /\ row \in [Effects -> [state : {"absent", "queued", "blocked", "executing",
                                     "sent", "failed", "unknown"},
                            updated : 0..MaxTime]]
    /\ reserved \subseteq [effect : Effects, stamp : 0..MaxTime, at : 0..MaxTime]
    /\ recent \in [Chats -> SUBSET [run : Runs, at : 0..MaxTime]]
    /\ pc \in [Runs -> {"new", "submitted", "admitted", "executing", "done"}]
    /\ op \in [Runs -> Effects \cup {"none"}]
    /\ crashes \in 0..MaxCrashes

Init ==
    /\ now = 0
    /\ row = [e \in Effects |-> [state |-> "absent", updated |-> 0]]
    /\ reserved = {}
    /\ recent = [c \in Chats |-> {}]
    /\ pc = [r \in Runs |-> "new"]
    /\ op = [r \in Runs |-> "none"]
    /\ crashes = 0

-----------------------------------------------------------------------------
\* Pure functions of budget.py

\* The reservations of chat c in (t - Window, t].
InWindow(c, t) ==
    {x \in reserved : Chat[x.effect] = c /\ t - Window < x.at /\ x.at <= t}

\* The units of a set of reservations, one by one, and how many they are.
UnitsOf(S) == UNION {{x} \X (1..Units[x.effect]) : x \in S}
Spent(S) == Cardinality(UnitsOf(S))

SpentAt(c, t) == Spent(InWindow(c, t))

\* available_units
AvailableAt(c, t) == IF SpentAt(c, t) < Limit THEN Limit - SpentAt(c, t) ELSE 0

\* In order of time, the reservations with which the sum has reached the limit.
Full(c) ==
    {x.at : x \in {y \in InWindow(c, now) :
                     Spent({z \in InWindow(c, now) : z.at <= y.at}) >= Limit}}

\* A mutated next_ready_ms, one instant early.
NextReadyOffByOne(c) ==
    IF AvailableAt(c, now) > 0 THEN now
    ELSE IF Full(c) = {} THEN now + Window
    ELSE Min(Full(c)) + Window - 1

\* next_ready_ms
NextReady(c) ==
    IF AvailableAt(c, now) > 0 THEN now
    ELSE IF Full(c) = {} THEN now + Window
    ELSE Min(Full(c)) + Window

\* The sends of chat c in (now - SoftWindow, now].
RecentSends(c) == {x \in recent[c] : now - SoftWindow < x.at /\ x.at <= now}

\* The stamps with SoftLimit sends at or after them.
Crowded(c) ==
    {x.at : x \in {y \in RecentSends(c) :
                     Cardinality({z \in RecentSends(c) : z.at >= y.at}) >= SoftLimit}}

\* A mutated defer_until that waits for the oldest send to leave.
DeferUntilOldest(c) ==
    IF Cardinality(RecentSends(c)) < SoftLimit THEN now
    ELSE Min(Crowded(c)) + SoftWindow

\* ThreadBudget.defer_until: the SoftLimit-th newest stamp has to leave.
DeferUntil(c) ==
    IF Cardinality(RecentSends(c)) < SoftLimit THEN now
    ELSE Max(Crowded(c)) + SoftWindow

\* ThreadBudget.note_send; the sends of one instant differ by their run.
NoteSend(r, c) ==
    recent' = [recent EXCEPT ![c] =
                 {x \in @ : now - x.at < SoftWindow} \cup {[run |-> r, at |-> now]}]

-----------------------------------------------------------------------------
\* _run up to the enqueue: the soft limit, then the effect is recorded, unless
\* it already is.
Submit(r, e) ==
    /\ pc[r] = "new"
    /\ op' = [op EXCEPT ![r] = e]
    /\ IF DeferUntil(Chat[e]) > now /\ SoftEnforce
       THEN /\ pc' = [pc EXCEPT ![r] = "done"]
            /\ UNCHANGED <<row, recent>>
       ELSE /\ pc' = [pc EXCEPT ![r] = "submitted"]
            /\ NoteSend(r, Chat[e])
            /\ row' = IF row[e].state # "absent" THEN row
                      ELSE [row EXCEPT ![e] = [state |-> "queued", updated |-> now]]
    /\ UNCHANGED <<now, reserved, crashes>>

\* count_waiting_effects
WaitingEffects(c) ==
    {e \in Effects : Chat[e] = c /\ row[e].state \in {"queued", "executing"}}

\* The row a reservation inserts; its attempt_id is the effect and its stamp.
Attempt(e) == [effect |-> e, stamp |-> row[e].updated, at |-> now]

\* The attempt_id is known.
AlreadyReserved(e) ==
    \E x \in reserved : x.effect = e /\ x.stamp = row[e].updated

\* A mutated check that leaves out what the effect itself costs.
AffordableBefore(e) == SpentAt(Chat[e], now) < Limit

\* The window that ends now has room.
Affordable(e) == SpentAt(Chat[e], now) + Units[e] <= Limit

\* The CAS queued -> blocked; a row that is past queued stays as it is.
Blocked(e) ==
    row' = IF row[e].state # "queued" THEN row
           ELSE [row EXCEPT ![e] = [state |-> "blocked", updated |-> now]]

\* A mutated check whose refusal is ignored.
CapacityAdvisory(r) ==
    LET e == op[r] IN
    /\ pc[r] = "submitted"
    /\ reserved' = IF Affordable(e) THEN reserved \cup {Attempt(e)} ELSE reserved
    /\ pc' = [pc EXCEPT ![r] = "admitted"]
    /\ UNCHANGED <<now, row, recent, op, crashes>>

\* _capacity_block and reserve_send_budget.
Capacity(r) ==
    LET e == op[r] IN
    /\ pc[r] = "submitted"
    /\ IF \/ Cardinality(WaitingEffects(Chat[e])) > WaitingCap
          \/ ~(AlreadyReserved(e) \/ Affordable(e))
       THEN /\ Blocked(e)
            /\ pc' = [pc EXCEPT ![r] = "done"]
            /\ UNCHANGED reserved
       ELSE /\ reserved' = IF AlreadyReserved(e) THEN reserved
                           ELSE reserved \cup {Attempt(e)}
            /\ pc' = [pc EXCEPT ![r] = "admitted"]
            /\ UNCHANGED row
    /\ UNCHANGED <<now, recent, op, crashes>>

\* execute_ready: the claim, if the effect is still queued, unless it has
\* expired or the policy refuses it ("failed": expired or cancelled).
Execute(r) ==
    LET e == op[r] IN
    /\ pc[r] = "admitted"
    /\ \/ /\ row[e].state = "queued"
          /\ row' = [row EXCEPT ![e] = [state |-> "executing", updated |-> now]]
          /\ pc' = [pc EXCEPT ![r] = "executing"]
       \/ /\ row[e].state = "queued"
          /\ \E s \in {"blocked", "failed"} :
               row' = [row EXCEPT ![e] = [state |-> s, updated |-> now]]
          /\ pc' = [pc EXCEPT ![r] = "done"]
       \/ /\ row[e].state # "queued"
          /\ pc' = [pc EXCEPT ![r] = "done"]
          /\ UNCHANGED row
    /\ UNCHANGED <<now, reserved, recent, op, crashes>>

\* execute_ready: the transport's answer.
Finish(r) ==
    /\ pc[r] = "executing"
    /\ \E s \in {"sent", "failed", "unknown"} :
         row' = [row EXCEPT ![op[r]] = [state |-> s, updated |-> now]]
    /\ pc' = [pc EXCEPT ![r] = "done"]
    /\ UNCHANGED <<now, reserved, recent, op, crashes>>

Tick ==
    /\ now < MaxTime
    /\ now' = now + 1
    /\ UNCHANGED <<row, reserved, recent, pc, op, crashes>>

\* The process dies and starts again; its claims are recovered as unknown.
Crash ==
    /\ crashes < MaxCrashes
    /\ crashes' = crashes + 1
    /\ row' = [e \in Effects |->
                 IF row[e].state = "executing"
                 THEN [state |-> "unknown", updated |-> now] ELSE row[e]]
    /\ recent' = [c \in Chats |-> {}]
    /\ pc' = [r \in Runs |-> IF pc[r] = "new" THEN "new" ELSE "done"]
    /\ UNCHANGED <<now, reserved, op>>

Next ==
    \/ \E r \in Runs : \/ \E e \in Effects : Submit(r, e)
                       \/ Capacity(r)
                       \/ Execute(r)
                       \/ Finish(r)
    \/ Tick
    \/ Crash

Spec == Init /\ [][Next]_vars

-----------------------------------------------------------------------------
\* reserve_send_budget only looks at the window that ends now; nevertheless no
\* window of that length, wherever it lies, ever holds more than the limit,
\* and a crash gives nothing back.
NoWindowOverspent ==
    \A c \in Chats : \A t \in 0..now : SpentAt(c, t) <= Limit

\* "The same attempt_id never spends twice": two runs of one submission that
\* find the same row pay once.
AttemptPaidOnce ==
    \A x, y \in reserved : x.effect = y.effect /\ x.stamp = y.stamp => x = y

\* Every claim of an effect was paid for: a reservation exists for the very row
\* version that is claimed, although the claim follows the reservation across
\* awaits and other runs.
ClaimIsPaid ==
    [][\A e \in Effects :
         row[e].state = "queued" /\ row'[e].state = "executing"
            => \E x \in reserved : x.effect = e /\ x.stamp = row[e].updated]_vars

\* At the time next_ready_ms names, units are free if nobody reserves before.
NextReadyHasRoom == \A c \in Chats : AvailableAt(c, NextReady(c)) > 0

\* ThreadBudget.defer_until is the earliest time from now on at which fewer
\* than SoftLimit sends lie in the window.
DeferUntilIsEarliest ==
    \A c \in Chats :
        DeferUntil(c) = Min({t \in now..(now + SoftWindow) :
            Cardinality({x \in recent[c] : t - SoftWindow < x.at}) < SoftLimit})

-----------------------------------------------------------------------------
\* "When the next unit becomes available" (next_ready_ms): no earlier time has
\* a free unit.
NextReadyIsNext ==
    \A c \in Chats : \A t \in now..(NextReady(c) - 1) : AvailableAt(c, t) = 0

=============================================================================
