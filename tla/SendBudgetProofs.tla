--------------------------- MODULE SendBudgetProofs ---------------------------
(***************************************************************************)
(* The send budget for any number of effects, chats and runs and any       *)
(* limits, windows and unit costs: no window is overspent, a claim is paid *)
(* for, and what next_ready_ms and defer_until promise.                    *)
(***************************************************************************)
EXTENDS SendBudget, FiniteSetTheorems, TLAPS

-----------------------------------------------------------------------------
\* Minimum and maximum of a set of integers (sorted(), in the code).

\* A set of integers that is finite and not empty has a greatest element: the
\* one with the fewest elements above it.
LEMMA GreatestElement ==
    ASSUME NEW S \in SUBSET Int, IsFiniteSet(S), S # {}
    PROVE  \E m \in S : \A k \in S : k <= m
<1> DEFINE Above(m) == {k \in S : k > m}
           T == {Above(m) : m \in S}
<1>1. T # {} /\ T \subseteq SUBSET S
  BY Zenon
<1>2. FiniteSubsetsOf(S) = SUBSET S
  BY FS_FiniteSubsetsOfFinite
<1>3. IsWellFoundedOn(StrictSubsetOrdering(S), SUBSET S)
  BY <1>2, FS_StrictSubsetOrderingWellFounded, Zenon
<1>4. PICK A \in T : \A B \in T : ~(<<B, A>> \in StrictSubsetOrdering(S))
  <2> HIDE DEF T
  <2> QED BY <1>1, <1>3, WFMin, Zenon
<1>5. PICK m \in S : A = Above(m)
  BY <1>4
<1>6. ASSUME NEW k \in S, k > m PROVE FALSE
  <2>1. Above(k) \in T
    OBVIOUS
  <2>2. Above(k) \subseteq Above(m)
    <3> SUFFICES ASSUME NEW x \in S, x > k PROVE x > m
      BY Zenon
    <3>1. x \in Int /\ k \in Int /\ m \in Int
      OBVIOUS
    <3> HIDE DEF T
    <3> QED BY <1>6, <3>1
  <2>3. k \in Above(m) /\ k \notin Above(k)
    BY <1>6
  <2>4. <<Above(k), Above(m)>> \in StrictSubsetOrdering(S)
    BY <2>2, <2>3 DEF StrictSubsetOrdering
  <2> QED BY <1>4, <1>5, <2>1, <2>4, Zenon
<1> QED BY <1>6

\* Max finds it in a nonempty set of numbers up to n, ...
LEMMA MaxOfBounded ==
    ASSUME NEW n \in Nat, NEW S \in SUBSET (0..n), S # {}
    PROVE  Max(S) \in S /\ \A y \in S : y <= Max(S)
<1>1. IsFiniteSet(S) /\ S \in SUBSET Int
  <2>1. IsFiniteSet(0..n)
    BY FS_Interval
  <2>2. IsFiniteSet(S)
    BY <2>1, FS_Subset, Zenon
  <2> QED BY <2>2
<1>2. \E m \in S : \A y \in S : y <= m
  BY <1>1, GreatestElement
<1>3. \E m \in S : \A y \in S : m >= y
  BY <1>1, <1>2
<1>4. Max(S) \in S /\ \A y \in S : Max(S) >= y
  BY <1>3, Zenon DEF Max
<1> QED BY <1>1, <1>4

\* ... and Min the least.
LEMMA MinOfBounded ==
    ASSUME NEW n \in Nat, NEW S \in SUBSET (0..n), S # {}
    PROVE  Min(S) \in S /\ \A y \in S : Min(S) <= y
<1> DEFINE D == {0 - x : x \in S}
<1>1. \A x \in S : x \in Int /\ 0 - x \in (0 - n)..0
  OBVIOUS
<1>2. IsFiniteSet(D) /\ D \in SUBSET Int /\ D # {}
  <2>1. D \in SUBSET ((0 - n)..0)
    BY <1>1, Zenon
  <2>2. D # {}
    BY Zenon
  <2>3. 0 - n \in Int /\ 0 \in Int
    OBVIOUS
  <2> HIDE DEF D
  <2>4. IsFiniteSet((0 - n)..0)
    BY <2>3, FS_Interval
  <2>5. IsFiniteSet(D)
    BY <2>1, <2>4, FS_Subset, Zenon
  <2>6. D \in SUBSET Int
    BY <2>1, <2>3
  <2> QED BY <2>2, <2>5, <2>6
<1>3. \E m \in D : \A y \in D : y <= m
  <2> HIDE DEF D
  <2> QED BY <1>2, GreatestElement
<1>4. \E m \in S : \A y \in S : m <= y
  <2>1. PICK d \in D : \A y \in D : y <= d
    BY <1>3
  <2>2. PICK m \in S : d = 0 - m
    BY <2>1
  <2>3. ASSUME NEW y \in S PROVE m <= y
    <3>1. 0 - y <= 0 - m
      BY <2>1, <2>2
    <3>2. y \in Int /\ m \in Int
      BY <1>1
    <3> HIDE DEF D
    <3> QED BY <3>1, <3>2
  <2> QED BY <2>3, Zenon
<1> QED BY <1>4, Zenon DEF Min

-----------------------------------------------------------------------------
\* Units of sets of reservations (the sum of available_units).

\* A unit is a reservation of the set and a number up to its cost.
LEMMA UnitsOfMember ==
    ASSUME NEW S, NEW u
    PROVE  u \in UnitsOf(S)
             <=> \E x \in S : \E i \in 1..Units[x.effect] : u = <<x, i>>
BY DEF UnitsOf

\* Fewer reservations cost no more.
LEMMA SpentOfSubset ==
    ASSUME NEW S, IsFiniteSet(UnitsOf(S)), NEW T \in SUBSET S
    PROVE  /\ IsFiniteSet(UnitsOf(T))
           /\ Spent(T) \in Nat /\ Spent(S) \in Nat
           /\ Spent(T) <= Spent(S)
<1>1. UnitsOf(T) \in SUBSET UnitsOf(S)
  BY UnitsOfMember
<1> QED BY <1>1, FS_Subset, FS_CardinalityType, Zenon DEF Spent

\* The reservations of a set cost what those of its two parts cost.
LEMMA SpentOfSplit ==
    ASSUME NEW S, IsFiniteSet(UnitsOf(S)), NEW T \in SUBSET S, NEW R \in SUBSET S,
           T \cap R = {}
    PROVE  Spent(T) + Spent(R) <= Spent(S)
<1>1. T \cup R \in SUBSET S
  OBVIOUS
<1>2. /\ IsFiniteSet(UnitsOf(T)) /\ IsFiniteSet(UnitsOf(R))
      /\ IsFiniteSet(UnitsOf(T \cup R))
      /\ Spent(T) \in Nat /\ Spent(R) \in Nat /\ Spent(T \cup R) \in Nat
      /\ Spent(S) \in Nat /\ Spent(T \cup R) <= Spent(S)
  BY <1>1, SpentOfSubset
<1>3. UnitsOf(T \cup R) = UnitsOf(T) \cup UnitsOf(R)
  BY UnitsOfMember
<1>4. UnitsOf(T) \cap UnitsOf(R) = {}
  BY UnitsOfMember
<1>5. Cardinality(UnitsOf(T) \cup UnitsOf(R)) = Spent(T) + Spent(R)
  <2> DEFINE A == UnitsOf(T)  B == UnitsOf(R)
  <2>1. IsFiniteSet(A) /\ IsFiniteSet(B) /\ A \cap B = {}
    BY <1>2, <1>4
  <2> HIDE DEF A, B
  <2>2. Cardinality(A \cup B) = Cardinality(A) + Cardinality(B) - Cardinality(A \cap B)
    BY <2>1, FS_Union
  <2>3. Cardinality(A) \in Nat /\ Cardinality(B) \in Nat
    BY <2>1, FS_CardinalityType
  <2>4. Cardinality(A \cap B) = 0
    BY <2>1, FS_EmptySet, Zenon
  <2>5. Cardinality(A \cup B) = Cardinality(A) + Cardinality(B)
    BY <2>2, <2>3, <2>4
  <2> QED BY <2>5 DEF Spent, A, B
<1> QED BY <1>2, <1>3, <1>5, Zenon DEF Spent

\* The numbers from 1 to n.
LEMMA FirstNumbers ==
    ASSUME NEW n \in Nat
    PROVE  IsFiniteSet(1..n) /\ Cardinality(1..n) = n
BY FS_Interval

\* One more reservation costs at most its units more.
LEMMA SpentOfAdded ==
    ASSUME NEW S, IsFiniteSet(UnitsOf(S)), NEW x, x.effect \in Effects
    PROVE  /\ IsFiniteSet(UnitsOf(S \cup {x}))
           /\ Spent(S \cup {x}) <= Spent(S) + Units[x.effect]
<1> DEFINE n == Units[x.effect]
<1>1. n \in Nat
  BY SendBudgetAssumption
<1>2. UnitsOf(S \cup {x}) = UnitsOf(S) \cup ({x} \X (1..n))
  BY UnitsOfMember
<1>3. IsFiniteSet({x}) /\ Cardinality({x}) = 1
  BY FS_Singleton, Zenon
<1>4. IsFiniteSet(1..n) /\ Cardinality(1..n) = n
  BY <1>1, FirstNumbers, Zenon
<1>5. IsFiniteSet({x} \X (1..n)) /\ Cardinality({x} \X (1..n)) = n
  <2>1. /\ IsFiniteSet({x} \X (1..n))
        /\ Cardinality({x} \X (1..n)) = Cardinality({x}) * Cardinality(1..n)
    BY <1>3, <1>4, FS_Product, Zenon
  <2> QED BY <1>1, <1>3, <1>4, <2>1
<1> HIDE DEF n
<1>6. /\ IsFiniteSet(UnitsOf(S) \cup ({x} \X (1..n)))
      /\ Cardinality(UnitsOf(S) \cup ({x} \X (1..n))) =
            Cardinality(UnitsOf(S)) + n - Cardinality(UnitsOf(S) \cap ({x} \X (1..n)))
  BY <1>5, FS_Union, Zenon
<1>7. /\ Cardinality(UnitsOf(S)) \in Nat
      /\ Cardinality(UnitsOf(S) \cap ({x} \X (1..n))) \in Nat
  BY FS_CardinalityType, FS_Intersection, Zenon
<1>8. /\ IsFiniteSet(UnitsOf(S \cup {x}))
      /\ Cardinality(UnitsOf(S \cup {x})) <= Cardinality(UnitsOf(S)) + n
  <2>1. /\ IsFiniteSet(UnitsOf(S \cup {x}))
        /\ Cardinality(UnitsOf(S \cup {x})) = Cardinality(UnitsOf(S)) + n
                - Cardinality(UnitsOf(S) \cap ({x} \X (1..n)))
    BY <1>2, <1>6, Zenon
  <2> QED BY <1>1, <1>7, <2>1
<1> QED BY <1>8 DEF Spent, n

\* Nothing costs nothing.
LEMMA SpentOfNone == Spent({}) = 0 /\ IsFiniteSet(UnitsOf({}))
<1>1. UnitsOf({}) = {}
  BY UnitsOfMember
<1> QED BY <1>1, FS_EmptySet DEF Spent

-----------------------------------------------------------------------------
\* The inductive invariant.  Reservations and sends lie in the past, so a new
\* window's content was in an older window already.  A run that passed the
\* submission has a row; one that was admitted has paid for the row it will
\* claim, as long as the row is queued: only an absent row becomes queued.

PastInv ==
    /\ \A x \in reserved : x.at <= now
    /\ IsFiniteSet(UnitsOf(reserved))
    /\ \A c \in Chats : IsFiniteSet(recent[c]) /\ \A x \in recent[c] : x.at <= now

RunInv ==
    \A r \in Runs :
        /\ pc[r] \in {"submitted", "admitted", "executing"}
              => op[r] \in Effects /\ row[op[r]].state # "absent"
        /\ pc[r] = "admitted" /\ row[op[r]].state = "queued" => AlreadyReserved(op[r])

BudgetInv ==
    /\ TypeOK
    /\ PastInv
    /\ RunInv
    /\ AttemptPaidOnce
    /\ NoWindowOverspent

LEMMA InitHolds == Init => BudgetInv
<1> SUFFICES ASSUME Init PROVE BudgetInv
  OBVIOUS
<1>1. TypeOK
  BY SendBudgetAssumption DEF Init, TypeOK
<1>2. PastInv
  BY SpentOfNone, FS_EmptySet, Zenon DEF Init, PastInv
<1>3. RunInv /\ AttemptPaidOnce
  BY DEF Init, RunInv, AttemptPaidOnce
<1>4. NoWindowOverspent
  <2> SUFFICES ASSUME NEW c \in Chats, NEW t \in 0..now PROVE SpentAt(c, t) <= Limit
    BY DEF NoWindowOverspent
  <2>1. InWindow(c, t) = {}
    BY DEF Init, InWindow
  <2> QED BY <2>1, SpentOfNone, SendBudgetAssumption DEF SpentAt
<1> QED BY <1>1, <1>2, <1>3, <1>4, Zenon DEF BudgetInv

-----------------------------------------------------------------------------
\* Types

\* Every step keeps the variables in their types.
LEMMA TypesKept ==
    ASSUME BudgetInv, [Next]_vars
    PROVE  TypeOK'
<1> USE SendBudgetAssumption DEF BudgetInv, TypeOK
<1>1. ASSUME NEW r \in Runs, NEW e \in Effects, Submit(r, e) PROVE TypeOK'
  <2>1. Chat[e] \in Chats
    BY Zenon
  <2>2. now' \in 0..MaxTime /\ op' \in [Runs -> Effects \cup {"none"}]
    BY <1>1, Zenon DEF Submit
  <2>3. row' \in [Effects -> [state : {"absent", "queued", "blocked", "executing",
                                       "sent", "failed", "unknown"},
                              updated : 0..MaxTime]]
    <3>1. \/ row' = row
          \/ row' = [row EXCEPT ![e] = [state |-> "queued", updated |-> now]]
      BY <1>1, Zenon DEF Submit
    <3>2. [state |-> "queued", updated |-> now] \in
              [state : {"absent", "queued", "blocked", "executing",
                        "sent", "failed", "unknown"},
               updated : 0..MaxTime]
      BY Zenon
    <3> QED BY <3>1, <3>2, Zenon
  <2>4. recent' \in [Chats -> SUBSET [run : Runs, at : 0..MaxTime]]
    BY <1>1, <2>1 DEF Submit, NoteSend
  <2> QED BY <1>1, <2>2, <2>3, <2>4 DEF Submit
<1>2. ASSUME NEW r \in Runs, Capacity(r) PROVE TypeOK'
  <2>1. op[r] \in Effects
    BY <1>2 DEF Capacity, RunInv
  <2>2. Attempt(op[r]) \in [effect : Effects, stamp : 0..MaxTime, at : 0..MaxTime]
    BY <2>1 DEF Attempt
  <2>3. row' \in [Effects -> [state : {"absent", "queued", "blocked", "executing",
                                       "sent", "failed", "unknown"},
                              updated : 0..MaxTime]]
    BY <1>2, <2>1 DEF Capacity, Blocked
  <2>4. reserved' \subseteq [effect : Effects, stamp : 0..MaxTime, at : 0..MaxTime]
    <3> HIDE DEF TypeOK
    <3>1. reserved' \subseteq reserved \cup {Attempt(op[r])}
      BY <1>2 DEF Capacity
    <3> QED BY <2>2, <3>1 DEF TypeOK
  <2>5. pc' \in [Runs -> {"new", "submitted", "admitted", "executing", "done"}]
    BY <1>2, Zenon DEF Capacity
  <2>6. UNCHANGED <<now, recent, op, crashes>>
    BY <1>2, Zenon DEF Capacity
  <2> QED BY <2>3, <2>4, <2>5, <2>6
<1>3. ASSUME NEW r \in Runs, Execute(r) PROVE TypeOK'
  <2>1. row' \in [Effects -> [state : {"absent", "queued", "blocked", "executing",
                                       "sent", "failed", "unknown"},
                              updated : 0..MaxTime]]
    BY <1>3 DEF Execute
  <2>2. pc' \in [Runs -> {"new", "submitted", "admitted", "executing", "done"}]
    BY <1>3, Zenon DEF Execute
  <2>3. UNCHANGED <<now, reserved, recent, op, crashes>>
    BY <1>3 DEF Execute
  <2> QED BY <2>1, <2>2, <2>3, Zenon
<1>4. ASSUME NEW r \in Runs, Finish(r) PROVE TypeOK'
  <2>1. PICK s \in {"sent", "failed", "unknown"} :
           row' = [row EXCEPT ![op[r]] = [state |-> s, updated |-> now]]
    BY <1>4, Zenon DEF Finish
  <2>2. row' \in [Effects -> [state : {"absent", "queued", "blocked", "executing",
                                       "sent", "failed", "unknown"},
                              updated : 0..MaxTime]]
    BY <2>1, Zenon
  <2> QED BY <1>4, <2>2 DEF Finish
<1>5. CASE Tick
  BY <1>5 DEF Tick
<1>6. CASE Crash
  <2>1. row' \in [Effects -> [state : {"absent", "queued", "blocked", "executing",
                                       "sent", "failed", "unknown"},
                              updated : 0..MaxTime]]
    BY <1>6, Zenon DEF Crash
  <2> QED BY <1>6, <2>1 DEF Crash
<1>7. CASE UNCHANGED vars
  BY <1>7 DEF vars
<1> QED BY <1>1, <1>2, <1>3, <1>4, <1>5, <1>6, <1>7, Zenon DEF Next

-----------------------------------------------------------------------------
\* The past

\* What a step adds carries the time of the step, and there is one addition.
LEMMA PastKept ==
    ASSUME BudgetInv, [Next]_vars
    PROVE  PastInv'
<1>0. now \in 0..MaxTime /\ PastInv /\ MaxTime \in Nat
  BY SendBudgetAssumption, Zenon DEF BudgetInv, TypeOK
<1>1. ASSUME NEW r \in Runs, NEW e \in Effects, Submit(r, e) PROVE PastInv'
  <2>1. recent \in [Chats -> SUBSET [run : Runs, at : 0..MaxTime]]
    BY Zenon DEF BudgetInv, TypeOK
  <2>2. ASSUME NEW c \in Chats
        PROVE  IsFiniteSet(recent'[c]) /\ \A x \in recent'[c] : x.at <= now
    <3> DEFINE kept == {x \in recent[c] : now - x.at < SoftWindow}
               new == [run |-> r, at |-> now]
    <3>1. IsFiniteSet(kept) /\ IsFiniteSet(recent[c]) /\ new.at <= now
      BY <1>0, FS_Subset DEF PastInv
    <3>2. recent'[c] = recent[c] \/ recent'[c] = kept \cup {new}
      BY <1>1, <2>1, Zenon DEF Submit, NoteSend
    <3>3. \A x \in kept \cup {new} : x.at <= now
      BY <1>0, <3>1, Zenon DEF PastInv
    <3> HIDE DEF kept, new
    <3>4. IsFiniteSet(kept \cup {new})
      BY <3>1, FS_AddElement, Zenon
    <3>5. \A x \in recent[c] : x.at <= now
      BY <1>0, Zenon DEF PastInv
    <3> QED BY <3>1, <3>2, <3>3, <3>4, <3>5, Zenon
  <2>3. now' = now /\ reserved' = reserved
    BY <1>1, Zenon DEF Submit
  <2> QED BY <1>0, <2>2, <2>3, Zenon DEF PastInv, UnitsOf
<1>2. ASSUME NEW r \in Runs, Capacity(r) PROVE PastInv'
  <2>1. op[r] \in Effects
    BY <1>2, Zenon DEF BudgetInv, RunInv, Capacity
  <2> DEFINE a == Attempt(op[r])
  <2>2. a.effect \in Effects /\ a.at = now
    BY <2>1, Zenon DEF Attempt
  <2>3. reserved' = reserved \/ reserved' = reserved \cup {a}
    BY <1>2 DEF Capacity
  <2> HIDE DEF a
  <2>4. IsFiniteSet(UnitsOf(reserved)) /\ IsFiniteSet(UnitsOf(reserved \cup {a}))
    BY <1>0, <2>2, SpentOfAdded, Zenon DEF PastInv
  <2>5. UnitsOf(reserved)' = UnitsOf(reserved')
    BY DEF UnitsOf
  <2>6. IsFiniteSet(UnitsOf(reserved)')
    BY <2>3, <2>4, <2>5, Zenon
  <2>7. now' = now /\ recent' = recent
    BY <1>2 DEF Capacity
  <2>8. \A x \in reserved' : x.at <= now
    BY <1>0, <2>2, <2>3 DEF PastInv
  <2> QED BY <1>0, <2>6, <2>7, <2>8, Zenon DEF PastInv
<1>3. ASSUME NEW r \in Runs, Execute(r) \/ Finish(r) PROVE PastInv'
  BY <1>0, <1>3, Zenon DEF Execute, Finish, PastInv, UnitsOf
<1>4. CASE Tick
  <2>1. now' = now + 1 /\ reserved' = reserved /\ recent' = recent
    BY <1>4, Zenon DEF Tick
  <2>2. \A x \in reserved : x.at \in Int /\ x.at <= now
    BY <1>0 DEF BudgetInv, TypeOK, PastInv
  <2>3. \A c \in Chats : \A x \in recent[c] : x.at \in Int /\ x.at <= now
    BY <1>0 DEF BudgetInv, TypeOK, PastInv
  <2>4. \A x \in reserved' : x.at <= now'
    BY <1>0, <2>1, <2>2
  <2>5. \A c \in Chats : \A x \in recent'[c] : x.at <= now'
    BY <1>0, <2>1, <2>3
  <2> QED BY <1>0, <2>1, <2>4, <2>5 DEF PastInv, UnitsOf
<1>5. CASE Crash
  BY <1>0, <1>5, FS_EmptySet DEF Crash, PastInv, UnitsOf
<1>6. CASE UNCHANGED vars
  BY <1>0, <1>6, Zenon DEF vars, PastInv, UnitsOf
<1> QED BY <1>1, <1>2, <1>3, <1>4, <1>5, <1>6, Zenon DEF Next

-----------------------------------------------------------------------------
\* The runs

\* A reservation stays, and is for the row as it stands until the row moves on.
LEMMA RunsKept ==
    ASSUME BudgetInv, [Next]_vars
    PROVE  RunInv'
<1> DEFINE RowType == [state : {"absent", "queued", "blocked", "executing",
                                "sent", "failed", "unknown"},
                       updated : 0..MaxTime]
           Good(r) == /\ pc[r] \in {"submitted", "admitted", "executing"}
                            => op[r] \in Effects /\ row[op[r]].state # "absent"
                      /\ pc[r] = "admitted" /\ row[op[r]].state = "queued"
                            => AlreadyReserved(op[r])
<1>0. /\ row \in [Effects -> RowType]
      /\ pc \in [Runs -> {"new", "submitted", "admitted", "executing", "done"}]
      /\ op \in [Runs -> Effects \cup {"none"}]
      /\ \A r \in Runs : Good(r)
  BY Zenon DEF BudgetInv, TypeOK, RunInv
<1> SUFFICES ASSUME NEW q \in Runs PROVE Good(q)'
  BY Zenon DEF RunInv
<1>1. ASSUME NEW r \in Runs, NEW e \in Effects, Submit(r, e) PROVE Good(q)'
  <2>1. reserved' = reserved
    BY <1>1, Zenon DEF Submit
  <2>2. \A d \in Effects : \/ row'[d] = row[d]
                           \/ d = e /\ row[d].state = "absent"
    BY <1>0, <1>1, Zenon DEF Submit
  <2>3. CASE q # r
    <3>1. pc'[q] = pc[q] /\ op'[q] = op[q]
      BY <1>0, <1>1, <2>3, Zenon DEF Submit
    <3>2. pc[q] \in {"submitted", "admitted", "executing"} => row'[op[q]] = row[op[q]]
      BY <1>0, <2>2, Zenon
    <3> QED BY <1>0, <2>1, <3>1, <3>2 DEF AlreadyReserved
  <2>4. CASE q = r
    <3>1. pc'[q] = "done" \/ (pc'[q] = "submitted" /\ op'[q] = e)
      BY <1>0, <1>1, <2>4, Zenon DEF Submit
    <3>2. pc'[q] = "submitted" => row'[e].state # "absent"
      BY <1>0, <1>1, <2>4 DEF Submit
    <3> QED BY <3>1, <3>2, Zenon
  <2> QED BY <2>3, <2>4, Zenon
<1>2. ASSUME NEW r \in Runs, Capacity(r) PROVE Good(q)'
  <2>1. op' = op /\ reserved \subseteq reserved'
    BY <1>2, Zenon DEF Capacity
  <2>2. op[r] \in Effects /\ row[op[r]].state # "absent"
    BY <1>0, <1>2, Zenon DEF Capacity
  <2>3. \A d \in Effects : row'[d] = row[d] \/ row'[d].state = "blocked"
    BY <1>0, <1>2, <2>2 DEF Capacity, Blocked
  <2>4. CASE q # r
    <3>1. pc'[q] = pc[q]
      BY <1>0, <1>2, <2>4, Zenon DEF Capacity
    <3> QED BY <1>0, <2>1, <2>3, <3>1 DEF AlreadyReserved
  <2>5. CASE q = r /\ pc'[q] = "admitted"
    <3>1. row' = row
      BY <1>0, <1>2, <2>5, Zenon DEF Capacity
    <3>2. \E x \in reserved' : x.effect = op[r] /\ x.stamp = row[op[r]].updated
      <4>1. reserved' = IF AlreadyReserved(op[r]) THEN reserved
                        ELSE reserved \cup {Attempt(op[r])}
        BY <1>0, <1>2, <2>5, Zenon DEF Capacity
      <4>2. CASE AlreadyReserved(op[r])
        BY <4>1, <4>2, Zenon DEF AlreadyReserved
      <4>3. CASE ~AlreadyReserved(op[r])
        <5>1. Attempt(op[r]) \in reserved'
          BY <4>1, <4>3, Zenon
        <5>2. /\ Attempt(op[r]).effect = op[r]
              /\ Attempt(op[r]).stamp = row[op[r]].updated
          BY DEF Attempt
        <5> QED BY <5>1, <5>2, Zenon
      <4> QED BY <4>2, <4>3, Zenon
    <3> QED BY <2>1, <2>2, <2>5, <3>1, <3>2, Zenon DEF AlreadyReserved
  <2>6. CASE q = r /\ pc'[q] # "admitted"
    BY <1>0, <1>2, <2>6, Zenon DEF Capacity
  <2> QED BY <2>4, <2>5, <2>6, Zenon
<1>3. ASSUME NEW r \in Runs, Execute(r) \/ Finish(r) PROVE Good(q)'
  <2>1. op' = op /\ reserved' = reserved
    BY <1>3, Zenon DEF Execute, Finish
  <2>2. op[r] \in Effects
    BY <1>0, <1>3, Zenon DEF Execute, Finish
  <2>3. \A d \in Effects : \/ row'[d] = row[d]
                           \/ row'[d].state \in {"executing", "blocked", "sent", "failed",
                                                 "unknown"}
    BY <1>0, <1>3, <2>2 DEF Execute, Finish
  <2>4. pc'[q] = pc[q] \/ (q = r /\ pc'[q] \in {"executing", "done"})
    BY <1>0, <1>3, Zenon DEF Execute, Finish
  <2>5. CASE pc'[q] = pc[q]
    BY <1>0, <2>1, <2>3, <2>5 DEF AlreadyReserved
  <2>6. CASE q = r /\ pc'[q] = "executing"
    BY <1>0, <1>3, <2>1, <2>2, <2>3, <2>6, Zenon DEF Execute, Finish
  <2> QED BY <2>4, <2>5, <2>6, Zenon
<1>4. CASE Tick \/ UNCHANGED vars
  BY <1>0, <1>4 DEF Tick, vars, AlreadyReserved
<1>5. CASE Crash
  BY <1>0, <1>5, Zenon DEF Crash
<1> QED BY <1>1, <1>2, <1>3, <1>4, <1>5, Zenon DEF Next

-----------------------------------------------------------------------------
\* The windows

\* An attempt is reserved only if it is not known.
LEMMA PaidOnceKept ==
    ASSUME BudgetInv, [Next]_vars
    PROVE  AttemptPaidOnce'
<1>0. AttemptPaidOnce
  BY DEF BudgetInv
<1>1. CASE reserved' = reserved
  BY <1>0, <1>1 DEF AttemptPaidOnce
<1>2. ASSUME NEW r \in Runs, Capacity(r), reserved' # reserved
      PROVE  AttemptPaidOnce'
  <2>1. reserved' = reserved \cup {Attempt(op[r])} /\ ~AlreadyReserved(op[r])
    BY <1>2, Zenon DEF Capacity
  <2>2. \A x \in reserved : ~(/\ x.effect = Attempt(op[r]).effect
                              /\ x.stamp = Attempt(op[r]).stamp)
    BY <2>1, Zenon DEF AlreadyReserved, Attempt
  <2> QED BY <1>0, <2>1, <2>2, Zenon DEF AttemptPaidOnce
<1> QED BY <1>1, <1>2, Zenon DEF Next, Submit, Execute, Finish, Tick, Crash, vars

\* Time alone overspends nothing: the next window holds no reservation that the
\* window that ends now does not hold.
LEMMA WindowMovesOn ==
    ASSUME BudgetInv, reserved' = reserved, now' \in {now, now + 1}
    PROVE  NoWindowOverspent'
<1> SUFFICES ASSUME NEW c \in Chats, NEW t \in 0..now'
             PROVE  Spent(InWindow(c, t)) <= Limit
  BY Zenon DEF NoWindowOverspent, SpentAt, InWindow, Spent, UnitsOf
<1>0. /\ now \in Nat /\ Window \in Nat \ {0} /\ Limit \in Nat
      /\ \A x \in reserved : x.at \in Int /\ x.at <= now
  BY SendBudgetAssumption DEF BudgetInv, TypeOK, PastInv
<1>1. PICK u \in 0..now : InWindow(c, t) \subseteq InWindow(c, u)
  <2>1. CASE t \in 0..now
    BY <2>1, Zenon
  <2>2. CASE t = now + 1
    <3>1. InWindow(c, t) \subseteq InWindow(c, now)
      BY <1>0, <2>2 DEF InWindow
    <3> QED BY <1>0, <3>1
  <2> QED BY <1>0, <2>1, <2>2
<1>2. Spent(InWindow(c, u)) <= Limit
  BY Zenon DEF BudgetInv, NoWindowOverspent, SpentAt
<1>3. IsFiniteSet(UnitsOf(InWindow(c, u)))
  <2>1. InWindow(c, u) \in SUBSET reserved
    BY Zenon DEF InWindow
  <2> QED BY <2>1, SpentOfSubset, Zenon DEF BudgetInv, PastInv
<1>4. /\ Spent(InWindow(c, t)) \in Nat /\ Spent(InWindow(c, u)) \in Nat
      /\ Spent(InWindow(c, t)) <= Spent(InWindow(c, u))
  BY <1>1, <1>3, SpentOfSubset, Zenon
<1> QED BY <1>0, <1>2, <1>4

\* A reservation lies in no window that ended before, and fits into the one that
\* ends now.
LEMMA WindowTakesAttempt ==
    ASSUME BudgetInv, NEW e \in Effects, Affordable(e),
           reserved' = reserved \cup {Attempt(e)}, now' = now
    PROVE  NoWindowOverspent'
<1> DEFINE a == Attempt(e)
           Later(c, t) == {x \in reserved' : /\ Chat[x.effect] = c
                                             /\ t - Window < x.at /\ x.at <= t}
<1> SUFFICES ASSUME NEW c \in Chats, NEW t \in 0..now
             PROVE  Spent(Later(c, t)) <= Limit
  BY DEF NoWindowOverspent, SpentAt, InWindow, Spent, UnitsOf
<1>0. /\ now \in Nat /\ Window \in Nat \ {0} /\ Limit \in Nat
      /\ a.effect = e /\ a.at = now /\ Units[e] \in Nat
  BY SendBudgetAssumption DEF BudgetInv, TypeOK, Attempt
<1>1. \A d \in Chats, u \in 0..now : Spent(InWindow(d, u)) <= Limit
  BY Zenon DEF BudgetInv, NoWindowOverspent, SpentAt
<1> HIDE DEF a
<1>2. CASE t = now /\ Chat[e] = c
  <2>1. Later(c, t) = InWindow(c, t) \cup {a}
    BY <1>0, <1>2 DEF InWindow, a
  <2>2. InWindow(c, t) \in SUBSET reserved
    BY DEF InWindow
  <2>3. IsFiniteSet(UnitsOf(InWindow(c, t))) /\ Spent(InWindow(c, t)) \in Nat
    BY <2>2, SpentOfSubset, Zenon DEF BudgetInv, PastInv
  <2>4. /\ Spent(InWindow(c, t) \cup {a}) <= Spent(InWindow(c, t)) + Units[e]
        /\ IsFiniteSet(UnitsOf(InWindow(c, t) \cup {a}))
    BY <1>0, <2>3, SpentOfAdded, Zenon
  <2>5. Spent(InWindow(c, t)) + Units[e] <= Limit
    BY <1>2 DEF Affordable, SpentAt
  <2>6. Spent(InWindow(c, t) \cup {a}) \in Nat
    BY <2>4, FS_CardinalityType, Zenon DEF Spent
  <2>7. Spent(InWindow(c, t) \cup {a}) <= Limit
    BY <1>0, <2>3, <2>4, <2>5, <2>6
  <2> HIDE DEF Later
  <2> QED BY <2>1, <2>7, Zenon
<1>3. CASE ~(t = now /\ Chat[e] = c)
  <2>1. Later(c, t) = InWindow(c, t)
    BY <1>0, <1>3 DEF InWindow, a
  <2> QED BY <1>1, <2>1, Zenon
<1> QED BY <1>2, <1>3, Zenon

\* Every step keeps every window within the limit.
LEMMA WindowsKept ==
    ASSUME BudgetInv, [Next]_vars
    PROVE  NoWindowOverspent'
<1>1. ASSUME NEW r \in Runs, Capacity(r) PROVE NoWindowOverspent'
  <2>1. op[r] \in Effects /\ now' = now
    BY <1>1 DEF BudgetInv, RunInv, Capacity
  <2>2. \/ reserved' = reserved
        \/ reserved' = reserved \cup {Attempt(op[r])} /\ Affordable(op[r])
    BY <1>1 DEF Capacity
  <2> QED BY <2>1, <2>2, WindowMovesOn, WindowTakesAttempt, Zenon
<1>2. CASE Tick
  BY <1>2, WindowMovesOn, Zenon DEF Tick
<1>3. CASE UNCHANGED <<now, reserved>>
  BY <1>3, WindowMovesOn
<1> QED BY <1>1, <1>2, <1>3 DEF Next, Submit, Execute, Finish, Crash, vars

-----------------------------------------------------------------------------
\* The invariant holds throughout.
THEOREM BudgetInvariant == Spec => []BudgetInv
<1>1. BudgetInv /\ [Next]_vars => BudgetInv'
  BY TypesKept, PastKept, RunsKept, PaidOnceKept, WindowsKept, Zenon DEF BudgetInv
<1> QED BY <1>1, InitHolds, PTL DEF Spec

\* The variables keep their types.
THEOREM BudgetTyped == Spec => []TypeOK
BY BudgetInvariant, PTL DEF BudgetInv

\* reserve_send_budget: no window of the length of the chat's, wherever it lies,
\* ever holds more than the limit, whatever runs, crashes and passes of time.
THEOREM WindowsAreNotOverspent == Spec => []NoWindowOverspent
BY BudgetInvariant, PTL DEF BudgetInv

\* "The same attempt_id never spends twice."
THEOREM AttemptsArePaidOnce == Spec => []AttemptPaidOnce
BY BudgetInvariant, PTL DEF BudgetInv

\* Every claim of a queued effect was paid for, for the row version it claims.
THEOREM ClaimsArePaid == Spec => ClaimIsPaid
<1> DEFINE Paid == \A e \in Effects :
         row[e].state = "queued" /\ row'[e].state = "executing"
            => \E x \in reserved : x.effect = e /\ x.stamp = row[e].updated
<1>1. BudgetInv /\ [Next]_vars => [Paid]_vars
  <2> SUFFICES ASSUME BudgetInv, [Next]_vars, NEW e \in Effects,
                      row[e].state = "queued", row'[e].state = "executing"
               PROVE  \E x \in reserved : x.effect = e /\ x.stamp = row[e].updated
    BY Zenon
  <2>0. row \in [Effects -> [state : {"absent", "queued", "blocked", "executing",
                                      "sent", "failed", "unknown"},
                             updated : 0..MaxTime]]
    BY DEF BudgetInv, TypeOK
  <2>1. \E r \in Runs : Execute(r) /\ op[r] = e /\ pc[r] = "admitted"
    <3>1. ASSUME NEW r \in Runs, NEW d \in Effects, Submit(r, d) PROVE FALSE
      BY <2>0, <3>1, Zenon DEF Submit
    <3>2. ASSUME NEW r \in Runs, Capacity(r) PROVE FALSE
      BY <2>0, <3>2 DEF Capacity, Blocked
    <3>3. ASSUME NEW r \in Runs, Finish(r) PROVE FALSE
      BY <2>0, <3>3 DEF Finish
    <3>4. ASSUME Tick \/ UNCHANGED vars PROVE FALSE
      BY <2>0, <3>4 DEF Tick, vars
    <3>5. ASSUME Crash PROVE FALSE
      BY <2>0, <3>5, Zenon DEF Crash
    <3>6. ASSUME NEW r \in Runs, Execute(r) PROVE op[r] = e /\ pc[r] = "admitted"
      BY <2>0, <3>6 DEF Execute
    <3> QED BY <3>1, <3>2, <3>3, <3>4, <3>5, <3>6, Zenon DEF Next
  <2> QED BY <2>1 DEF BudgetInv, RunInv, AlreadyReserved
<1>2. Spec => [][Paid]_vars
  BY <1>1, BudgetInvariant, PTL DEF Spec
<1> QED BY <1>2, Zenon DEF ClaimIsPaid

-----------------------------------------------------------------------------
\* What next_ready_ms promises

\* Once the reservation with which the sum reached the limit has left the
\* window, units are free: the later ones cost nothing, for all that the window
\* holds is within the limit.
LEMMA NextReadyFrees == BudgetInv => NextReadyHasRoom
<1> SUFFICES ASSUME BudgetInv, NEW c \in Chats
             PROVE  AvailableAt(c, NextReady(c)) > 0
  BY Zenon DEF NextReadyHasRoom
<1>0. /\ now \in Nat /\ Window \in Nat \ {0} /\ Limit \in Nat \ {0}
      /\ \A x \in reserved : x.at \in Nat /\ x.at <= now
      /\ IsFiniteSet(UnitsOf(reserved))
  BY SendBudgetAssumption DEF BudgetInv, TypeOK, PastInv
<1>1. \A t \in Int : Spent(InWindow(c, t)) \in Nat
                     /\ IsFiniteSet(UnitsOf(InWindow(c, t)))
  <2> TAKE t \in Int
  <2>1. InWindow(c, t) \in SUBSET reserved
    BY Zenon DEF InWindow
  <2> QED BY <1>0, <2>1, SpentOfSubset, Zenon
<1>2. \A t \in Int : Spent(InWindow(c, t)) = 0 => AvailableAt(c, t) > 0
  BY <1>0 DEF AvailableAt, SpentAt
<1>3. CASE AvailableAt(c, now) > 0
  BY <1>3 DEF NextReady
<1>4. CASE ~(AvailableAt(c, now) > 0) /\ Full(c) = {}
  <2>1. NextReady(c) = now + Window
    BY <1>4, Zenon DEF NextReady
  <2>2. InWindow(c, now + Window) = {}
    BY <1>0 DEF InWindow
  <2>3. now + Window \in Int
    BY <1>0
  <2>4. Spent(InWindow(c, now + Window)) = 0
    BY <2>2, SpentOfNone, Zenon
  <2> QED BY <1>2, <2>1, <2>3, <2>4, Zenon
<1>5. CASE ~(AvailableAt(c, now) > 0) /\ Full(c) # {}
  <2> DEFINE m == Min(Full(c))
             before == {z \in InWindow(c, now) : z.at <= m}
             after == InWindow(c, m + Window)
  <2>1. Full(c) \in SUBSET (0..now)
    <3> SUFFICES ASSUME NEW w \in Full(c) PROVE w \in 0..now
      BY Zenon
    <3>1. \E x \in reserved : w = x.at
      BY Zenon DEF Full, InWindow
    <3> QED BY <1>0, <3>1
  <2>2. m \in Full(c) /\ m \in Nat
    <3> HIDE DEF m
    <3>1. m \in Full(c)
      BY <1>0, <1>5, <2>1, MinOfBounded, Zenon DEF m
    <3> QED BY <1>0, <2>1, <3>1
  <2> HIDE DEF m
  <2>3. PICK y \in InWindow(c, now) : y.at = m /\ Spent(before) >= Limit
    BY <2>2, Zenon DEF Full
  <2>4. now - Window < m /\ m <= now
    BY <2>3, Zenon DEF InWindow
  <2>5. after \in SUBSET InWindow(c, now) /\ before \cap after = {}
    BY <1>0, <2>2, <2>4 DEF InWindow
  <2>6. before \in SUBSET InWindow(c, now)
    BY Zenon
  <2> HIDE DEF before, after
  <2>7. Spent(before) + Spent(after) <= Spent(InWindow(c, now))
    BY <1>0, <1>1, <2>5, <2>6, SpentOfSplit
  <2>8. Spent(before) \in Nat /\ Spent(after) \in Nat
        /\ Spent(InWindow(c, now)) \in Nat
    BY <1>0, <1>1, <2>5, <2>6, SpentOfSubset
  <2>9. Spent(InWindow(c, now)) <= Limit
    BY <1>0 DEF BudgetInv, NoWindowOverspent, SpentAt
  <2>10. Spent(after) = 0
    BY <1>0, <2>3, <2>7, <2>8, <2>9
  <2>11. NextReady(c) = m + Window
    BY <1>5 DEF NextReady, m
  <2> QED BY <1>0, <1>2, <2>2, <2>10, <2>11 DEF after
<1> QED BY <1>3, <1>4, <1>5, Zenon

\* At the time next_ready_ms names units are free if nobody reserves before.
THEOREM NextReadyIsReady == Spec => []NextReadyHasRoom
BY BudgetInvariant, NextReadyFrees, PTL

-----------------------------------------------------------------------------
\* What defer_until promises

\* Min is the least element, once one is known.
LEMMA MinIsLeast ==
    ASSUME NEW S \in SUBSET Int, NEW m \in S, \A y \in S : m <= y
    PROVE  Min(S) = m
<1>1. Min(S) \in S /\ \A y \in S : Min(S) <= y
  BY Zenon DEF Min
<1>2. Min(S) \in Int /\ m \in Int /\ Min(S) <= m /\ m <= Min(S)
  BY <1>1, Zenon
<1> QED BY <1>2

\* With the SoftLimit-th newest stamp, and not before, the window drops below the
\* limit.
LEMMA DeferIsEarliest == BudgetInv => DeferUntilIsEarliest
<1> SUFFICES ASSUME BudgetInv, NEW c \in Chats
             PROVE  DeferUntil(c) = Min({t \in now..(now + SoftWindow) :
                        Cardinality({x \in recent[c] : t - SoftWindow < x.at})
                            < SoftLimit})
  BY Zenon DEF DeferUntilIsEarliest
<1> DEFINE From(t) == {x \in recent[c] : t - SoftWindow < x.at}
           Open == {t \in now..(now + SoftWindow) : Cardinality(From(t)) < SoftLimit}
<1>0. /\ now \in Nat /\ SoftWindow \in Nat \ {0} /\ SoftLimit \in Nat \ {0}
      /\ \A x \in recent[c] : x.at \in Nat /\ x.at <= now
      /\ IsFiniteSet(recent[c])
  BY SendBudgetAssumption DEF BudgetInv, TypeOK, PastInv
<1>1. \A S \in SUBSET recent[c] : IsFiniteSet(S) /\ Cardinality(S) \in Nat
  BY <1>0, FS_Subset, FS_CardinalityType, Zenon
<1>2. From(now) = RecentSends(c) /\ RecentSends(c) \in SUBSET recent[c]
  BY <1>0, Zenon DEF RecentSends
<1>3. Open \in SUBSET Int /\ \A t \in Open : now <= t
  BY <1>0
<1>4. CASE Cardinality(RecentSends(c)) < SoftLimit
  <2>1. now \in Open
    <3>1. Cardinality(From(now)) < SoftLimit
      BY <1>2, <1>4, Zenon
    <3> HIDE DEF From
    <3> QED BY <1>0, <3>1
  <2>2. DeferUntil(c) = now
    BY <1>4 DEF DeferUntil
  <2> HIDE DEF Open
  <2>3. Min(Open) = now
    BY <1>3, <2>1, MinIsLeast, Zenon
  <2> QED BY <2>2, <2>3, Zenon DEF Open
<1>5. CASE ~(Cardinality(RecentSends(c)) < SoftLimit)
  <2> DEFINE v == Max(Crowded(c))
             Since(w) == {z \in RecentSends(c) : z.at >= w}
  <2>1. Crowded(c) \in SUBSET (0..now)
    <3> SUFFICES ASSUME NEW w \in Crowded(c) PROVE w \in 0..now
      BY Zenon
    <3>1. \E x \in recent[c] : w = x.at
      BY Zenon DEF Crowded, RecentSends
    <3> QED BY <1>0, <3>1
  <2>2. Crowded(c) # {}
    <3> DEFINE stamps == {x.at : x \in RecentSends(c)}
    <3>1. RecentSends(c) # {}
      BY <1>0, <1>5, FS_EmptySet
    <3>2. stamps \in SUBSET (0..now) /\ stamps # {}
      BY <1>0, <3>1 DEF RecentSends
    <3>3. Min(stamps) \in stamps /\ \A y \in stamps : Min(stamps) <= y
      <4> HIDE DEF stamps
      <4> QED BY <1>0, <3>2, MinOfBounded, Zenon
    <3>4. PICK x \in RecentSends(c) : x.at = Min(stamps)
      BY <3>3, Zenon
    <3>5. {z \in RecentSends(c) : z.at >= x.at} = RecentSends(c)
      <4>1. \A z \in RecentSends(c) : x.at <= z.at /\ z.at \in Nat /\ x.at \in Nat
        BY <1>0, <3>3, <3>4, Zenon DEF RecentSends
      <4> QED BY <4>1, Zenon
    <3>6. Cardinality({z \in RecentSends(c) : z.at >= x.at}) >= SoftLimit
      <4>1. Cardinality(RecentSends(c)) \in Nat
        BY <1>1, <1>2, Zenon
      <4>2. Cardinality(RecentSends(c)) >= SoftLimit
        BY <1>0, <1>5, <4>1
      <4> QED BY <3>5, <4>2, Zenon
    <3> QED BY <3>6, Zenon DEF Crowded
  <2>3. v \in Crowded(c) /\ v \in 0..now /\ \A w \in Crowded(c) : w <= v
    <3> HIDE DEF v
    <3>1. v \in Crowded(c) /\ \A w \in Crowded(c) : w <= v
      BY <1>0, <2>1, <2>2, MaxOfBounded, Zenon DEF v
    <3> QED BY <2>1, <3>1
  <2> HIDE DEF v
  <2>4. PICK y \in RecentSends(c) : y.at = v /\ Cardinality(Since(v)) >= SoftLimit
    BY <2>3, Zenon DEF Crowded
  <2>5. now - SoftWindow < v /\ v <= now
    BY <2>4, Zenon DEF RecentSends
  <2>6. v + SoftWindow \in Open
    <3> DEFINE later == From(v + SoftWindow)
    <3>1. later = {x \in RecentSends(c) : x.at > v}
      BY <1>0, <2>3, <2>5 DEF RecentSends
    <3>2. ASSUME Cardinality(later) >= SoftLimit PROVE FALSE
      <4> DEFINE stamps == {x.at : x \in later}
      <4>1. later # {}
        <5> HIDE DEF later
        <5>1. later = {} => Cardinality(later) = 0
          BY FS_EmptySet, Zenon
        <5> QED BY <1>0, <3>2, <5>1
      <4>2. stamps \in SUBSET (0..now) /\ stamps # {}
        BY <1>0, <3>1, <4>1
      <4>3. Min(stamps) \in stamps /\ \A s \in stamps : Min(stamps) <= s
        <5> HIDE DEF stamps
        <5> QED BY <1>0, <4>2, MinOfBounded, Zenon
      <4>4. PICK x \in later : x.at = Min(stamps)
        BY <4>3, Zenon
      <4>5. x \in RecentSends(c) /\ x.at > v /\ x.at \in Nat
        BY <1>0, <1>2, <3>1, <4>4, Zenon
      <4>6. Since(x.at) = later
        <5>1. \A z \in later : z.at >= x.at
          BY <1>0, <4>3, <4>4, Zenon
        <5> HIDE DEF later
        <5> QED BY <1>0, <1>2, <2>3, <3>1, <4>5, <5>1
      <4>7. x.at \in Crowded(c)
        BY <3>2, <4>5, <4>6, Zenon DEF Crowded
      <4> QED BY <2>3, <4>5, <4>7
    <3>3. Cardinality(later) \in Nat
      BY <1>1, Zenon
    <3> HIDE DEF later
    <3>4. Cardinality(later) < SoftLimit
      BY <1>0, <3>2, <3>3
    <3> QED BY <1>0, <2>3, <2>5, <3>4 DEF later
  <2>7. ASSUME NEW t \in Open PROVE v + SoftWindow <= t
    <3> SUFFICES ASSUME t < v + SoftWindow PROVE FALSE
      BY <1>0, <2>3
    <3>1. Since(v) \in SUBSET From(t)
      BY <1>0, <1>3, <2>3 DEF RecentSends
    <3>2. From(t) \in SUBSET recent[c] /\ Cardinality(From(t)) < SoftLimit
      BY Zenon
    <3> HIDE DEF From, Since
    <3>3. Cardinality(Since(v)) <= Cardinality(From(t)) /\ Cardinality(Since(v)) \in Nat
      BY <1>1, <3>1, <3>2, FS_Subset, FS_CardinalityType, Zenon
    <3> QED BY <1>0, <1>1, <2>4, <3>2, <3>3
  <2>8. DeferUntil(c) = v + SoftWindow
    BY <1>5 DEF DeferUntil, v
  <2> HIDE DEF Open
  <2>9. Min(Open) = v + SoftWindow
    BY <1>3, <2>6, <2>7, MinIsLeast, Zenon
  <2> QED BY <2>8, <2>9, Zenon DEF Open
<1> QED BY <1>4, <1>5, Zenon

\* defer_until names the earliest time from now on at which the thread may speak.
THEOREM DefersAreEarliest == Spec => []DeferUntilIsEarliest
BY BudgetInvariant, DeferIsEarliest, PTL

====
