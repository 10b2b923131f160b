---------------------------- MODULE PoolScanProofs ----------------------------
(* Proofs about the order in which next() scans the pool: round-robin      *)
(* fairness (RoundRobinNoStarvation) and the fixed_priority choice         *)
(* (FixedPriorityPicksLowest), for every pool satisfying PoolAssumption.   *)
EXTENDS PoolRefinementProofs

\* How many slots after the index the scan of round_robin and random
\* reaches slot s.
ScanOffset(s) == (s - index) % N

\* A key passed over while free has moved that many slots closer to the
\* front of the scan: its count of skips plus the offset of any of its
\* slots stays below N.
SkipBound ==
    ScheduleAlgorithm # "fixed_priority" =>
        \A s \in 0..N-1 : skipped[items[s + 1]] + ScanOffset(s) <= N - 1

-----------------------------------------------------------------------------
(* Arithmetic of the circular scan.                                        *)

\* Going (j - i) % n steps from i round a circle of n slots reaches j.
LEMMA ModOffset ==
    ASSUME NEW n \in Nat \ {0}, NEW i \in 0..n-1, NEW j \in 0..n-1
    PROVE  /\ (j - i) % n \in 0..n-1
           /\ (i + ((j - i) % n)) % n = j
  <1>1. CASE j >= i
    <2>1. (j - i) % n = j - i
      BY <1>1
    <2>2. QED
      BY <1>1, <2>1
  <1>2. CASE j < i
    <2>1. (j - i) % n = j - i + n
      BY <1>2
    <2>2. QED
      BY <1>2, <2>1
  <1>3. QED
    BY <1>1, <1>2

\* The scan that starts at index reaches slot j after ScanOffset(j) slots.
LEMMA SlotAtOffset ==
    ASSUME PoolAssumption, ScheduleAlgorithm # "fixed_priority",
           index \in 0..N-1, NEW j \in 0..N-1
    PROVE  /\ ScanOffset(j) \in 0..N-1
           /\ Slot(ScanOffset(j)) = j
  <1>1. N \in Nat \ {0}
    BY PoolAssumption
  <1>2. StartIndex = index
    BY DEF StartIndex
  <1>3. (j - index) % N \in 0..N-1
    BY <1>1, ModOffset
  <1>4. (index + ((j - index) % N)) % N = j
    BY <1>1, ModOffset
  <1>5. ScanOffset(j) \in 0..N-1
    BY <1>3 DEF ScanOffset
  <1>6. Slot(ScanOffset(j)) = j
    BY <1>2, <1>4 DEF Slot, ScanOffset
  <1>7. QED
    BY <1>5, <1>6

\* After a grant at offset o, a slot further along the scan is o + 1 slots
\* closer to the new index (((i + o) % n) + 1) % n.
LEMMA OffsetAfterGrant ==
    ASSUME NEW n \in Nat \ {0}, NEW i \in 0..n-1, NEW s \in 0..n-1,
           NEW o \in 0..n-1, o < (s - i) % n
    PROVE  (s - ((((i + o) % n) + 1) % n)) % n = ((s - i) % n) - o - 1
  <1>1. CASE s >= i
    <2>1. (s - i) % n = s - i
      BY <1>1
    <2>2. (((i + o) % n) + 1) % n = i + o + 1
      BY <1>1, <2>1
    <2>3. QED
      BY <1>1, <2>1, <2>2
  <1>2. CASE s < i
    <2>1. (s - i) % n = s - i + n
      BY <1>2
    <2>2. CASE i + o + 1 < n
      <3>1. (((i + o) % n) + 1) % n = i + o + 1
        BY <2>2
      <3>2. QED
        BY <1>2, <2>1, <2>2, <3>1
    <2>3. CASE i + o + 1 >= n
      <3>1. (((i + o) % n) + 1) % n = i + o + 1 - n
        BY <2>3
      <3>2. QED
        BY <1>2, <2>1, <2>3, <3>1
    <2>4. QED
      BY <2>2, <2>3
  <1>3. QED
    BY <1>1, <1>2

-----------------------------------------------------------------------------
(* Round-robin fairness.                                                   *)

LEMMA SkipInit == Init => SkipBound
  <1> SUFFICES ASSUME Init, ScheduleAlgorithm # "fixed_priority", NEW s \in 0..N-1
               PROVE  skipped[items[s + 1]] + ScanOffset(s) <= N - 1
    BY DEF SkipBound
  <1>1. TypeOK
    BY TypeInit
  <1>2. N \in Nat \ {0}
    BY PoolAssumption
  <1>3. index = 0
    BY DEF Init
  <1>4. (s - 0) % N = s
    BY <1>2
  <1>5. items[s + 1] \in Keys
    BY <1>1, <1>2 DEF TypeOK
  <1>6. skipped[items[s + 1]] = 0
    BY <1>5 DEF Init
  <1>7. QED
    BY <1>3, <1>4, <1>6 DEF ScanOffset

\* A grant keeps the bound for the key of slot s.
LEMMA SkipGranted ==
    ASSUME PoolAssumption, TypeOK, SkipBound, ScheduleAlgorithm # "fixed_priority",
           NEW m \in CallModels, NextGranted(m), NEW s \in 0..N-1
    PROVE  skipped'[items'[s + 1]] + ScanOffset(s)' <= N - 1
  <1>1. PICK o \in Free(m) :
            /\ \A o2 \in Free(m) : o <= o2
            /\ LET k == items[Slot(o) + 1]
               IN /\ index' = Advance(o)
                  /\ skipped' = [j \in Keys |->
                                   IF j # k /\ ~IsRateLimited(j, m)
                                   THEN IF skipped[j] < N THEN skipped[j] + 1 ELSE N
                                   ELSE 0]
    BY Zenon DEF NextGranted
  <1> DEFINE k == items[Slot(o) + 1]
             j == items[s + 1]
             d == ScanOffset(s)
  <1>2. N \in Nat \ {0} /\ o \in 0..N-1 /\ items' = items
    BY DEF Free, NextGranted
  <1>3. j \in Keys /\ skipped[j] \in 0..N
    BY DEF TypeOK
  <1>4. index' \in 0..N-1
    BY <1>1, <1>2, SlotRange DEF TypeOK
  <1>5. ScanOffset(s)' \in 0..N-1
    BY <1>2, <1>4 DEF ScanOffset
  <1>6. CASE j # k /\ ~IsRateLimited(j, m)
    <2>1. d \in 0..N-1 /\ Slot(d) = s
      BY SlotAtOffset DEF TypeOK
    <2>2. d \in Free(m)
      BY <1>6, <2>1 DEF Free
    <2>3. o # d
      BY <1>6, <2>1
    <2>4. o < d
      BY <1>1, <1>2, <2>1, <2>2, <2>3
    <2>5. skipped[j] + d <= N - 1
      BY DEF SkipBound
    <2>6. skipped'[j] = skipped[j] + 1
      BY <1>1, <1>3, <1>6, <2>1, <2>5
    <2>7. index' = (((index + o) % N) + 1) % N
      BY <1>1 DEF Advance, Slot, StartIndex
    <2>8. ScanOffset(s)' = d - o - 1
      <3>1. o < (s - index) % N
        BY <2>4 DEF ScanOffset
      <3>2. N \in Nat \ {0} /\ index \in 0..N-1 /\ o \in 0..N-1
        BY <1>2 DEF TypeOK
      <3>3. (s - ((((index + o) % N) + 1) % N)) % N = ((s - index) % N) - o - 1
        BY <3>1, <3>2, OffsetAfterGrant
      <3>4. QED
        BY <2>7, <3>3 DEF ScanOffset
    <2>9. QED
      BY <1>2, <1>3, <2>1, <2>4, <2>5, <2>6, <2>8
  <1>7. CASE ~(j # k /\ ~IsRateLimited(j, m))
    <2>1. skipped'[j] = 0
      BY <1>1, <1>3, <1>7
    <2>2. QED
      BY <1>2, <1>5, <2>1
  <1>8. QED
    BY <1>6, <1>7

LEMMA SkipStep == TypeOK /\ SkipBound /\ [Next]_vars => SkipBound'
  <1> SUFFICES ASSUME TypeOK, SkipBound, [Next]_vars,
                      ScheduleAlgorithm # "fixed_priority", NEW s \in 0..N-1
               PROVE  skipped'[items'[s + 1]] + ScanOffset(s)' <= N - 1
    BY DEF SkipBound, ScheduleAlgorithm
  <1> USE PoolAssumption
  <1>1. CASE \E m \in CallModels : NextGranted(m)
    BY <1>1, SkipGranted
  <1>2. CASE \E m \in CallModels : NextRateLimited(m)
    <2>1. skipped' = [j \in Keys |-> 0] /\ index' = index /\ items' = items
      BY <1>2 DEF NextRateLimited, StartIndex
    <2>2. items[s + 1] \in Keys
      BY DEF TypeOK
    <2>3. skipped'[items'[s + 1]] = 0
      BY <2>1, <2>2
    <2>4. (s - index) % N \in 0..N-1
      BY DEF TypeOK
    <2>5. QED
      BY <2>1, <2>3, <2>4 DEF ScanOffset
  <1>3. CASE \/ \E k \in Keys \cup {NoKey}, c \in CoolingTimes : SetCooling(k, c)
             \/ Tick \/ UNCHANGED vars
    <2>1. UNCHANGED <<skipped, index, items>>
      BY <1>3 DEF SetCooling, Tick, vars
    <2>2. QED
      BY <2>1 DEF SkipBound, ScanOffset
  <1>4. QED
    BY <1>1, <1>2, <1>3 DEF Next

\* Spec 8.2 for next() under round_robin and random, for every pool: no
\* key is free yet passed over at N grants in a row.
THEOREM RoundRobinFair == Spec => []RoundRobinNoStarvation
  <1>1. Init => TypeOK /\ ItemsCover /\ SkipBound
    BY TypeInit, CoverInit, SkipInit
  <1>2. TypeOK /\ ItemsCover /\ SkipBound /\ [Next]_vars
          => (TypeOK /\ ItemsCover /\ SkipBound)'
    BY TypeStep, CoverStep, SkipStep
  <1>3. TypeOK /\ ItemsCover /\ SkipBound => RoundRobinNoStarvation
    <2> SUFFICES ASSUME TypeOK, ItemsCover, SkipBound,
                        ScheduleAlgorithm # "fixed_priority", NEW k \in Keys
                 PROVE  skipped[k] < N
      BY DEF RoundRobinNoStarvation
    <2>1. PICK i \in 1..N : items[i] = k
      BY DEF ItemsCover
    <2>2. N \in Nat \ {0} /\ i - 1 \in 0..N-1
      BY PoolAssumption
    <2>3. skipped[k] + ScanOffset(i - 1) <= N - 1
      BY <2>1, <2>2 DEF SkipBound
    <2>4. ScanOffset(i - 1) \in 0..N-1
      BY <2>2 DEF ScanOffset, TypeOK
    <2>5. skipped[k] \in 0..N
      BY DEF TypeOK
    <2>6. QED
      BY <2>2, <2>3, <2>4, <2>5 DEF ScanOffset
  <1>4. QED
    BY <1>1, <1>2, <1>3, PTL DEF Spec

-----------------------------------------------------------------------------
(* fixed_priority.                                                         *)

\* Only random reorders the list: under the other algorithms items is the
\* list the constructor got.
ItemsFixed == ScheduleAlgorithm # "random" => items = Items

LEMMA FixedInit == Init => ItemsFixed
  BY DEF Init, ItemsFixed

LEMMA FixedStep == ItemsFixed /\ [Next]_vars => ItemsFixed'
  <1>1. [Next]_vars => items' = items
    BY DEF Next, NextGranted, NextRateLimited, SetCooling, Tick, vars
  <1>2. QED
    BY <1>1 DEF ItemsFixed, ScheduleAlgorithm

\* A grant of next() under fixed_priority satisfies the property.
LEMMA FixedGranted ==
    ASSUME PoolAssumption, TypeOK, ItemsFixed, ScheduleAlgorithm = "fixed_priority",
           NEW mm \in CallModels, NextGranted(mm)
    PROVE  LET k == result'.pick
               m == result'.model
           IN /\ ~IsRateLimited(k, m)
              /\ \A i \in 1..PosOf(k) - 1 : IsRateLimited(items[i], m)
  <1>1. PICK o \in Free(mm) :
            /\ \A o2 \in Free(mm) : o <= o2
            /\ result' = [model |-> mm, pick |-> items[Slot(o) + 1]]
    BY Zenon DEF NextGranted
  <1>2. N \in Nat \ {0} /\ o \in 0..N-1
    BY DEF Free
  <1>3. ASSUME NEW x \in 0..N-1 PROVE Slot(x) = x
    <2>1. StartIndex = 0
      BY DEF StartIndex
    <2>2. (0 + x) % N = x
      BY <1>2
    <2>3. QED
      BY <2>1, <2>2 DEF Slot
  <1> DEFINE k == items[o + 1]
  <1>4. result'.pick = k /\ result'.model = mm
    BY <1>1, <1>2, <1>3
  <1>5. ~IsRateLimited(k, mm)
    BY <1>1, <1>2, <1>3 DEF Free
  <1>6. PosOf(k) = o + 1
    <2>1. items = Items
      BY DEF ItemsFixed
    <2>2. \A i \in 1..N : items[i] = k => i = o + 1
      BY <1>2, <2>1
    <2>3. QED
      BY <1>2, <2>2 DEF PosOf
  <1>7. ASSUME NEW i \in 1..o PROVE IsRateLimited(items[i], mm)
    <2>1. i - 1 \in 0..N-1 /\ i - 1 < o
      BY <1>2
    <2>2. Slot(i - 1) + 1 = i
      BY <1>3, <2>1
    <2>3. i - 1 \notin Free(mm)
      BY <1>1, <1>2, <2>1
    <2>4. QED
      BY <2>1, <2>2, <2>3 DEF Free
  <1>8. ~IsRateLimited(result'.pick, result'.model)
    BY <1>4, <1>5
  <1>9. PosOf(result'.pick) - 1 = o
    BY <1>2, <1>4, <1>6
  <1>10. \A i \in 1..PosOf(result'.pick) - 1 : IsRateLimited(items[i], result'.model)
    BY <1>4, <1>7, <1>9
  <1>11. QED
    BY <1>8, <1>10

\* Spec 8.3 for next() under fixed_priority, for every pool: a grant hands
\* out a free key and every key ahead of it in the list was limited.
THEOREM FixedPriorityOrder == Spec => FixedPriorityPicksLowest
  <1>1. Init => TypeOK /\ ItemsFixed
    BY TypeInit, FixedInit
  <1>2. TypeOK /\ ItemsFixed /\ [Next]_vars => (TypeOK /\ ItemsFixed)'
    BY TypeStep, FixedStep
  <1> DEFINE Picks == (ScheduleAlgorithm = "fixed_priority" /\ nreq' = nreq + 1) =>
                        LET k == result'.pick
                            m == result'.model
                        IN /\ ~IsRateLimited(k, m)
                           /\ \A i \in 1..PosOf(k) - 1 : IsRateLimited(items[i], m)
  <1>3. TypeOK /\ ItemsFixed /\ [Next]_vars => Picks
    <2> SUFFICES ASSUME TypeOK, ItemsFixed, [Next]_vars,
                        ScheduleAlgorithm = "fixed_priority", nreq' = nreq + 1
                 PROVE  LET k == result'.pick
                            m == result'.model
                        IN /\ ~IsRateLimited(k, m)
                           /\ \A i \in 1..PosOf(k) - 1 : IsRateLimited(items[i], m)
      OBVIOUS
    <2>1. CASE \E mm \in CallModels : NextGranted(mm)
      BY <2>1, FixedGranted, PoolAssumption
    <2>2. CASE ~\E mm \in CallModels : NextGranted(mm)
      <3>1. nreq' = nreq
        BY <2>2 DEF Next, NextRateLimited, SetCooling, Tick, vars
      <3>2. QED
        BY <3>1 DEF TypeOK
    <2>3. QED
      BY <2>1, <2>2
  <1>4. QED
    BY <1>1, <1>2, <1>3, PTL DEF Spec, FixedPriorityPicksLowest
=============================================================================
