------------------------- MODULE PoolRefinementProofs -------------------------
(* The proof that the credential pool implements its abstract promise,     *)
(* PoolAbstract, for every value of the constants satisfying               *)
(* PoolAssumption.  It rests on the inductive invariant IInv of            *)
(* CredentialPoolProofs: the trimmed list of a key and model is part of    *)
(* its history (so a list that is full means a full history window), and  *)
(* what trimming dropped lies outside every window ending now (so a list  *)
(* with room means a history window with room).                           *)
EXTENDS CredentialPoolProofs

\* Every key of the pool has a slot in the (possibly shuffled) list.
ItemsCover == \A k \in Keys : \E i \in 1..N : items[i] = k

LEMMA CoverInit == Init => ItemsCover
  <1> SUFFICES ASSUME Init, NEW k \in Keys PROVE \E i \in 1..N : items[i] = k
    BY DEF ItemsCover
  <1> USE PoolAssumption
  <1>1. PICK j \in 1..N : Items[j] = k
    BY DEF Keys
  <1>2. CASE ScheduleAlgorithm = "random"
    <2>1. PICK p \in Shuffles : items = [i \in 1..N |-> Items[p[i]]]
      BY <1>2 DEF Init
    <2>2. PICK i \in 1..N : p[i] = j
      BY DEF Shuffles
    <2>3. QED
      BY <1>1, <2>1, <2>2
  <1>3. CASE ScheduleAlgorithm # "random"
    BY <1>1, <1>3 DEF Init
  <1>4. QED
    BY <1>2, <1>3

LEMMA CoverStep == ItemsCover /\ [Next]_vars => ItemsCover'
  <1>1. [Next]_vars => items' = items
    BY DEF Next, NextGranted, NextRateLimited, SetCooling, Tick, vars
  <1>2. QED
    BY <1>1 DEF ItemsCover

\* The scan of next() visits every position of the list once.
LEMMA SlotOnto ==
    ASSUME PoolAssumption, index \in 0..N-1, NEW j \in 0..N-1
    PROVE  \E o \in 0..N-1 : Slot(o) = j
  <1>1. StartIndex \in 0..N-1
    BY StartRange
  <1> DEFINE s == StartIndex
  <1>2. N \in Nat \ {0} /\ s \in 0..N-1
    BY <1>1, PoolAssumption
  <1>3. CASE j >= s
    <2>1. (s + (j - s)) % N = j
      BY <1>2
    <2>2. QED
      BY <1>2, <1>3, <2>1 DEF Slot
  <1>4. CASE j < s
    <2>1. j - s + N \in 0..N-1
      BY <1>2, <1>4
    <2>2. (s + (j - s + N)) % N = j
      BY <1>2, <1>4
    <2>3. QED
      BY <2>1, <2>2 DEF Slot
  <1>5. QED
    BY <1>2, <1>3, <1>4

\* The abstract module counts with its own instance of FiniteSets.
LEMMA CardSame ==
    ASSUME NEW S
    PROVE  PA!Cardinality(S) = Cardinality(S)
  BY DEF PA!Cardinality, Cardinality

\* Within a window ending now, the history of a key and the trimmed list
\* hold the same grants: the list is part of the history, and whatever is
\* missing from it is older than every period of the model.
LEMMA WindowsAgree ==
    ASSUME PoolAssumption, IInv, NEW k \in Keys, NEW m \in CallModels,
           NEW i \in DOMAIN RateLimitFor(m)
    PROVE  LET p == RateLimitFor(m)[i][2]
           IN  PA!Recent(k, m, p) = Window(requests[k][ModelKey(m)], now - p)
  <1> DEFINE p == RateLimitFor(m)[i][2]
             H == hist[k][ModelKey(m)]
             R == requests[k][ModelKey(m)]
  <1>1. PA!Recent(k, m, p) = {e \in H : e[1] > now - p}
    BY DEF PA!Recent
  <1>2. R \subseteq H
    BY DEF IInv, LogInHist, ModelKeys
  <1>3. \A e \in H \ R : e[1] <= now - p
    BY Zenon DEF IInv, TrimmedOld
  <1>4. \A e \in H : e[1] \in Int
    <2>1. ModelKey(m) \in ModelKeys
      BY DEF ModelKeys
    <2>2. H \subseteq Stamp
      BY <2>1 DEF IInv, TypeOK
    <2>3. QED
      BY <2>2 DEF Stamp
  <1>5. now - p \in Int
    <2>1. p \in Nat
      BY LimitsType, PoolAssumption DEF LimitList
    <2>2. QED
      BY <2>1 DEF IInv, TypeOK
  <1>6. {e \in H : e[1] > now - p} = {e \in R : e[1] > now - p}
    BY <1>2, <1>3, <1>4, <1>5
  <1>7. QED
    BY <1>1, <1>6 DEF Window
\* The limit test of the scan and the abstract room test agree on a key:
\* limited in the code means no room in the history, and free means room.
LEMMA LimitedIffNoRoom ==
    ASSUME PoolAssumption, IInv, NEW k \in Keys, NEW m \in CallModels
    PROVE  IsRateLimited(k, m) <=> ~PA!HasRoom(k, m)
  <1> DEFINE L == RateLimitFor(m)
             R == requests[k][ModelKey(m)]
  <1>1. L \in LimitList
    BY LimitsType
  <1>2. ASSUME NEW i \in DOMAIN L
        PROVE  /\ Cardinality(PA!Recent(k, m, L[i][2])) = Cardinality(Window(R, now - L[i][2]))
               /\ Cardinality(Window(R, now - L[i][2])) \in Nat
               /\ L[i][1] \in Nat
    <2>1. PA!Recent(k, m, L[i][2]) = Window(R, now - L[i][2])
      BY WindowsAgree
    <2>2. ModelKey(m) \in ModelKeys
      BY DEF ModelKeys
    <2>3. R \subseteq Stamp
      BY <2>2 DEF IInv, TypeOK
    <2>4. IsFiniteSet(Window(R, now - L[i][2]))
      BY <2>3, StampFinite, FS_Subset DEF Window
    <2>5. QED
      BY <1>1, <2>1, <2>4, FS_CardinalityType DEF LimitList
  <1>3. OverLimit(k, m) <=>
          \E i \in DOMAIN L : Cardinality(Window(R, now - L[i][2])) >= L[i][1]
    BY DEF OverLimit
  <1>4. PA!HasRoom(k, m) <=>
          /\ ~(now < coolingUntil[k])
          /\ \A i \in DOMAIN L : Cardinality(PA!Recent(k, m, L[i][2])) < L[i][1]
    <2>1. [x \in CallModels |-> RateLimitFor(x)][m] = L
      OBVIOUS
    <2>2. QED
      BY <2>1, CardSame, Zenon DEF PA!HasRoom
  <1>5. (\E i \in DOMAIN L : Cardinality(Window(R, now - L[i][2])) >= L[i][1])
          <=> ~\A i \in DOMAIN L : Cardinality(PA!Recent(k, m, L[i][2])) < L[i][1]
    BY <1>2
  <1>6. QED
    BY <1>3, <1>4, <1>5 DEF IsRateLimited, Cooling
\* A grant of next() is an abstract grant of the same key.
LEMMA GrantRefines ==
    ASSUME PoolAssumption, IInv, NEW m \in CallModels, NextGranted(m)
    PROVE  PA!Next
  <1>1. PICK o \in Free(m) :
            LET k == items[Slot(o) + 1]
                stamp == <<now, nreq>>
            IN /\ hist' = [hist EXCEPT ![k][ModelKey(m)] = @ \cup {stamp}]
               /\ result' = [model |-> m, pick |-> k]
               /\ nreq' = nreq + 1
    BY Zenon DEF NextGranted
  <1> DEFINE k == items[Slot(o) + 1]
  <1>2. o \in 0..N-1
    BY DEF Free
  <1>3. k \in Keys
    BY <1>2, SlotRange DEF IInv, TypeOK
  <1>4. PA!HasRoom(k, m)
    BY <1>3, LimitedIffNoRoom DEF Free
  <1>5. [x \in CallModels |-> ModelKey(x)][m] = ModelKey(m)
    OBVIOUS
  <1>6. /\ nreq < MaxRequests
        /\ UNCHANGED <<coolingUntil, now>>
    BY DEF NextGranted
  <1>7. PA!Grant(m, k)
    BY <1>1, <1>4, <1>5, <1>6, Zenon DEF PA!Grant
  <1>8. QED
    BY <1>3, <1>7 DEF PA!Next

\* A 429 of next() is an abstract refusal: the scan saw every key limited.
LEMMA RefuseRefines ==
    ASSUME PoolAssumption, IInv, ItemsCover, NEW m \in CallModels, NextRateLimited(m)
    PROVE  PA!Next
  <1>1. ASSUME NEW k \in Keys PROVE ~PA!HasRoom(k, m)
    <2>1. PICK i \in 1..N : items[i] = k
      BY DEF ItemsCover
    <2>2. index \in 0..N-1 /\ i - 1 \in 0..N-1
      BY PoolAssumption DEF IInv, TypeOK
    <2>3. PICK o \in 0..N-1 : Slot(o) = i - 1
      BY <2>2, SlotOnto
    <2>4. o \notin Free(m)
      BY DEF NextRateLimited
    <2>5. IsRateLimited(k, m)
      BY <2>1, <2>3, <2>4 DEF Free
    <2>6. QED
      BY <2>5, LimitedIffNoRoom
  <1>2. PA!Refuse(m)
    BY <1>1 DEF NextRateLimited, PA!Refuse
  <1>3. QED
    BY <1>2 DEF PA!Next

\* Every step of the pool is a step of the abstract pool or leaves its
\* state alone.
LEMMA RefineStep ==
    IInv /\ ItemsCover /\ [Next]_vars => [PA!Next]_PA!avars
  <1> SUFFICES ASSUME IInv, ItemsCover, [Next]_vars PROVE [PA!Next]_PA!avars
    OBVIOUS
  <1> USE PoolAssumption
  <1>1. CASE \E m \in CallModels : NextGranted(m)
    BY <1>1, GrantRefines
  <1>2. CASE \E m \in CallModels : NextRateLimited(m)
    BY <1>2, RefuseRefines
  <1>3. CASE \E k \in Keys \cup {NoKey}, s \in CoolingTimes : SetCooling(k, s)
    BY <1>3 DEF SetCooling, PA!Cool, PA!Next
  <1>4. CASE Tick
    BY <1>4 DEF Tick, PA!Tick, PA!Next
  <1>5. CASE UNCHANGED vars
    BY <1>5 DEF vars, PA!avars
  <1>6. QED
    BY <1>1, <1>2, <1>3, <1>4, <1>5 DEF Next

\* The initial pool is an initial abstract pool.
LEMMA RefineInit == Init => PA!Init
  <1> SUFFICES ASSUME Init PROVE PA!Init
    OBVIOUS
  <1>1. {[x \in CallModels |-> ModelKey(x)][m] : m \in CallModels} = ModelKeys
    BY DEF ModelKeys
  <1>2. QED
    BY <1>1 DEF Init, PA!Init

\* next() and set_cooling implement the promise of the pool for every pool:
\* whatever the list, the algorithm and the limit table, a grant hands out
\* a key whose full history has room in every window of the model and that
\* is not cooling, and a 429 is raised only when no key has.
THEOREM PoolRefinement == Spec => PoolRefinesAbstract
  <1>1. Init => IInv /\ ItemsCover
    BY IInvInit, CoverInit
  <1>2. IInv /\ ItemsCover /\ [Next]_vars => (IInv /\ ItemsCover)'
    BY IInvStep, CoverStep
  <1>3. Init => PA!Init
    BY RefineInit
  <1>4. IInv /\ ItemsCover /\ [Next]_vars => [PA!Next]_PA!avars
    BY RefineStep
  <1>5. QED
    BY <1>1, <1>2, <1>3, <1>4, PTL DEF Spec, PoolRefinesAbstract, PA!Spec
=============================================================================
