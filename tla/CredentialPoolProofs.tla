------------------------- MODULE CredentialPoolProofs -------------------------
(* Proofs about the credential pool for every value of the constants that  *)
(* satisfies PoolAssumption.                                               *)
EXTENDS CredentialPool, FiniteSetTheorems, WellFoundedInduction, TLAPS

\* The scan starts at a position of items.
LEMMA StartRange ==
    ASSUME PoolAssumption, index \in 0..N-1
    PROVE  StartIndex \in 0..N-1
  BY DEF StartIndex

\* The slot a scan visits, and the index after it, are positions of items.
LEMMA SlotRange ==
    ASSUME PoolAssumption, index \in 0..N-1, NEW o \in 0..N-1
    PROVE  /\ Slot(o) \in 0..N-1
           /\ Slot(o) + 1 \in 1..N
           /\ Advance(o) \in 0..N-1
  <1>1. StartIndex \in 0..N-1
    BY StartRange
  <1>2. Slot(o) \in 0..N-1
    BY <1>1 DEF Slot
  <1>3. QED
    BY <1>1, <1>2 DEF Advance

\* The initial states are well typed.
LEMMA TypeInit == Init => TypeOK
  <1> SUFFICES ASSUME Init PROVE TypeOK
    OBVIOUS
  <1>1. items \in [1..N -> Keys]
    <2>1. CASE ScheduleAlgorithm = "random"
      <3>1. PICK p \in Shuffles : items = [i \in 1..N |-> Items[p[i]]]
        BY <2>1 DEF Init
      <3>2. \A i \in 1..N : p[i] \in 1..N
        BY DEF Shuffles
      <3>3. \A i \in 1..N : Items[p[i]] \in Keys
        BY <3>2 DEF Keys
      <3>4. QED
        BY <3>1, <3>3
    <2>2. CASE ScheduleAlgorithm # "random"
      BY <2>2, PoolAssumption DEF Init, N
    <2>3. QED
      BY <2>1, <2>2
  <1>2. QED
    BY <1>1, PoolAssumption DEF Init, TypeOK, Results

\* Every step keeps the pool well typed.
LEMMA TypeStep == TypeOK /\ [Next]_vars => TypeOK'
  <1> SUFFICES ASSUME TypeOK, [Next]_vars PROVE TypeOK'
    OBVIOUS
  <1>1. ASSUME NEW m \in CallModels, NextGranted(m) PROVE TypeOK'
    <2>1. PICK o \in Free(m) :
              /\ \A o2 \in Free(m) : o <= o2
              /\ LET k == items[Slot(o) + 1]
                     stamp == <<now, nreq>>
                 IN /\ index' = Advance(o)
                    /\ requests' = [requests EXCEPT ![k][ModelKey(m)] =
                                       Trim(@, RateLimitFor(m)) \cup {stamp}]
                    /\ result' = [model |-> m, pick |-> k]
                    /\ nreq' = nreq + 1
                    /\ hist' = [hist EXCEPT ![k][ModelKey(m)] = @ \cup {stamp}]
                    /\ skipped' = [j \in Keys |->
                                     IF j # k /\ ~IsRateLimited(j, m)
                                     THEN IF skipped[j] < N THEN skipped[j] + 1 ELSE N
                                     ELSE 0]
      BY <1>1 DEF NextGranted
    <2>2. o \in 0..N-1
      BY DEF Free
    <2>3. /\ Slot(o) + 1 \in 1..N
          /\ Advance(o) \in 0..N-1
      BY <2>2, SlotRange, PoolAssumption DEF TypeOK
    <2> DEFINE k == items[Slot(o) + 1]
    <2>4. k \in Keys
      BY <2>3 DEF TypeOK
    <2>5. ModelKey(m) \in ModelKeys
      BY DEF ModelKeys
    <2>6. nreq < MaxRequests
      BY <1>1 DEF NextGranted
    <2>7. <<now, nreq>> \in Stamp
      BY <2>6 DEF TypeOK, Stamp
    <2>8. requests[k][ModelKey(m)] \subseteq Stamp
      BY <2>4, <2>5 DEF TypeOK
    <2>9. Trim(requests[k][ModelKey(m)], RateLimitFor(m)) \subseteq Stamp
      BY <2>8 DEF Trim
    <2>10. hist[k][ModelKey(m)] \subseteq Stamp
      BY <2>4, <2>5 DEF TypeOK
    <2>11. requests' \in [Keys -> [ModelKeys -> SUBSET Stamp]]
      BY <2>1, <2>4, <2>5, <2>7, <2>9 DEF TypeOK
    <2>12. hist' \in [Keys -> [ModelKeys -> SUBSET Stamp]]
      BY <2>1, <2>4, <2>5, <2>7, <2>10 DEF TypeOK
    <2>13. skipped' \in [Keys -> 0..N]
      BY <2>1, PoolAssumption DEF TypeOK
    <2>14. result' \in Results
      BY <2>1, <2>4 DEF Results
    <2>15. UNCHANGED <<items, coolingUntil, now>>
      BY <1>1 DEF NextGranted
    <2>16. index' \in 0..N-1
      BY <2>1, <2>3
    <2>17. nreq' \in 0..MaxRequests
      BY <2>1, <2>6, PoolAssumption DEF TypeOK
    <2>18. QED
      BY <2>11, <2>12, <2>13, <2>14, <2>15, <2>16, <2>17 DEF TypeOK
  <1>2. ASSUME NEW m \in CallModels, NextRateLimited(m) PROVE TypeOK'
    <2>1. StartIndex \in 0..N-1
      BY StartRange, PoolAssumption DEF TypeOK
    <2>2. QED
      BY <1>2, <2>1, PoolAssumption DEF NextRateLimited, TypeOK, Results
  <1>3. ASSUME NEW k \in Keys \cup {NoKey}, NEW s \in CoolingTimes,
               SetCooling(k, s)
        PROVE TypeOK'
    <2>1. k \in Keys
      BY <1>3 DEF SetCooling
    <2>2. now + s \in Nat
      BY PoolAssumption DEF TypeOK
    <2>3. coolingUntil' \in [Keys -> Nat]
      BY <1>3, <2>1, <2>2 DEF SetCooling, TypeOK
    <2>4. QED
      BY <1>3, <2>3 DEF SetCooling, TypeOK
  <1>4. CASE Tick
    BY <1>4, PoolAssumption DEF Tick, TypeOK
  <1>5. CASE UNCHANGED vars
    BY <1>5 DEF vars, TypeOK
  <1>6. QED
    BY <1>1, <1>2, <1>3, <1>4, <1>5 DEF Next

\* Type correctness of the pool.
THEOREM TypeCorrect == Spec => []TypeOK
  BY TypeInit, TypeStep, PTL DEF Spec
-----------------------------------------------------------------------------
(* The rate limit.  RateLimitRespected is not inductive by itself: a grant *)
(* is checked against the trimmed list `requests`, while the property     *)
(* counts every grant in `hist`.  The strengthening says that every entry *)
(* is stamped with a time not after now and a number below nreq, that the *)
(* list is part of the history, and that what trimming dropped is older   *)
(* than every period of the model's limit list, so no window ending at or *)
(* after now can contain it.                                              *)

Stamped ==
    \A k \in Keys, mk \in ModelKeys :
        \A e \in hist[k][mk] : e[1] <= now /\ e[2] < nreq

LogInHist ==
    \A k \in Keys, mk \in ModelKeys : requests[k][mk] \subseteq hist[k][mk]

TrimmedOld ==
    \A k \in Keys, m \in CallModels :
        LET L == RateLimitFor(m)
        IN \A e \in hist[k][ModelKey(m)] \ requests[k][ModelKey(m)] :
              \A i \in DOMAIN L : e[1] <= now - L[i][2]

IInv == TypeOK /\ Stamped /\ LogInHist /\ TrimmedOld /\ RateLimitRespected

\* A non-empty set of naturals has a least element (used for the first
\* matching pattern in dict order).
LEMMA LeastElement ==
    ASSUME NEW T \in SUBSET Nat, T # {}
    PROVE  \E i \in T : \A j \in T : i <= j
  <1>1. IsWellFoundedOn(OpToRel(<, Nat), Nat)
    BY NatLessThanWellFounded
  <1>2. PICK x \in T : \A y \in T : ~(<<y, x>> \in OpToRel(<, Nat))
    BY <1>1, WFMin, Zenon
  <1>3. \A y \in T : ~(y < x)
    BY <1>2, Zenon DEF OpToRel
  <1>4. QED
    BY <1>3

\* Every model resolves to a list of <<count, period>> pairs.
LEMMA LimitsType ==
    ASSUME PoolAssumption, NEW m \in CallModels
    PROVE  RateLimitFor(m) \in LimitList
  <1>1. CASE m # NoModel /\ m \in DOMAIN RateLimits
    BY <1>1 DEF RateLimitFor
  <1>2. CASE ~(m # NoModel /\ m \in DOMAIN RateLimits) /\ MatchingPatterns(m) # {}
    <2>1. MatchingPatterns(m) \subseteq Nat
      BY PoolAssumption DEF MatchingPatterns
    <2>2. \E i \in MatchingPatterns(m) : \A j \in MatchingPatterns(m) : i <= j
      BY <1>2, <2>1, LeastElement
    <2>3. FirstMatch(m) \in 1..Len(Patterns)
      BY <2>2, Zenon DEF FirstMatch, MatchingPatterns
    <2>4. Patterns[FirstMatch(m)] \in DOMAIN RateLimits
      BY <2>3, PoolAssumption
    <2>5. QED
      BY <1>2, <2>4, PoolAssumption DEF RateLimitFor
  <1>3. CASE ~(m # NoModel /\ m \in DOMAIN RateLimits) /\ MatchingPatterns(m) = {}
             /\ "default" \in DOMAIN RateLimits
    BY <1>3, PoolAssumption DEF RateLimitFor
  <1>4. CASE ~(m # NoModel /\ m \in DOMAIN RateLimits) /\ MatchingPatterns(m) = {}
             /\ "default" \notin DOMAIN RateLimits
    <2>1. << <<999999, 60>> >> \in LimitList
      BY DEF LimitList
    <2>2. QED
      BY <1>4, <2>1 DEF RateLimitFor
  <1>5. QED
    BY <1>1, <1>2, <1>3, <1>4

\* Distinct call models keep their timestamps under distinct model keys.
LEMMA ModelKeyInjective ==
    ASSUME PoolAssumption, NEW m1 \in CallModels, NEW m2 \in CallModels,
           ModelKey(m1) = ModelKey(m2)
    PROVE  m1 = m2
  BY DEF ModelKey, CallModels

\* The stamps, and so every list and history of the pool, are finite.
LEMMA StampFinite ==
    ASSUME PoolAssumption
    PROVE  IsFiniteSet(Stamp)
  <1>1. IsFiniteSet(0..MaxTime) /\ IsFiniteSet(0..MaxRequests)
    BY FS_Interval, PoolAssumption
  <1>2. QED
    BY <1>1, FS_Product DEF Stamp

\* Reading a doubly indexed EXCEPT.
LEMMA ExceptAt ==
    ASSUME NEW f \in [Keys -> [ModelKeys -> SUBSET Stamp]],
           NEW k \in Keys, NEW mk \in ModelKeys, NEW v,
           NEW k2 \in Keys, NEW mk2 \in ModelKeys
    PROVE  [f EXCEPT ![k][mk] = v][k2][mk2] =
              IF k2 = k /\ mk2 = mk THEN v ELSE f[k2][mk2]
  OBVIOUS

\* A grant adds one stamp to a window: if the window as seen from now held
\* fewer than c entries of the list, and what the list lost is older than
\* the window, every window of the history still holds at most c entries.
\* The grants of a log that fall in the window of `p` seconds ending at t.
WinAt(X, p, t) == {e \in X : t - p < e[1] /\ e[1] <= t}

LEMMA WindowGrow ==
    ASSUME NEW H, IsFiniteSet(H), NEW R \in SUBSET H, NEW s, s \notin H,
           NEW t0 \in Int, NEW p \in Nat \ {0}, NEW c \in Nat, NEW t \in Int,
           s[1] = t0,
           \A e \in H : e[1] \in Int,
           \A e \in H \ R : e[1] <= t0 - p,
           Cardinality(Window(R, t0 - p)) < c,
           Cardinality(WinAt(H, p, t)) <= c
    PROVE  Cardinality(WinAt(H \cup {s}, p, t)) <= c
  <1> DEFINE W == WinAt(H, p, t)
             Wn == WinAt(H \cup {s}, p, t)
  <1>1. IsFiniteSet(W) /\ IsFiniteSet(Window(R, t0 - p))
    BY FS_Subset DEF Window, WinAt
  <1>2. Cardinality(W) \in Nat
    BY <1>1, FS_CardinalityType
  <1>3. CASE t < t0
    <2>1. ~(s[1] <= t)
      BY <1>3
    <2>2. Wn = W
      BY <2>1, Zenon DEF WinAt
    <2>3. QED
      BY <2>2
  <1>4. CASE t >= t0
    <2>1. W \subseteq Window(R, t0 - p)
      BY <1>4 DEF Window, WinAt
    <2>2. Cardinality(W) < c
      <3>1. Cardinality(W) <= Cardinality(Window(R, t0 - p))
        BY <1>1, <2>1, FS_Subset
      <3>2. Cardinality(Window(R, t0 - p)) \in Nat
        BY <1>1, FS_CardinalityType
      <3>3. QED
        BY <1>2, <3>1, <3>2
    <2>3. IsFiniteSet(W \cup {s}) /\ Cardinality(W \cup {s}) <= Cardinality(W) + 1
      <3>1. s \notin W
        BY DEF WinAt
      <3>2. /\ IsFiniteSet(W \cup {s})
            /\ Cardinality(W \cup {s}) =
                 IF s \in W THEN Cardinality(W) ELSE Cardinality(W) + 1
        BY <1>1, FS_AddElement, Zenon
      <3>3. QED
        BY <1>2, <3>1, <3>2
    <2>4. Wn \subseteq W \cup {s}
      BY DEF WinAt
    <2>5. Cardinality(Wn) <= Cardinality(W \cup {s})
      BY <2>3, <2>4, FS_Subset DEF WinAt
    <2>6. IsFiniteSet(Wn)
      BY <2>3, <2>4, FS_Subset DEF WinAt
    <2>7. Cardinality(Wn) \in Nat /\ Cardinality(W \cup {s}) \in Nat
      BY <2>3, <2>6, FS_CardinalityType
    <2>8. QED
      BY <1>2, <2>2, <2>3, <2>5, <2>7
  <1>5. QED
    BY <1>3, <1>4

\* A grant (next returning a key) keeps the strengthened invariant: the new
\* stamp is the newest and has a fresh number, trimming only drops what no
\* period of the model can still see, and the limit check before the append
\* leaves room for it in every window.
LEMMA GrantedStep ==
    ASSUME PoolAssumption, IInv, NEW m \in CallModels, NextGranted(m)
    PROVE  IInv'
  <1>1. TypeOK'
    BY TypeStep DEF IInv, Next
  <1>2. PICK o \in Free(m) :
            /\ \A o2 \in Free(m) : o <= o2
            /\ LET k == items[Slot(o) + 1]
                   stamp == <<now, nreq>>
               IN /\ index' = Advance(o)
                  /\ requests' = [requests EXCEPT ![k][ModelKey(m)] =
                                     Trim(@, RateLimitFor(m)) \cup {stamp}]
                  /\ result' = [model |-> m, pick |-> k]
                  /\ nreq' = nreq + 1
                  /\ hist' = [hist EXCEPT ![k][ModelKey(m)] = @ \cup {stamp}]
                  /\ skipped' = [j \in Keys |->
                                   IF j # k /\ ~IsRateLimited(j, m)
                                   THEN IF skipped[j] < N THEN skipped[j] + 1 ELSE N
                                   ELSE 0]
    BY Zenon DEF NextGranted
  <1> DEFINE k == items[Slot(o) + 1]
             mk == ModelKey(m)
             stamp == <<now, nreq>>
             L == RateLimitFor(m)
             R == requests[k][mk]
             H == hist[k][mk]
  <1>3. /\ k \in Keys /\ mk \in ModelKeys
        /\ now' = now /\ nreq' = nreq + 1
        /\ nreq \in Nat /\ now \in Nat
    <2>0. o \in 0..N-1
      BY DEF Free
    <2>1. Slot(o) + 1 \in 1..N
      BY <2>0, SlotRange, PoolAssumption DEF TypeOK, IInv
    <2>2. QED
      BY <2>1, <1>2, PoolAssumption DEF TypeOK, IInv, ModelKeys, NextGranted
  <1>4. /\ requests' = [requests EXCEPT ![k][mk] = Trim(R, L) \cup {stamp}]
        /\ hist' = [hist EXCEPT ![k][mk] = H \cup {stamp}]
    BY <1>2, <1>3 DEF IInv, TypeOK
  <1>5. ASSUME NEW k2 \in Keys, NEW mk2 \in ModelKeys
        PROVE  /\ requests'[k2][mk2] =
                    IF k2 = k /\ mk2 = mk THEN Trim(R, L) \cup {stamp}
                    ELSE requests[k2][mk2]
               /\ hist'[k2][mk2] =
                    IF k2 = k /\ mk2 = mk THEN H \cup {stamp} ELSE hist[k2][mk2]
    BY <1>3, <1>4, ExceptAt DEF IInv, TypeOK
  <1>6. ~OverLimit(k, m)
    BY DEF Free, IsRateLimited
  <1>7. stamp \notin H
    BY <1>3 DEF IInv, Stamped
  <1>8. L \in LimitList
    BY LimitsType, PoolAssumption
  <1>9. Stamped'
    <2> SUFFICES ASSUME NEW k2 \in Keys, NEW mk2 \in ModelKeys,
                        NEW e \in hist'[k2][mk2]
                 PROVE  e[1] <= now' /\ e[2] < nreq'
      BY DEF Stamped
    <2>1. CASE k2 = k /\ mk2 = mk /\ e = stamp
      BY <2>1, <1>3
    <2>2. CASE ~(k2 = k /\ mk2 = mk /\ e = stamp)
      <3>1. e \in hist[k2][mk2] /\ hist[k2][mk2] \subseteq Stamp
        BY <2>2, <1>5 DEF IInv, TypeOK
      <3>2. e[1] <= now /\ e[2] < nreq /\ e[2] \in Nat
        BY <3>1 DEF IInv, Stamped, Stamp
      <3>3. QED
        BY <3>2, <1>3
    <2>3. QED
      BY <2>1, <2>2
  <1>10. LogInHist'
    <2> SUFFICES ASSUME NEW k2 \in Keys, NEW mk2 \in ModelKeys
                 PROVE  requests'[k2][mk2] \subseteq hist'[k2][mk2]
      BY DEF LogInHist
    <2>1. Trim(R, L) \subseteq R /\ R \subseteq H
      BY <1>3 DEF Trim, IInv, LogInHist
    <2>2. QED
      BY <2>1, <1>5 DEF IInv, LogInHist
  <1>11. TrimmedOld'
    <2> SUFFICES ASSUME NEW k2 \in Keys, NEW m2 \in CallModels,
                        NEW e \in hist'[k2][ModelKey(m2)] \ requests'[k2][ModelKey(m2)],
                        NEW i \in DOMAIN RateLimitFor(m2)
                 PROVE  e[1] <= now' - RateLimitFor(m2)[i][2]
      BY DEF TrimmedOld
    <2>1. ModelKey(m2) \in ModelKeys
      BY DEF ModelKeys
    <2>2. CASE k2 = k /\ ModelKey(m2) = mk
      <3>1. m2 = m
        BY <2>2, ModelKeyInjective, PoolAssumption
      <3>2. e \in H /\ e \notin Trim(R, L)
        BY <1>5, <2>1, <2>2
      <3>3. CASE e \in R
        <4>1. \A j \in DOMAIN L : ~(e[1] > now - L[j][2])
          BY <3>2, <3>3 DEF Trim
        <4>2. e[1] \in Nat
          <5>1. H \subseteq Stamp
            BY <1>3 DEF IInv, TypeOK
          <5>2. QED
            BY <5>1, <3>2 DEF Stamp
        <4>3. i \in DOMAIN L
          BY <3>1
        <4>4. L[i][2] \in Nat
          BY <4>3, <1>8 DEF LimitList
        <4>5. QED
          BY <3>1, <4>1, <4>2, <4>3, <4>4, <1>3
      <3>4. CASE e \notin R
        <4>1. e \in hist[k][mk] \ requests[k][mk]
          BY <3>2, <3>4
        <4>2. \A j \in DOMAIN L : e[1] <= now - L[j][2]
          BY <4>1, <1>3, Zenon DEF IInv, TrimmedOld
        <4>3. QED
          BY <4>2, <3>1, <1>3
      <3>5. QED
        BY <3>3, <3>4
    <2>3. CASE ~(k2 = k /\ ModelKey(m2) = mk)
      <3>1. e \in hist[k2][ModelKey(m2)] \ requests[k2][ModelKey(m2)]
        BY <2>1, <2>3, <1>5
      <3>2. \A j \in DOMAIN RateLimitFor(m2) : e[1] <= now - RateLimitFor(m2)[j][2]
        BY <3>1, Zenon DEF IInv, TrimmedOld
      <3>3. QED
        BY <3>2, <1>3
    <2>4. QED
      BY <2>2, <2>3
  <1>12. RateLimitRespected'
    <2> SUFFICES ASSUME NEW k2 \in Keys, NEW m2 \in CallModels,
                        NEW i \in DOMAIN RateLimitFor(m2), NEW t \in 0..MaxTime
                 PROVE  Cardinality({e \in hist'[k2][ModelKey(m2)] :
                                       /\ t - RateLimitFor(m2)[i][2] < e[1]
                                       /\ e[1] <= t}) <= RateLimitFor(m2)[i][1]
      BY Zenon DEF RateLimitRespected
    <2>1. ModelKey(m2) \in ModelKeys
      BY DEF ModelKeys
    <2>2. CASE k2 = k /\ ModelKey(m2) = mk
      <3>1. m2 = m
        BY <2>2, ModelKeyInjective, PoolAssumption
      <3>2. hist'[k2][ModelKey(m2)] = H \cup {stamp}
        BY <1>5, <2>1, <2>2
      <3>3. H \subseteq Stamp /\ R \subseteq H
        BY <1>3 DEF IInv, TypeOK, LogInHist
      <3>4. IsFiniteSet(H) /\ IsFiniteSet(Window(R, now - L[i][2]))
        <4>1. IsFiniteSet(Stamp)
          BY StampFinite, PoolAssumption
        <4>2. IsFiniteSet(H)
          BY <3>3, <4>1, FS_Subset
        <4>3. Window(R, now - L[i][2]) \subseteq H
          BY <3>3 DEF Window
        <4>4. QED
          BY <4>2, <4>3, FS_Subset
      <3>5. L[i][2] \in Nat \ {0} /\ L[i][1] \in Nat
        BY <3>1, <1>8 DEF LimitList
      <3>6. \A e \in H : e[1] \in Int
        BY <3>3 DEF Stamp
      <3>7. \A e \in H \ R : e[1] <= now - L[i][2]
        BY <3>1, <1>3 DEF IInv, TrimmedOld
      <3>8. Cardinality(Window(R, now - L[i][2])) < L[i][1]
        <4>1. Cardinality(Window(R, now - L[i][2])) \in Nat
          BY <3>4, FS_CardinalityType
        <4>2. ~(Cardinality(Window(R, now - L[i][2])) >= L[i][1])
          BY <1>6, <3>1 DEF OverLimit
        <4>3. QED
          BY <4>1, <4>2, <3>5
      <3>9. Cardinality({e \in H : t - L[i][2] < e[1] /\ e[1] <= t}) <= L[i][1]
        BY <3>1, <1>3, Zenon DEF IInv, RateLimitRespected
      <3>10. Cardinality({e \in H \cup {stamp} : t - L[i][2] < e[1] /\ e[1] <= t})
               <= L[i][1]
        <4>1. t \in Int /\ now \in Int /\ stamp[1] = now
          BY <1>3
        <4>2. Cardinality(WinAt(H, L[i][2], t)) <= L[i][1]
          BY <3>9 DEF WinAt
        <4>3. Cardinality(WinAt(H \cup {stamp}, L[i][2], t)) <= L[i][1]
          BY <3>3, <3>4, <3>5, <3>6, <3>7, <3>8, <4>1, <4>2, <1>7, WindowGrow, Zenon
        <4>4. QED
          BY <4>3 DEF WinAt
      <3>11. QED
        BY <3>1, <3>2, <3>10
    <2>3. CASE ~(k2 = k /\ ModelKey(m2) = mk)
      <3>1. hist'[k2][ModelKey(m2)] = hist[k2][ModelKey(m2)]
        BY <2>1, <2>3, <1>5
      <3>2. QED
        BY <3>1, Zenon DEF IInv, RateLimitRespected
    <2>4. QED
      BY <2>2, <2>3
  <1>13. QED
    BY <1>1, <1>9, <1>10, <1>11, <1>12 DEF IInv

\* The initial state: no request has been recorded yet.
LEMMA IInvInit == Init => IInv
  <1> SUFFICES ASSUME Init PROVE IInv
    OBVIOUS
  <1> USE PoolAssumption
  <1>1. TypeOK
    BY TypeInit
  <1>2. \A k \in Keys, mk \in ModelKeys : hist[k][mk] = {} /\ requests[k][mk] = {}
    BY DEF Init
  <1>3. Stamped /\ LogInHist /\ TrimmedOld
    BY <1>2 DEF Stamped, LogInHist, TrimmedOld, ModelKeys
  <1>4. RateLimitRespected
    <2> SUFFICES ASSUME NEW k \in Keys, NEW m \in CallModels,
                        NEW i \in DOMAIN RateLimitFor(m), NEW t \in 0..MaxTime
                 PROVE  Cardinality(WinAt(hist[k][ModelKey(m)],
                                          RateLimitFor(m)[i][2], t))
                          <= RateLimitFor(m)[i][1]
      BY DEF RateLimitRespected, WinAt
    <2>0. hist[k][ModelKey(m)] = {}
      BY <1>2 DEF ModelKeys
    <2>1. WinAt(hist[k][ModelKey(m)], RateLimitFor(m)[i][2], t) = {}
      BY <2>0 DEF WinAt
    <2>2. RateLimitFor(m)[i][1] \in Nat
      BY LimitsType, PoolAssumption DEF LimitList
    <2>3. QED
      BY <2>1, <2>2, FS_EmptySet
  <1>5. QED
    BY <1>1, <1>3, <1>4 DEF IInv

\* A refusal (429), set_cooling and the clock leave every log alone; the
\* clock only moves the windows forward, which TrimmedOld tolerates.
LEMMA OtherSteps ==
    ASSUME PoolAssumption, IInv,
           \/ \E m \in CallModels : NextRateLimited(m)
           \/ \E k \in Keys \cup {NoKey}, s \in CoolingTimes : SetCooling(k, s)
           \/ Tick
           \/ UNCHANGED vars
    PROVE  IInv'
  <1>1. TypeOK'
    BY TypeStep DEF IInv, Next
  <1>2. /\ hist' = hist /\ requests' = requests /\ nreq' = nreq
        /\ now' \in {now, now + 1}
    BY DEF NextRateLimited, SetCooling, Tick, vars
  <1>3. now \in Nat /\ nreq \in Nat
    BY PoolAssumption DEF IInv, TypeOK
  <1>4. Stamped'
    BY <1>2, <1>3 DEF IInv, Stamped, TypeOK, Stamp
  <1>5. LogInHist'
    BY <1>2 DEF IInv, LogInHist
  <1>6. TrimmedOld'
    <2> SUFFICES ASSUME NEW k \in Keys, NEW m \in CallModels,
                        NEW e \in hist[k][ModelKey(m)] \ requests[k][ModelKey(m)],
                        NEW i \in DOMAIN RateLimitFor(m)
                 PROVE  e[1] <= now' - RateLimitFor(m)[i][2]
      BY <1>2, Zenon DEF TrimmedOld
    <2>1. e[1] <= now - RateLimitFor(m)[i][2]
      BY Zenon DEF IInv, TrimmedOld
    <2>2. e[1] \in Nat /\ RateLimitFor(m)[i][2] \in Nat
      <3>1. ModelKey(m) \in ModelKeys
        BY DEF ModelKeys
      <3>2. e \in Stamp
        BY <3>1 DEF IInv, TypeOK
      <3>3. QED
        BY <3>2, LimitsType, PoolAssumption DEF Stamp, LimitList
    <2>3. QED
      BY <1>2, <1>3, <2>1, <2>2
  <1>7. RateLimitRespected'
    BY <1>2, Zenon DEF IInv, RateLimitRespected
  <1>8. QED
    BY <1>1, <1>4, <1>5, <1>6, <1>7 DEF IInv

\* Every step keeps the strengthened invariant.
LEMMA IInvStep == IInv /\ [Next]_vars => IInv'
  <1> SUFFICES ASSUME IInv, [Next]_vars PROVE IInv'
    OBVIOUS
  <1> USE PoolAssumption
  <1>1. CASE \E m \in CallModels : NextGranted(m)
    BY <1>1, GrantedStep
  <1>2. CASE ~\E m \in CallModels : NextGranted(m)
    BY <1>2, OtherSteps DEF Next
  <1>3. QED
    BY <1>1, <1>2

\* Spec 8.1 for every pool: however the grants, refusals, cooling periods
\* and clock ticks of next()/set_cooling interleave, and whatever the limit
\* lists of the models, no window holds more grants than its count.
THEOREM RateLimitSafe == Spec => []RateLimitRespected
  <1>1. Init => IInv
    BY IInvInit
  <1>2. IInv /\ [Next]_vars => IInv'
    BY IInvStep
  <1>3. IInv => RateLimitRespected
    BY DEF IInv
  <1>4. QED
    BY <1>1, <1>2, <1>3, PTL DEF Spec
=============================================================================
