----------------------------- MODULE PoolAbstract -----------------------------
(***************************************************************************)
(* What the credential pool promises its callers (spec 3, invariant (i),   *)
(* and 4.1), without the mechanism: no index, no scan order, no trimmed    *)
(* lists.  A grant may hand out ANY key that is not cooling and whose      *)
(* every <<count, period>> window, counted over all grants ever made to it *)
(* for the model, has room; a refusal (429) happens only when no key has   *)
(* room.  set_cooling and the clock are as in the code.                    *)
(*                                                                         *)
(* CredentialPool refines this module (PoolRefinesAbstract, proved in    *)
(* PoolRefinementProofs); the order of the scan, round robin or fixed    *)
(* priority, is what the detailed module adds.                           *)
(***************************************************************************)
EXTENDS Integers, FiniteSets

CONSTANTS
    Keys,         \* the credentials of the pool
    CallModels,   \* the arguments next() may get
    Limits,       \* model -> its list of <<count, period>> pairs
    ModelKeyOf,   \* model -> the key its timestamps are kept under
    CoolingTimes, \* cooling_time arguments of set_cooling
    NoKey,        \* set_cooling(None)
    RateLimited,  \* the 429 refusal
    NoResult,     \* nothing returned yet
    MaxTime,      \* bound on the clock
    MaxRequests   \* bound on the number of grants

VARIABLES
    hist,          \* key -> model key -> every grant, as <<time, number>>
    coolingUntil,  \* key -> the time its cooling ends
    now,           \* the clock
    result,        \* what the last call of next returned
    nreq           \* grants so far

avars == <<hist, coolingUntil, now, result, nreq>>

\* The grants of k for m in the last `period` seconds.
Recent(k, m, period) == {e \in hist[k][ModelKeyOf[m]] : e[1] > now - period}

\* k may serve m now: not cooling, and room left in every window.
HasRoom(k, m) ==
    /\ ~(now < coolingUntil[k])
    /\ \A i \in DOMAIN Limits[m] :
          Cardinality(Recent(k, m, Limits[m][i][2])) < Limits[m][i][1]

Init ==
    /\ hist = [k \in Keys |-> [mk \in {ModelKeyOf[m] : m \in CallModels} |-> {}]]
    /\ coolingUntil = [k \in Keys |-> 0]
    /\ now = 0
    /\ result = NoResult
    /\ nreq = 0

\* next(m) hands out some key with room and records the grant.
Grant(m, k) ==
    /\ nreq < MaxRequests
    /\ HasRoom(k, m)
    /\ hist' = [hist EXCEPT ![k][ModelKeyOf[m]] = @ \cup {<<now, nreq>>}]
    /\ result' = [model |-> m, pick |-> k]
    /\ nreq' = nreq + 1
    /\ UNCHANGED <<coolingUntil, now>>

\* next(m) refuses only when no key has room.
Refuse(m) ==
    /\ \A k \in Keys : ~HasRoom(k, m)
    /\ result' = [model |-> m, pick |-> RateLimited]
    /\ UNCHANGED <<hist, coolingUntil, now, nreq>>

Cool(k, s) ==
    /\ k # NoKey
    /\ coolingUntil' = [coolingUntil EXCEPT ![k] = now + s]
    /\ UNCHANGED <<hist, now, result, nreq>>

Tick ==
    /\ now < MaxTime
    /\ now' = now + 1
    /\ UNCHANGED <<hist, coolingUntil, result, nreq>>

Next ==
    \/ \E m \in CallModels : Refuse(m) \/ \E k \in Keys : Grant(m, k)
    \/ \E k \in Keys \cup {NoKey}, s \in CoolingTimes : Cool(k, s)
    \/ Tick

Spec == Init /\ [][Next]_avars
=============================================================================
