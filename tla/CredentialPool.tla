---------------------------- MODULE CredentialPool ----------------------------
(***************************************************************************)
(* The credential pool of src/utils.py: class ThreadSafeCircularList.      *)
(*                                                                         *)
(* A pool holds the API keys of one provider in a circular list.  next()   *)
(* scans the list from the current index (from 0 under fixed_priority) and *)
(* returns the first key that is neither cooling nor over one of the rate  *)
(* limits of the requested model, recording a request timestamp for it;    *)
(* after a full pass it raises HTTP 429.  set_cooling() excludes a key     *)
(* until a given time.  Both run under one asyncio.Lock and contain no     *)
(* suspension point after the lock is taken, so each is one atomic step;   *)
(* any number of request tasks may call them in any order.                 *)
(*                                                                         *)
(* Time is whole seconds (the code's float time() coarsened to a tick).    *)
(* The per-(key, model) list of timestamps is a set of entries             *)
(* <<t, n>>: t is the timestamp and n the pool-wide number of the request, *)
(* which only keeps two requests recorded in the same second apart, as the *)
(* two list cells are apart in the code.                                   *)
(***************************************************************************)
EXTENDS Integers, Sequences, FiniteSets

CONSTANTS
    Items,        \* the `items` list given to the constructor
    Algorithm,    \* the `schedule_algorithm` argument
    Models,       \* model names a caller may pass to next(model)
    NoModel,      \* next(model=None)
    Patterns,     \* the keys of the `rate_limit` dict, in insertion order
    RateLimits,   \* pattern -> parse_rate_limit(value): <<count, period>> list
    SubstringOf,  \* pairs <<p, m>> such that the string p occurs in m
    CoolingTimes, \* cooling_time arguments of set_cooling
    NoKey,        \* set_cooling(None)
    RateLimited,  \* the HTTPException(429) raised by next
    NoResult,     \* no call of next has returned yet
    MaxTime,      \* bound on the clock
    MaxRequests   \* bound on the number of requests the pool records

N == Len(Items)
Keys == {Items[i] : i \in 1..N}
CallModels == Models \cup {NoModel}
LimitList == Seq(Nat \X (Nat \ {0}))

ASSUME PoolAssumption ==
    /\ N \in Nat \ {0}
    /\ Items \in Seq(Keys)
    /\ \A i, j \in 1..N : Items[i] = Items[j] => i = j
    /\ "default" \notin Models /\ NoModel \notin Models
    /\ NoKey \notin Keys
    /\ Patterns \in Seq(DOMAIN RateLimits)
    /\ \A p \in DOMAIN RateLimits : \E i \in 1..Len(Patterns) : Patterns[i] = p
    /\ \A p \in DOMAIN RateLimits : RateLimits[p] \in LimitList /\ RateLimits[p] # << >>
    /\ SubstringOf \subseteq (DOMAIN RateLimits) \X Models
    /\ CoolingTimes \subseteq Nat
    /\ MaxTime \in Nat /\ MaxRequests \in Nat

VARIABLES
    items,         \* self.items (shuffled once by the constructor under random)
    index,         \* self.index
    requests,      \* self.requests[item][model_key], trimmed lazily
    coolingUntil,  \* self.cooling_until[item]
    now,           \* time()
    result,        \* what the last call of next returned or raised
    nreq,          \* number of requests recorded so far
    \* Auxiliary (history) variables, not program state:
    hist,          \* every timestamp ever recorded, never trimmed
    skipped        \* grants in a row for which a key was free but not chosen

vars == <<items, index, requests, coolingUntil, now, result, nreq, hist, skipped>>

-----------------------------------------------------------------------------
(* Derived parts of the constructor and of is_rate_limited.                *)

\* __init__: an unknown algorithm is logged and replaced by round_robin.
ScheduleAlgorithm ==
    IF Algorithm \in {"round_robin", "random", "fixed_priority"}
    THEN Algorithm ELSE "round_robin"

\* random.sample(items, len(items)): any ordering of the list.
Shuffles == {p \in [1..N -> 1..N] : \A j \in 1..N : \E i \in 1..N : p[i] = j}

\* model_key: the model name, or "default" when next() got no model.
ModelKey(m) == IF m = NoModel THEN "default" ELSE m
ModelKeys == {ModelKey(m) : m \in CallModels}

\* The limit list of a model: exact pattern, else the first other pattern
\* (dict order) contained in the name, else "default", else 999999/60s.
MatchingPatterns(m) ==
    {i \in 1..Len(Patterns) : /\ Patterns[i] # "default" /\ m # NoModel
                             /\ <<Patterns[i], m>> \in SubstringOf}

FirstMatch(m) ==
    CHOOSE i \in MatchingPatterns(m) : \A j \in MatchingPatterns(m) : i <= j

RateLimitFor(m) ==
    IF m # NoModel /\ m \in DOMAIN RateLimits THEN RateLimits[m]
    ELSE IF MatchingPatterns(m) # {} THEN RateLimits[Patterns[FirstMatch(m)]]
    ELSE IF "default" \in DOMAIN RateLimits THEN RateLimits["default"]
    ELSE << <<999999, 60>> >>

\* The recorded requests strictly newer than lo (req > now - period).
Window(log, lo) == {e \in log : e[1] > lo}

Cooling(k) == now < coolingUntil[k]

OverLimit(k, m) ==
    LET L == RateLimitFor(m)
    IN \E i \in DOMAIN L :
          Cardinality(Window(requests[k][ModelKey(m)], now - L[i][2])) >= L[i][1]

IsRateLimited(k, m) == Cooling(k) \/ OverLimit(k, m)

\* Mutant: trimming by the shortest period instead of the longest.
TrimShortest(log, L) == {e \in log : \A i \in DOMAIN L : e[1] > now - L[i][2]}

\* Drop the timestamps older than the longest period of the list: a
\* timestamp newer than now - max_period is newer than now - period for
\* some period of the list, and conversely.
Trim(log, L) == {e \in log : \E i \in DOMAIN L : e[1] > now - L[i][2]}

\* Mutant: fixed_priority forgets to reset the index to 0.
StartIndexNoReset == index

\* next(): where the scan starts, the slot it visits o-th, and the offsets
\* of the slots whose key is free for model m.
StartIndex == IF ScheduleAlgorithm = "fixed_priority" THEN 0 ELSE index
Slot(o) == (StartIndex + o) % N
Free(m) == {o \in 0..N-1 : ~IsRateLimited(items[Slot(o) + 1], m)}

\* Mutants: the index checked before it is advanced, so a returned key is
\* not passed; the advance without the wrap modulo len(items).
AdvanceStay(o) == Slot(o)
AdvanceNoWrap(o) == Slot(o) + 1

\* self.index = (self.index + 1) % len(self.items) for the returned slot.
Advance(o) == (Slot(o) + 1) % N

-----------------------------------------------------------------------------
(* The operations.                                                         *)

Init ==
    /\ IF ScheduleAlgorithm = "random"
       THEN \E p \in Shuffles : items = [i \in 1..N |-> Items[p[i]]]
       ELSE items = Items
    /\ index = 0
    /\ requests = [k \in Keys |-> [mk \in ModelKeys |-> {}]]
    /\ coolingUntil = [k \in Keys |-> 0]
    /\ now = 0
    /\ result = NoResult
    /\ nreq = 0
    /\ hist = [k \in Keys |-> [mk \in ModelKeys |-> {}]]
    /\ skipped = [k \in Keys |-> 0]

\* next(model) returning the key of the first free slot o: the index moves
\* past it and is_rate_limited appends the timestamp after trimming.
NextGranted(m) ==
    /\ nreq < MaxRequests
    /\ \E o \in Free(m) :
        /\ \A o2 \in Free(m) : o <= o2
        /\ LET k == items[Slot(o) + 1]
               stamp == <<now, nreq>>
           IN /\ index' = Advance(o)
              /\ requests' = [requests EXCEPT ![k][ModelKey(m)] =
                                 Trim(@, RateLimitFor(m)) \cup {stamp}]
              /\ result' = [model |-> m, pick |-> k]
              /\ nreq' = nreq + 1
              /\ hist' = [hist EXCEPT ![k][ModelKey(m)] = @ \cup {stamp}]
              /\ skipped' = [j \in Keys |->
                               IF j # k /\ ~IsRateLimited(j, m)
                               THEN IF skipped[j] < N THEN skipped[j] + 1 ELSE N
                               ELSE 0]
    /\ UNCHANGED <<items, coolingUntil, now>>

\* next(model) after a full pass over limited keys: the index is back where
\* the scan started and HTTPException(429) is raised.
NextRateLimited(m) ==
    /\ Free(m) = {}
    /\ index' = StartIndex
    /\ result' = [model |-> m, pick |-> RateLimited]
    /\ skipped' = [j \in Keys |-> 0]
    /\ UNCHANGED <<items, requests, coolingUntil, now, nreq, hist>>

\* set_cooling(item, cooling_time); set_cooling(None) returns at once.
SetCooling(k, s) ==
    /\ k # NoKey
    /\ coolingUntil' = [coolingUntil EXCEPT ![k] = now + s]
    /\ UNCHANGED <<items, index, requests, now, result, nreq, hist, skipped>>

\* The clock advances.
Tick ==
    /\ now < MaxTime
    /\ now' = now + 1
    /\ UNCHANGED <<items, index, requests, coolingUntil, result, nreq, hist, skipped>>

Next ==
    \/ \E m \in CallModels : NextGranted(m) \/ NextRateLimited(m)
    \/ \E k \in Keys \cup {NoKey}, s \in CoolingTimes : SetCooling(k, s)
    \/ Tick

Spec == Init /\ [][Next]_vars

\* after_next_current(): the key before the index (a read, no state change).
AfterNextCurrent == items[((index - 1) % N) + 1]

\* The promise of the pool, with the limit list and model key of every model
\* as this pool resolves them; the history, cooling map, clock, last result
\* and grant count are shared by name.
PA == INSTANCE PoolAbstract WITH
          Limits <- [m \in CallModels |-> RateLimitFor(m)],
          ModelKeyOf <- [m \in CallModels |-> ModelKey(m)]

-----------------------------------------------------------------------------
(* Properties.                                                             *)

Stamp == (0..MaxTime) \X (0..MaxRequests)
Results == [model : CallModels, pick : Keys \cup {RateLimited}] \cup {NoResult}

TypeOK ==
    /\ items \in [1..N -> Keys]
    /\ index \in 0..N-1
    /\ requests \in [Keys -> [ModelKeys -> SUBSET Stamp]]
    /\ coolingUntil \in [Keys -> Nat]
    /\ now \in 0..MaxTime
    /\ result \in Results
    /\ nreq \in 0..MaxRequests
    /\ hist \in [Keys -> [ModelKeys -> SUBSET Stamp]]
    /\ skipped \in [Keys -> 0..N]

\* Spec 8.1, the rate limit of next()/is_rate_limited: for every key, model
\* and limit <<count, period>> of that model, no window of `period` seconds
\* ever holds more than `count` requests granted to the key for the model,
\* counting requests the lazy trimming has since dropped.
RateLimitRespected ==
    \A k \in Keys, m \in CallModels :
        LET L == RateLimitFor(m)
        IN \A i \in DOMAIN L, t \in 0..MaxTime :
              Cardinality({e \in hist[k][ModelKey(m)] :
                             t - L[i][2] < e[1] /\ e[1] <= t}) <= L[i][1]

\* Spec 8.2, round-robin fairness of next() (round_robin and random): a key
\* that is free at N grants in a row is handed out by one of them, however
\* the skipped slots, the index wrap-around, several models and cooling
\* interleave.
RoundRobinNoStarvation ==
    ScheduleAlgorithm # "fixed_priority" => \A k \in Keys : skipped[k] < N

\* next()/set_cooling implement the abstract pool: every grant of the scan
\* is a key the full history and the cooling map allow, and every 429 comes
\* when no key is allowed, although is_rate_limited only sees the trimmed
\* lists and the scan looks at the keys in its own order.
PoolRefinesAbstract == PA!Spec

\* Position of a key in the list.
PosOf(k) == CHOOSE i \in 1..N : items[i] = k

\* Spec 8.3, fixed_priority in next(): a grant hands out a key that was
\* free, and every key before it in the list was limited at that moment.
FixedPriorityPicksLowest ==
    [][ (ScheduleAlgorithm = "fixed_priority" /\ nreq' = nreq + 1) =>
          LET k == result'.pick
              m == result'.model
          IN /\ ~IsRateLimited(k, m)
             /\ \A i \in 1..PosOf(k) - 1 : IsRateLimited(items[i], m) ]_vars
=============================================================================
