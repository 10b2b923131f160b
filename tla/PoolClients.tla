------------------------------ MODULE PoolClients ------------------------------
(***************************************************************************)
(* Request tasks sharing one credential pool.  Each task calls next(model) *)
(* and, at a later suspension point of its own (the upstream request it    *)
(* makes with the key), asks after_next_current() which key it was given,  *)
(* as the comment of after_next_current promises ("next has been called,   *)
(* so the current key is the previous one").  Other tasks, set_cooling and *)
(* the clock may run in between; each pool call is one atomic step under   *)
(* the lock, as in CredentialPool.                                         *)
(***************************************************************************)
EXTENDS CredentialPool

CONSTANTS
    Tasks,   \* concurrent request tasks
    NoCall   \* a task that has not made the call yet

VARIABLES
    got,     \* task -> the key its next() returned, or RateLimited
    current  \* task -> what its after_next_current() returned

cvars == <<vars, got, current>>

Init2 ==
    /\ Init
    /\ got = [t \in Tasks |-> NoCall]
    /\ current = [t \in Tasks |-> NoCall]

\* The task's await pool.next(model): a grant or a 429.
TaskNext(t, m) ==
    /\ got[t] = NoCall
    /\ NextGranted(m) \/ NextRateLimited(m)
    /\ got' = [got EXCEPT ![t] = result'.pick]
    /\ UNCHANGED current

\* The task's await pool.after_next_current() after a grant.
TaskCurrent(t) ==
    /\ got[t] \in Keys
    /\ current[t] = NoCall
    /\ current' = [current EXCEPT ![t] = AfterNextCurrent]
    /\ UNCHANGED <<vars, got>>

Next2 ==
    \/ \E t \in Tasks, m \in CallModels : TaskNext(t, m)
    \/ \E t \in Tasks : TaskCurrent(t)
    \/ /\ \E k \in Keys \cup {NoKey}, s \in CoolingTimes : SetCooling(k, s)
       /\ UNCHANGED <<got, current>>
    \/ Tick /\ UNCHANGED <<got, current>>

Spec2 == Init2 /\ [][Next2]_cvars

\* The comment of after_next_current (utils.py 176): a task that got a key
\* from next() is told that key by after_next_current().  The index it
\* reads is shared, so another task's next() in between moves it.
CurrentIsOwnKey ==
    \A t \in Tasks : current[t] \in Keys => current[t] = got[t]
=============================================================================
