--------------------------- MODULE StreamMuxProofs ---------------------------
(* Proofs about one streaming request (StreamMux) for every bound on the   *)
(* text lines and heartbeats and every set of text kinds satisfying        *)
(* StreamAssumption.                                                       *)
EXTENDS StreamMux, SequenceTheorems, FiniteSetTheorems, TLAPS

-----------------------------------------------------------------------------
(* The exit of the multiplexer.                                            *)

\* The adapter is closed only by the finally block, and once the
\* multiplexer has exited no task is restarted and the producer stays
\* cancelled.
ExitInv ==
    /\ mux # "exited" => closes = 0
    /\ CleanupOnExit

LEMMA ExitInit == Init => ExitInv
  BY DEF Init, ExitInv, CleanupOnExit

LEMMA ExitStep == ExitInv /\ [Next]_vars => ExitInv'
  <1> SUFFICES ASSUME ExitInv, [Next]_vars PROVE ExitInv'
    OBVIOUS
  <1>1. CASE Arm
    BY <1>1 DEF Arm, ExitInv, CleanupOnExit
  <1>2. CASE AdapterNext
    BY <1>2 DEF AdapterNext, ExitInv, CleanupOnExit
  <1>3. CASE Beat
    BY <1>3 DEF Beat, ExitInv, CleanupOnExit
  <1>4. CASE HeartbeatGet
    BY <1>4 DEF HeartbeatGet, ExitInv, CleanupOnExit
  <1>5. CASE Wake
    BY <1>5 DEF Wake, ExitInv, CleanupOnExit
  <1>6. CASE YieldResp
    BY <1>6 DEF YieldResp, ExitInv, CleanupOnExit
  <1>7. CASE YieldBeat
    BY <1>7 DEF YieldBeat, ExitInv, CleanupOnExit
  <1>8. CASE AdapterEnded
    BY <1>8 DEF AdapterEnded, ExitInv, CleanupOnExit
  <1>9. CASE Finalize
    BY <1>9 DEF Finalize, ExitInv, CleanupOnExit
  <1>10. CASE ClientCancel
    BY <1>10 DEF ClientCancel, ExitInv, CleanupOnExit
  <1>11. CASE Cleanup
    BY <1>11 DEF Cleanup, ExitInv, CleanupOnExit
  <1>12. CASE UNCHANGED vars
    BY <1>12 DEF vars, ExitInv, CleanupOnExit
  <1>13. QED
    BY <1>1, <1>2, <1>3, <1>4, <1>5, <1>6, <1>7, <1>8, <1>9, <1>10,
       <1>11, <1>12 DEF Next

\* Spec 4.4 for fetch_response_stream and heartbeat_generator, for every
\* upstream body: whichever of its four ways the multiplexer leaves by, no
\* task is left waiting, the producer is cancelled and the adapter was
\* closed exactly once.
THEOREM CleanupSafe == Spec => []CleanupOnExit
  <1>1. Init => ExitInv
    BY ExitInit
  <1>2. ExitInv /\ [Next]_vars => ExitInv'
    BY ExitStep
  <1>3. ExitInv => CleanupOnExit
    BY DEF ExitInv
  <1>4. QED
    BY <1>1, <1>2, <1>3, PTL DEF Spec


-----------------------------------------------------------------------------
(* The order of the data lines and the terminator.                         *)

\* The data lines among the first k lines form a finite set of places.
LEMMA IndicesFinite ==
    ASSUME NEW c, NEW k \in Nat
    PROVE  /\ IsFiniteSet(DataIndices(c, k))
           /\ DataIndices(c, k) \subseteq 1..k
  <1>1. DataIndices(c, k) \subseteq 1..k
    BY DEF DataIndices
  <1>2. QED
    BY <1>1, FS_Interval, FS_Subset

\* Appending a line leaves the places of the earlier data lines alone.
LEMMA AppendKeepsIndices ==
    ASSUME NEW S, NEW c \in Seq(S), NEW v \in S, NEW k \in 0..Len(c)
    PROVE  DataIndices(Append(c, v), k) = DataIndices(c, k)
  BY AppendProperties DEF DataIndices

\* Appending a line adds one to the data lines exactly when it is one.
LEMMA AppendCount ==
    ASSUME NEW S, NEW c \in Seq(S), NEW v \in S
    PROVE  DataCount(Append(c, v), Len(c) + 1) =
             IF IsData(v) THEN DataCount(c, Len(c)) + 1 ELSE DataCount(c, Len(c))
  <1> DEFINE n == Len(c)
  <1>1. n \in Nat
    BY LenProperties
  <1>2. DataIndices(Append(c, v), n + 1) =
          DataIndices(c, n) \cup (IF IsData(v) THEN {n + 1} ELSE {})
    BY <1>1, AppendProperties DEF DataIndices
  <1>3. IsFiniteSet(DataIndices(c, n)) /\ n + 1 \notin DataIndices(c, n)
    BY <1>1, IndicesFinite
  <1>4. CASE IsData(v)
    BY <1>2, <1>3, <1>4, FS_AddElement DEF DataCount
  <1>5. CASE ~IsData(v)
    BY <1>2, <1>5 DEF DataCount
  <1>6. QED
    BY <1>4, <1>5

\* Appending a line adds its place to the terminator's exactly when it is
\* the terminator.
LEMMA AppendDone ==
    ASSUME NEW S, NEW c \in Seq(S), NEW v \in S
    PROVE  DoneIndices(Append(c, v)) =
             DoneIndices(c) \cup (IF v = "done" THEN {Len(c) + 1} ELSE {})
  BY AppendProperties DEF DoneIndices

\* While the wrapper pulls, every event the adapter handed out has reached
\* the client, except the one the response task holds; before the first
\* line the client has nothing.
OrderInv ==
    /\ AdapterOrderKept
    /\ wstate = "first" => client = << >>
    /\ Pulling => DataCount(client, Len(client)) =
                    IF resp = "ready" THEN pos - 1 ELSE pos

\* Once the multiplexer is leaving, the wrapper has stopped pulling, or it
\* has passed the first-line check and its loop is about to run out.
ExitPull ==
    /\ mux \in {"raised", "closing", "exited"} => ~Pulling
    /\ mux = "returning" => wstate \notin {"first", "deferred"}

\* The terminator is the last line the client got, and nothing is pulled
\* after it.
DoneInv ==
    \A k \in DoneIndices(client) :
        k = Len(client) /\ ~(Pulling /\ mux \in {"arm", "wait", "drain"})

\* A return of the multiplexer into a started response comes right after
\* the terminator reached the client.
FinishInv ==
    (mux = "returning" /\ wstate = "streaming") \/ wstate = "finished"
        => client # << >> /\ client[Len(client)] = "done"

-----------------------------------------------------------------------------
(* Type correctness.                                                       *)

\* Every adapter output is a list of event kinds.
LEMMA OutputsAreKinds == ASSUME StreamAssumption PROVE AdapterOutputs \subseteq Seq(Kinds)
  <1>1. ErrorBody \in Seq(Kinds)
    BY DEF ErrorBody, Kinds
  <1>2. UpTo(TextKinds, MaxText) \subseteq Seq(Kinds)
    BY DEF UpTo, Kinds
  <1>3. ASSUME NEW t \in UpTo(TextKinds, MaxText) PROVE t \o <<"done">> \in Seq(Kinds)
    <2>1. t \in Seq(Kinds) /\ <<"done">> \in Seq(Kinds)
      BY <1>2 DEF Kinds
    <2>2. QED
      BY <2>1, ConcatProperties
  <1>4. QED
    BY <1>1, <1>2, <1>3 DEF AdapterOutputs, TerminatedBodies, UnterminatedBodies

\* The facts TypeOK rests on: a heartbeat in the queue was put by the
\* producer; the adapter is only asked for an event while it has one left;
\* a task in the `done` set being walked has completed.
QueueInv == queue <= beats

PosInv ==
    /\ resp = "ready" => pos >= 1
    /\ (resp = "pending" \/ (resp = "idle" /\ mux \in {"arm", "wait", "drain"}))
         => pos <= Len(up)

TodoInv ==
    mux = "drain" => /\ "resp" \in todo => resp = "ready"
                     /\ "hb" \in todo => hb = "ready"

TInv == TypeOK /\ QueueInv /\ PosInv /\ TodoInv /\ ExitInv

LEMMA TInvInit == Init => TInv
  <1> SUFFICES ASSUME Init PROVE TInv
    OBVIOUS
  <1> USE StreamAssumption
  <1>1. up \in Seq(Kinds)
    BY OutputsAreKinds DEF Init
  <1>2. Len(up) \in Nat
    BY <1>1, LenProperties
  <1>3. TypeOK
    BY <1>2 DEF Init, TypeOK, TaskStates, MuxStates, WrapperStates
  <1>4. QED
    BY <1>2, <1>3, ExitInit DEF Init, QueueInv, PosInv, TodoInv, TInv

\* The wrapper's handling of a line keeps the client's lines, the status
\* and its own place well typed.
LEMMA DeliverType ==
    ASSUME TypeOK, NEW v \in Lines, Deliver(v)
    PROVE  /\ client' \in Seq(Lines)
           /\ status' \in {0, 200, 400, 500, ErrorStatus}
           /\ wstate' \in WrapperStates
  <1>1. CASE wstate = "first"
    <2>1. FirstItem(v)
      BY <1>1 DEF Deliver
    <2>2. <<v>> \in Seq(Lines)
      OBVIOUS
    <2>3. CASE v = "hb"
      BY <2>1, <2>2, <2>3 DEF FirstItem, WrapperStates
    <2>4. CASE v = "err"
      BY <2>1, <2>4 DEF FirstItem, CheckOutcome, IsErrorDict, StartsWithDone, TypeOK, WrapperStates
    <2>5. CASE v = "done"
      BY <2>1, <2>5 DEF FirstItem, CheckOutcome, IsErrorDict, StartsWithDone, TypeOK, WrapperStates
    <2>6. CASE v \notin {"hb", "err", "done"}
      BY <2>1, <2>2, <2>6 DEF FirstItem, CheckOutcome, IsErrorDict, StartsWithDone, WrapperStates
    <2>7. QED
      BY <2>3, <2>4, <2>5, <2>6
  <1>2. CASE wstate = "deferred"
    BY <1>2 DEF Deliver, DeferredItem, CheckOutcome, IsErrorDict, StartsWithDone, TypeOK, WrapperStates
  <1>3. CASE wstate # "first" /\ wstate # "deferred"
    BY <1>3 DEF Deliver, StreamItem, TypeOK, WrapperStates
  <1>4. QED
    BY <1>1, <1>2, <1>3

\* The event a walked response task yields is one of the adapter's.
LEMMA EventKind ==
    ASSUME StreamAssumption, TInv, mux = "drain", "resp" \in todo, Ev # "eof"
    PROVE  Ev \in Lines
  <1>1. up \in Seq(Kinds)
    BY OutputsAreKinds DEF TInv, TypeOK
  <1>2. resp = "ready"
    BY DEF TInv, TodoInv
  <1>3. pos \in 1..Len(up)
    BY <1>2 DEF TInv, PosInv, TypeOK, Ev
  <1>4. up[pos] \in Kinds
    BY <1>1, <1>3, ElementOfSeq
  <1>5. QED
    BY <1>3, <1>4 DEF Ev, Lines

\* Every step keeps the request well typed.
LEMMA TInvStep == TInv /\ [Next]_vars => TInv'
  <1> SUFFICES ASSUME TInv, [Next]_vars PROVE TInv'
    OBVIOUS
  <1> USE StreamAssumption
  <1> DEFINE Rest == TypeOK /\ QueueInv /\ PosInv /\ TodoInv
  <1>1. ExitInv'
    BY ExitStep DEF TInv
  <1>2. Len(up) \in Nat
    BY OutputsAreKinds, LenProperties DEF TInv, TypeOK
  <1> SUFFICES Rest'
    BY <1>1 DEF TInv
  <1> USE DEF TInv, TypeOK, QueueInv, PosInv, TodoInv, TaskStates, MuxStates
  <1>3. CASE Arm
    BY <1>2, <1>3 DEF Arm
  <1>4. CASE AdapterNext
    BY <1>2, <1>4 DEF AdapterNext
  <1>5. CASE Beat
    BY <1>5 DEF Beat
  <1>6. CASE HeartbeatGet
    BY <1>6 DEF HeartbeatGet
  <1>7. CASE Wake
    BY <1>7 DEF Wake
  <1>8. CASE YieldResp
    <2>1. Ev \in Lines /\ pos <= Len(up)
      BY <1>8, EventKind DEF YieldResp, Ev
    <2>2. /\ client' \in Seq(Lines)
          /\ status' \in {0, 200, 400, 500, ErrorStatus}
          /\ wstate' \in WrapperStates
      BY <1>8, <2>1, DeliverType DEF YieldResp
    <2>3. QED
      BY <1>8, <2>1, <2>2 DEF YieldResp
  <1>9. CASE YieldBeat
    <2>1. /\ client' \in Seq(Lines)
          /\ status' \in {0, 200, 400, 500, ErrorStatus}
          /\ wstate' \in WrapperStates
      BY <1>9, DeliverType DEF YieldBeat, Lines
    <2>2. QED
      BY <1>9, <2>1 DEF YieldBeat
  <1>10. CASE AdapterEnded
    BY <1>10 DEF AdapterEnded, WrapperStates
  <1>11. CASE Finalize
    BY <1>11 DEF Finalize
  <1>12. CASE ClientCancel
    BY <1>12 DEF ClientCancel, WrapperStates
  <1>13. CASE Cleanup
    <2>1. closes = 0
      BY <1>13 DEF Cleanup, ExitInv
    <2>2. QED
      BY <1>13, <2>1 DEF Cleanup, WrapperStates
  <1>14. CASE UNCHANGED vars
    BY <1>14 DEF vars
  <1>15. QED
    BY <1>3, <1>4, <1>5, <1>6, <1>7, <1>8, <1>9, <1>10, <1>11, <1>12,
       <1>13, <1>14 DEF Next

\* The request is well typed in every state: the lines the client gets are
\* lines, a task is idle, pending or ready, the queue never goes negative
\* and the adapter is closed at most once.
THEOREM StreamTypeCorrect == Spec => []TypeOK
  <1>1. Init => TInv
    BY TInvInit
  <1>2. TInv /\ [Next]_vars => TInv'
    BY TInvStep
  <1>3. TInv => TypeOK
    BY DEF TInv
  <1>4. QED
    BY <1>1, <1>2, <1>3, PTL DEF Spec

\* A line handed to the wrapper is either appended to the client's lines,
\* and the wrapper goes on pulling, or dropped, and the wrapper stops.
LEMMA DeliverShape ==
    ASSUME TypeOK, wstate = "first" => client = << >>, NEW v \in Lines, Deliver(v)
    PROVE  /\ \/ client' = Append(client, v) /\ wstate' \in {"deferred", "streaming"}
              \/ client' = client /\ wstate' \in {"abandoned", "aborted"}
           /\ wstate' = "deferred" => v = "hb"
  <1>1. CASE wstate = "first"
    <2>1. FirstItem(v) /\ Append(client, v) = <<v>>
      BY <1>1 DEF Deliver
    <2>2. QED
      BY <2>1 DEF FirstItem, CheckOutcome, IsErrorDict, StartsWithDone
  <1>2. CASE wstate = "deferred"
    BY <1>2 DEF Deliver, DeferredItem, CheckOutcome, IsErrorDict, StartsWithDone
  <1>3. CASE wstate # "first" /\ wstate # "deferred"
    BY <1>3 DEF Deliver, StreamItem
  <1>4. QED
    BY <1>1, <1>2, <1>3

SInv == TInv /\ OrderInv /\ ExitPull /\ DoneInv

LEMMA SInvInit == Init => SInv
  <1> SUFFICES ASSUME Init PROVE SInv
    OBVIOUS
  <1>1. TInv
    BY TInvInit
  <1>2. client = << >> /\ Len(client) = 0
    BY DEF Init
  <1>3. DoneIndices(client) = {}
    BY <1>2 DEF DoneIndices
  <1>4. DataCount(client, Len(client)) = 0
    BY <1>2, FS_EmptySet DEF DataCount, DataIndices
  <1>5. OrderInv
    BY <1>2, <1>4 DEF Init, OrderInv, AdapterOrderKept
  <1>6. QED
    BY <1>1, <1>3, <1>5 DEF Init, SInv, ExitPull, DoneInv


\* Every step keeps the client's data lines the adapter's events in order.
LEMMA SInvStep == SInv /\ [Next]_vars => SInv'
  <1> SUFFICES ASSUME SInv, [Next]_vars PROVE SInv'
    OBVIOUS
  <1> USE StreamAssumption
  <1>1. TInv'
    BY TInvStep DEF SInv
  <1>2. client \in Seq(Lines) /\ Len(client) \in Nat
    BY LenProperties DEF SInv, TInv, TypeOK
  <1>3. Pulling /\ mux \in {"arm", "wait", "drain"} => DoneIndices(client) = {}
    BY DEF SInv, DoneInv
  <1> SUFFICES OrderInv' /\ ExitPull' /\ DoneInv'
    BY <1>1 DEF SInv
  <1>4. CASE Arm
    BY <1>3, <1>4 DEF Arm, SInv, OrderInv, AdapterOrderKept, ExitPull, DoneInv, Pulling
  <1>5. CASE AdapterNext
    BY <1>5 DEF AdapterNext, SInv, TInv, TypeOK, OrderInv, AdapterOrderKept, ExitPull,
              DoneInv, Pulling
  <1>6. CASE Beat
    BY <1>6 DEF Beat, SInv, OrderInv, AdapterOrderKept, ExitPull, DoneInv, Pulling
  <1>7. CASE HeartbeatGet
    BY <1>7 DEF HeartbeatGet, SInv, OrderInv, AdapterOrderKept, ExitPull, DoneInv, Pulling
  <1>8. CASE Wake
    BY <1>3, <1>8 DEF Wake, SInv, OrderInv, AdapterOrderKept, ExitPull, DoneInv, Pulling
  <1>9. CASE YieldResp
    <2>1. DoneIndices(client) = {}
      BY <1>3, <1>9 DEF YieldResp
    <2>2. pos \in 1..Len(up) /\ up \in Seq(Kinds) /\ resp = "ready"
      BY <1>9, OutputsAreKinds DEF YieldResp, SInv, TInv, TypeOK, PosInv, TodoInv, Ev
    <2>3. Ev = up[pos] /\ Ev \in Kinds /\ IsData(Ev)
      BY <2>2, ElementOfSeq DEF Ev, Kinds, IsData
    <2>4. DataCount(client, Len(client)) = pos - 1
      BY <1>9, <2>2 DEF YieldResp, SInv, OrderInv
    <2>5. \/ client' = Append(client, Ev) /\ wstate' \in {"deferred", "streaming"}
          \/ client' = client /\ wstate' \in {"abandoned", "aborted"}
      BY <1>9, <2>3, DeliverShape DEF YieldResp, SInv, TInv, OrderInv, Lines
    <2>9. wstate' # "deferred"
      BY <1>9, <2>3, DeliverShape DEF YieldResp, SInv, TInv, OrderInv, Lines, Kinds
    <2>6. CASE client' = client /\ wstate' \in {"abandoned", "aborted"}
      BY <1>9, <2>1, <2>6 DEF YieldResp, SInv, OrderInv, AdapterOrderKept, ExitPull,
                              DoneInv, Pulling
    <2>7. CASE client' = Append(client, Ev) /\ wstate' \in {"deferred", "streaming"}
      <3> DEFINE n == Len(client)
      <3>1. Ev \in Lines
        BY <2>3 DEF Lines
      <3>2. Len(client') = n + 1 /\ client'[n + 1] = Ev
            /\ \A k \in 1..n : client'[k] = client[k]
        BY <1>2, <2>7, <3>1, AppendProperties
      <3>3. \A k \in 0..n : DataIndices(client', k) = DataIndices(client, k)
        BY <1>2, <2>7, <3>1, AppendKeepsIndices
      <3>11. DataCount(client', n + 1) = DataCount(client, n) + 1
        BY <1>2, <2>3, <2>7, <3>1, AppendCount
      <3>4. DataCount(client', n + 1) = pos
        BY <2>2, <2>4, <3>11
      <3>5. AdapterOrderKept'
        <4> SUFFICES ASSUME NEW k \in 1..n + 1, IsData(client'[k])
                     PROVE  /\ DataCount(client', k) <= Len(up)
                            /\ client'[k] = up[DataCount(client', k)]
          <5>1. 1..Len(client') = 1..n + 1
            BY <3>2
          <5>2. QED
            BY <1>9, <5>1 DEF YieldResp, AdapterOrderKept, IsData, DataCount, DataIndices
        <4>1. CASE k = n + 1
          BY <2>2, <2>3, <3>2, <3>4, <4>1, <1>9 DEF YieldResp
        <4>2. CASE k \in 1..n
          BY <3>2, <3>3, <4>2, <1>9 DEF YieldResp, SInv, OrderInv, AdapterOrderKept, DataCount
        <4>3. QED
          BY <4>1, <4>2
      <3>6. OrderInv'
        BY <1>9, <2>7, <3>2, <3>4, <3>5 DEF YieldResp, OrderInv
      <3>7. ExitPull'
        BY <1>9, <2>7, <2>9 DEF YieldResp, ExitPull, Pulling
      <3>8. DoneIndices(client') = IF Ev = "done" THEN {n + 1} ELSE {}
        BY <1>2, <2>1, <2>7, <3>1, AppendDone
      <3>9. DoneInv'
        BY <1>9, <3>2, <3>8 DEF YieldResp, EndsStream, DoneInv
      <3>10. QED
        BY <3>6, <3>7, <3>9
    <2>8. QED
      BY <2>5, <2>6, <2>7
  <1>10. CASE YieldBeat
    <2>1. DoneIndices(client) = {}
      BY <1>3, <1>10 DEF YieldBeat
    <2>2. "hb" \in Lines /\ ~IsData("hb")
      BY DEF Lines, IsData
    <2>3. \/ client' = Append(client, "hb") /\ wstate' \in {"deferred", "streaming"}
          \/ client' = client /\ wstate' \in {"abandoned", "aborted"}
      BY <1>10, <2>2, DeliverShape DEF YieldBeat, SInv, TInv, OrderInv
    <2>4. CASE client' = client /\ wstate' \in {"abandoned", "aborted"}
      BY <1>10, <2>1, <2>4 DEF YieldBeat, SInv, OrderInv, AdapterOrderKept, ExitPull,
                               DoneInv, Pulling
    <2>5. CASE client' = Append(client, "hb") /\ wstate' \in {"deferred", "streaming"}
      <3> DEFINE n == Len(client)
      <3>1. Len(client') = n + 1 /\ client'[n + 1] = "hb"
            /\ \A k \in 1..n : client'[k] = client[k]
        BY <1>2, <2>2, <2>5, AppendProperties
      <3>2. \A k \in 0..n : DataIndices(client', k) = DataIndices(client, k)
        BY <1>2, <2>2, <2>5, AppendKeepsIndices
      <3>3. DataCount(client', n + 1) = DataCount(client, n)
        BY <1>2, <2>2, <2>5, AppendCount
      <3>4. AdapterOrderKept'
        <4> SUFFICES ASSUME NEW k \in 1..n, IsData(client'[k])
                     PROVE  /\ DataCount(client', k) <= Len(up)
                            /\ client'[k] = up[DataCount(client', k)]
          <5>1. 1..Len(client') = 1..n + 1
            BY <3>1
          <5>2. \A k \in 1..n + 1 : IsData(client'[k]) => k \in 1..n
            BY <2>2, <3>1
          <5>3. QED
            BY <1>10, <5>1, <5>2 DEF YieldBeat, AdapterOrderKept, IsData, DataCount, DataIndices
        <4>1. QED
          BY <3>1, <3>2, <1>10 DEF YieldBeat, SInv, OrderInv, AdapterOrderKept, DataCount
      <3>5. OrderInv'
        BY <1>10, <2>5, <3>1, <3>3, <3>4 DEF YieldBeat, SInv, OrderInv
      <3>6. DoneIndices(client') = {}
        BY <1>2, <2>1, <2>2, <2>5, AppendDone
      <3>7. QED
        BY <1>10, <2>5, <3>5, <3>6 DEF YieldBeat, ExitPull, DoneInv, Pulling
    <2>6. QED
      BY <2>3, <2>4, <2>5
  <1>11. CASE AdapterEnded
    BY <1>11 DEF AdapterEnded, SInv, OrderInv, AdapterOrderKept, ExitPull, DoneInv, Pulling
  <1>12. CASE Finalize
    BY <1>12 DEF Finalize, SInv, OrderInv, AdapterOrderKept, ExitPull, DoneInv, Pulling
  <1>13. CASE ClientCancel
    BY <1>13 DEF ClientCancel, SInv, OrderInv, AdapterOrderKept, ExitPull, DoneInv, Pulling
  <1>14. CASE Cleanup
    BY <1>14 DEF Cleanup, SInv, OrderInv, AdapterOrderKept, ExitPull, DoneInv, Pulling
  <1>15. CASE UNCHANGED vars
    BY <1>15 DEF vars, SInv, OrderInv, AdapterOrderKept, DataCount, DataIndices,
                 DoneIndices, ExitPull, DoneInv, Pulling
  <1>16. QED
    BY <1>4, <1>5, <1>6, <1>7, <1>8, <1>9, <1>10, <1>11, <1>12, <1>13, <1>14, <1>15
       DEF Next


\* Spec property 7 for fetch_response_stream, for every upstream body and
\* bound: the n-th data line the client receives is the adapter's n-th
\* event, whatever the heartbeats and the order the `done` set is walked.
THEOREM OrderSafe == Spec => []AdapterOrderKept
  <1>1. Init => SInv
    BY SInvInit
  <1>2. SInv /\ [Next]_vars => SInv'
    BY SInvStep
  <1>3. SInv => AdapterOrderKept
    BY DEF SInv, OrderInv
  <1>4. QED
    BY <1>1, <1>2, <1>3, PTL DEF Spec

\* No text line of the adapter carries the characters [DONE] in its content.
NoDoneInText == "textDONE" \notin TextKinds

LEMMA FinishInit == Init => FinishInv
  BY DEF Init, FinishInv

LEMMA FinishStep ==
    ASSUME NoDoneInText, SInv, FinishInv, [Next]_vars
    PROVE  FinishInv'
  <1> USE StreamAssumption
  <1>1. CASE YieldResp
    <2>1. pos \in 1..Len(up) /\ up \in Seq(Kinds)
      BY <1>1, OutputsAreKinds DEF YieldResp, SInv, TInv, TypeOK, PosInv, TodoInv, Ev
    <2>2. Ev \in Kinds
      BY <2>1, ElementOfSeq DEF Ev
    <2>3. EndsStream(Ev) => Ev = "done"
      BY <2>2 DEF NoDoneInText, EndsStream, Kinds
    <2>4. /\ \/ client' = Append(client, Ev) /\ wstate' \in {"deferred", "streaming"}
             \/ client' = client /\ wstate' \in {"abandoned", "aborted"}
          /\ wstate' = "deferred" => Ev = "hb"
      BY <1>1, <2>2, DeliverShape DEF YieldResp, SInv, TInv, OrderInv, Lines
    <2>5. client \in Seq(Lines) /\ Ev \in Lines
      BY <2>2 DEF SInv, TInv, TypeOK, Lines
    <2>6. CASE client' = Append(client, Ev)
      <3>1. client' # << >> /\ client'[Len(client')] = Ev
        BY <2>5, <2>6, AppendProperties
      <3>2. mux' = "returning" => Ev = "done"
        BY <1>1, <2>3 DEF YieldResp
      <3>3. wstate' # "finished"
        BY <2>4
      <3>4. QED
        BY <3>1, <3>2, <3>3 DEF FinishInv
    <2>7. CASE client' # Append(client, Ev)
      BY <1>1, <2>4, <2>7 DEF YieldResp, FinishInv
    <2>8. QED
      BY <2>6, <2>7
  <1>2. CASE YieldBeat
    <2>1. wstate' \in {"deferred", "streaming", "abandoned", "aborted"}
      BY <1>2, DeliverShape DEF YieldBeat, SInv, TInv, OrderInv, Lines
    <2>2. QED
      BY <1>2, <2>1 DEF YieldBeat, FinishInv
  <1>3. CASE Arm \/ AdapterNext \/ Beat \/ HeartbeatGet \/ Wake \/ AdapterEnded
             \/ Finalize \/ ClientCancel \/ Cleanup
    BY <1>3 DEF Arm, AdapterNext, Beat, HeartbeatGet, Wake, AdapterEnded, Finalize,
                ClientCancel, Cleanup, FinishInv
  <1>4. CASE UNCHANGED vars
    BY <1>4 DEF vars, FinishInv
  <1>5. QED
    BY <1>1, <1>2, <1>3, <1>4 DEF Next

\* A finished response ends with the terminator, and it holds one.
LEMMA FinishDone ==
    ASSUME SInv, FinishInv PROVE DoneTerminates
  <1> SUFFICES ASSUME wstate = "finished" PROVE DoneTerminates
    BY DEF DoneTerminates
  <1> DEFINE n == Len(client)
  <1>1. client \in Seq(Lines) /\ n \in Nat /\ n >= 1 /\ client[n] = "done"
    BY LenProperties, EmptySeq DEF SInv, TInv, TypeOK, FinishInv
  <1>2. DoneIndices(client) = {n}
    BY <1>1 DEF SInv, DoneInv, DoneIndices
  <1>3. \A j \in n + 1..n : ~IsData(client[j])
    BY <1>1
  <1>4. QED
    BY <1>2, <1>3, FS_Singleton DEF DoneTerminates

\* Spec property 6 for fetch_response_stream and error_handling_wrapper,
\* for every bound, when no text line carries [DONE] in its content: a
\* response that ends normally ends with the terminator and holds exactly
\* one.  (Run stream_done_in_text shows it fails when a text line does.)
THEOREM DoneTerminatesSafe == NoDoneInText => (Spec => []DoneTerminates)
  <1> SUFFICES ASSUME NoDoneInText PROVE Spec => []DoneTerminates
    OBVIOUS
  <1>1. Init => SInv /\ FinishInv
    BY SInvInit, FinishInit
  <1>2. SInv /\ FinishInv /\ [Next]_vars => SInv' /\ FinishInv'
    BY SInvStep, FinishStep
  <1>3. SInv /\ FinishInv => DoneTerminates
    BY FinishDone
  <1>4. QED
    BY <1>1, <1>2, <1>3, PTL DEF Spec


-----------------------------------------------------------------------------
(* The refinement of StreamAbstract.                                       *)

\* The abstract count of delivered events is the count of data lines.
LEMMA DeliveredIsCount == SA!Delivered = DataCount(client, Len(client))
  <1>1. SA!Cardinality(DataIndices(client, Len(client)))
          = Cardinality(DataIndices(client, Len(client)))
    BY DEF SA!Cardinality, Cardinality
  <1>2. QED
    BY <1>1 DEF SA!Delivered, DataCount, DataIndices, IsData

\* The abstract stream is open while no terminator was sent.
LEMMA OpenIsNoDone == SA!Open <=> DoneIndices(client) = {}
  BY DEF SA!Open, DoneIndices

\* Each step of the request is a step of the abstract stream or leaves the
\* client's lines and the body alone.
LEMMA StepRefines == SInv /\ [Next]_vars => [SA!Next]_SA!svars
  <1> SUFFICES ASSUME SInv, [Next]_vars PROVE [SA!Next]_SA!svars
    OBVIOUS
  <1> USE StreamAssumption
  <1>1. client \in Seq(Lines) /\ Len(client) \in Nat
    BY LenProperties DEF SInv, TInv, TypeOK
  <1>2. Pulling /\ mux \in {"arm", "wait", "drain"} => SA!Open
    BY OpenIsNoDone DEF SInv, DoneInv
  <1>3. CASE YieldResp
    <2>1. pos \in 1..Len(up) /\ up \in Seq(Kinds) /\ resp = "ready"
      BY <1>3, OutputsAreKinds DEF YieldResp, SInv, TInv, TypeOK, PosInv, TodoInv, Ev
    <2>2. Ev = up[pos] /\ Ev \in Lines
      BY <2>1, ElementOfSeq DEF Ev, Kinds, Lines
    <2>3. SA!Delivered = pos - 1
      BY <1>3, <2>1, DeliveredIsCount DEF YieldResp, SInv, OrderInv
    <2>4. \/ client' = Append(client, Ev) /\ wstate' \in {"deferred", "streaming"}
          \/ client' = client /\ wstate' \in {"abandoned", "aborted"}
      BY <1>3, <2>2, DeliverShape DEF YieldResp, SInv, TInv, OrderInv
    <2>5. CASE client' = Append(client, Ev)
      <3>1. SA!Open /\ SA!Delivered < Len(up) /\ up[SA!Delivered + 1] = Ev
        BY <1>2, <1>3, <2>1, <2>2, <2>3 DEF YieldResp
      <3>2. SA!SendEvent
        BY <1>3, <2>5, <3>1 DEF YieldResp, SA!SendEvent
      <3>3. QED
        BY <3>2 DEF SA!Next
    <2>6. CASE client' = client
      BY <1>3, <2>6 DEF YieldResp, SA!svars
    <2>7. QED
      BY <2>4, <2>5, <2>6
  <1>4. CASE YieldBeat
    <2>1. \/ client' = Append(client, "hb") /\ wstate' \in {"deferred", "streaming"}
          \/ client' = client /\ wstate' \in {"abandoned", "aborted"}
      BY <1>4, DeliverShape DEF YieldBeat, SInv, TInv, OrderInv, Lines
    <2>2. CASE client' = Append(client, "hb")
      BY <1>2, <1>4, <2>2 DEF YieldBeat, SA!SendBeat, SA!Next
    <2>3. CASE client' = client
      BY <1>4, <2>3 DEF YieldBeat, SA!svars
    <2>4. QED
      BY <2>1, <2>2, <2>3
  <1>5. CASE Arm \/ AdapterNext \/ Beat \/ HeartbeatGet \/ Wake \/ AdapterEnded
             \/ Finalize \/ ClientCancel \/ Cleanup \/ UNCHANGED vars
    BY <1>5 DEF Arm, AdapterNext, Beat, HeartbeatGet, Wake, AdapterEnded, Finalize,
                ClientCancel, Cleanup, vars, SA!svars
  <1>6. QED
    BY <1>3, <1>4, <1>5 DEF Next

\* Spec 6 and 7 as a refinement, for every upstream body and bound: every
\* behaviour of fetch_response_stream under error_handling_wrapper is one
\* of StreamAbstract.  The client gets the adapter's events in order,
\* heartbeats between them, and nothing after the terminator.
THEOREM StreamRefinement == Spec => StreamRefinesAbstract
  <1>1. Init => SA!Init
    BY DEF Init, SA!Init
  <1>2. Init => SInv
    BY SInvInit
  <1>3. SInv /\ [Next]_vars => SInv'
    BY SInvStep
  <1>4. SInv /\ [Next]_vars => [SA!Next]_SA!svars
    BY StepRefines
  <1>5. QED
    BY <1>1, <1>2, <1>3, <1>4, PTL DEF Spec, StreamRefinesAbstract, SA!Spec

=============================================================================
