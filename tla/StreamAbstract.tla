---------------------------- MODULE StreamAbstract ----------------------------
(***************************************************************************)
(* What a streaming response promises its client (spec 6 and 7), without  *)
(* the mechanism: no tasks, no queue, no wrapper states.  The client gets *)
(* the upstream body's events in order, with heartbeat comments anywhere  *)
(* between them, and nothing after the terminator.  The response may stop *)
(* at any point (an error, a disconnect), so the specification has no     *)
(* fairness.                                                               *)
(*                                                                         *)
(* StreamMux refines this module (StreamRefinesAbstract, proved in         *)
(* StreamMuxProofs).                                                       *)
(***************************************************************************)
EXTENDS Integers, Sequences, FiniteSets

CONSTANTS
    Bodies,      \* the event sequences an upstream body may give
    Beat,        \* the heartbeat comment line
    Terminator   \* the line that ends a response

VARIABLES
    body,  \* the events of this response's upstream body
    sent   \* the lines the client has received

svars == <<body, sent>>

\* How many events of the body the client has received.
Delivered == Cardinality({j \in 1..Len(sent) : sent[j] # Beat})

\* The terminator has not been sent yet.
Open == \A j \in 1..Len(sent) : sent[j] # Terminator

Init == body \in Bodies /\ sent = << >>

\* The next event of the body reaches the client.
SendEvent ==
    /\ Open /\ Delivered < Len(body)
    /\ sent' = Append(sent, body[Delivered + 1])
    /\ UNCHANGED body

\* A heartbeat reaches the client.
SendBeat ==
    /\ Open
    /\ sent' = Append(sent, Beat)
    /\ UNCHANGED body

Next == SendEvent \/ SendBeat

Spec == Init /\ [][Next]_svars
=============================================================================
