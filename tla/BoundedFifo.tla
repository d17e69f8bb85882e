----------------------------- MODULE BoundedFifo -----------------------------
(***************************************************************************)
(* What the command ring of the bridge promises to its two users: a FIFO   *)
(* queue of at most Capacity headers between one producer and one          *)
(* consumer.  The consumer either takes the oldest header, looks at it     *)
(* without removing it, or is told that there is none, and what it was     *)
(* handed stays intact in `out' until it asks again.                       *)
(***************************************************************************)
EXTENDS Naturals, Sequences

CONSTANTS
  Values,    \* the headers that can be sent
  Default,   \* what the consumer is handed when there is no header
  Capacity   \* how many headers the queue holds

VARIABLES
  queue,     \* the headers accepted and not taken yet, oldest first
  out        \* the last header the consumer was handed

Init == queue = << >> /\ out = Default

Put(v) ==
  /\ Len(queue) < Capacity
  /\ queue' = Append(queue, v)
  /\ out' = out

Take ==
  /\ queue # << >>
  /\ queue' = Tail(queue)
  /\ out' = Head(queue)

Look ==
  /\ queue # << >>
  /\ out' = Head(queue)
  /\ UNCHANGED queue

Miss ==
  /\ queue = << >>
  /\ out' = Default
  /\ UNCHANGED queue

Next == (\E v \in Values : Put(v)) \/ Take \/ Look \/ Miss

Spec == Init /\ [][Next]_<<queue, out>>
==============================================================================
