------------------------------ MODULE CmrQueue ------------------------------
(***************************************************************************)
(* What a camera thread's message queue promises: no more than Cap         *)
(* messages wait, each one that was accepted is worked on once, in the     *)
(* order in which they were accepted, one at a time.                       *)
(***************************************************************************)
EXTENDS Naturals, Sequences

CONSTANTS Cap, Kinds

VARIABLES
  q,      \* the messages that wait
  busy,   \* what the thread works on: a message, or none
  last    \* the number of the message accepted last

Init == q = <<>> /\ busy = <<>> /\ last = 0

Post(k) ==
  /\ Len(q) < Cap
  /\ last' = last + 1
  /\ q' = Append(q, [id |-> last', kind |-> k])
  /\ UNCHANGED busy

Take ==
  /\ q # <<>> /\ busy = <<>>
  /\ busy' = <<Head(q)>>
  /\ q' = Tail(q)
  /\ UNCHANGED last

Finish ==
  /\ busy # <<>>
  /\ busy' = <<>>
  /\ UNCHANGED <<q, last>>

Next == (\E k \in Kinds : Post(k)) \/ Take \/ Finish

Spec == Init /\ [][Next]_<<q, busy, last>>

=============================================================================
