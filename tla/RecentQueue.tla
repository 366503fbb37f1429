---------------------------- MODULE RecentQueue ----------------------------
(***************************************************************************)
(* What a bounded overwrite ring promises its users: the queue of the at   *)
(* most Capacity most recent elements pushed and not removed since, plus a *)
(* lifetime counter of pushes.  Every operation is one atomic step.        *)
(* RingBuffer implements it with an array, two indices and a mutex.        *)
(***************************************************************************)
EXTENDS Naturals, Sequences

CONSTANTS
  Value,     \* what is stored
  Capacity   \* how many elements are kept

VARIABLES
  queue,     \* retained elements, oldest first
  total      \* lifetime pushes

vars == <<queue, total>>

\* The last n elements of s.
LastOf(s, n) == SubSeq(s, Len(s) - n + 1, Len(s))

Init == queue = <<>> /\ total = 0

Push(v) ==
  /\ queue' = IF Len(queue) < Capacity THEN Append(queue, v)
                                       ELSE Append(Tail(queue), v)
  /\ total' = total + 1

Pop ==
  /\ queue # <<>>
  /\ queue' = Tail(queue)
  /\ UNCHANGED total

Clear ==
  /\ queue' = <<>>
  /\ UNCHANGED total

Next == Pop \/ Clear \/ \E v \in Value : Push(v)

Spec == Init /\ [][Next]_vars

=============================================================================
