----------------------------- MODULE RingBuffer -----------------------------
(***************************************************************************)
(* ringbuffer.c: a fixed array of slots, the index of the next write       *)
(* (head), the number of live elements (count) and a lifetime counter,     *)
(* shared by any number of tasks under one FreeRTOS mutex.                 *)
(*                                                                         *)
(* The critical sections are not atomic here: a push first copies the      *)
(* element and then moves the indices, and a snapshot copies one element   *)
(* per step, so that what the mutex is for can go wrong if it fails.       *)
(***************************************************************************)
EXTENDS Integers, Sequences, FiniteSets

CONSTANTS
  Value,      \* stored elements
  NoValue,    \* content of a slot never written (calloc's zeroes)
  Capacity,   \* rb->capacity
  Thread,     \* tasks using the ring
  NoThread,   \* holder of a free mutex
  MaxTotal    \* bound of the model: no push starts once total reaches it

ASSUME CapacityAssumption == Capacity \in Nat \ {0}
ASSUME ValueAssumption    == NoValue \notin Value
ASSUME ThreadAssumption   == NoThread \notin Thread
ASSUME BoundAssumption    == MaxTotal \in Nat

VARIABLES
  data,       \* rb->data, one element per slot
  head,       \* rb->head, next slot to write
  count,      \* rb->count
  total,      \* rb->total_pushed
  owner,      \* holder of rb->lock
  op,         \* op[t]: the call t is in
  arg,        \* arg[t]: its argument
  pc,         \* pc[t]: where t is in that call
  out,        \* out[t]: elements handed back so far
  before      \* history: the contents when the lock was last taken

shared == <<data, head, count, total>>
vars   == <<shared, owner, op, arg, pc, out, before>>

Index == 0 .. Capacity - 1

PushOps == {"push", "push_timeout"}
Ops     == PushOps \cup {"pop", "clear", "snapshot", "peek"}
ArgOf(o) == CASE o \in PushOps -> Value
              [] o = "snapshot" -> 1 .. Capacity + 1
              [] o = "peek"     -> 0 .. Capacity
              [] OTHER          -> {0}
Args == Value \cup Nat

-----------------------------------------------------------------------------
(* Index arithmetic. *)

NextSlot_NoWrap(i) == i + 1  \* mutant: the index is not wrapped
NextSlot(i) == (i + 1) % Capacity

\* Mutant: the oldest element follows head, as if the ring were always full.
OldestOf_AlwaysFull(n) == (head + 1) % Capacity

\* Slot of the oldest of the last n elements.
OldestOf(n) == (head + Capacity - n) % Capacity

\* Slot of the i-th (from 0) of the last n elements.
SlotOf(n, i) == (OldestOf(n) + i) % Capacity

\* The live elements, oldest first.
Contents == [i \in 1 .. count |-> data[SlotOf(count, i - 1)]]

\* How many elements a snapshot of at most max returns.
SnapshotLen(max) == IF count < max THEN count ELSE max

-----------------------------------------------------------------------------
Init ==
  /\ data = [i \in Index |-> NoValue]
  /\ head = 0
  /\ count = 0
  /\ total = 0
  /\ owner = NoThread
  /\ op = [t \in Thread |-> "none"]
  /\ arg = [t \in Thread |-> 0]
  /\ pc = [t \in Thread |-> "idle"]
  /\ out = [t \in Thread |-> <<>>]
  /\ before = <<>>

\* A task enters one of the operations and waits for the mutex.
Call(t) ==
  /\ pc[t] = "idle"
  /\ \E o \in Ops : \E a \in ArgOf(o) :
       /\ o \in PushOps => total < MaxTotal
       /\ op' = [op EXCEPT ![t] = o]
       /\ arg' = [arg EXCEPT ![t] = a]
  /\ pc' = [pc EXCEPT ![t] = "wait"]
  /\ UNCHANGED <<shared, owner, out, before>>

LockFree_Always == TRUE  \* mutant: the mutex excludes nobody
LockFree == owner = NoThread

Lock(t) ==
  /\ pc[t] = "wait"
  /\ LockFree
  /\ owner' = t
  /\ before' = Contents
  /\ pc' = [pc EXCEPT ![t] = "body"]
  /\ UNCHANGED <<shared, op, arg, out>>

\* push_timeout gives up while somebody else holds the mutex: nothing is
\* stored and the caller accounts for the drop.
GiveUp(t) ==
  /\ pc[t] = "wait"
  /\ op[t] = "push_timeout"
  /\ owner # NoThread
  /\ pc' = [pc EXCEPT ![t] = "idle"]
  /\ op' = [op EXCEPT ![t] = "none"]
  /\ arg' = [arg EXCEPT ![t] = 0]
  /\ UNCHANGED <<shared, owner, out, before>>

\* push, push_timeout: the memcpy into the head slot ...
StoreElement(t) ==
  /\ pc[t] = "body"
  /\ op[t] \in PushOps
  /\ data' = [data EXCEPT ![head] = arg[t]]
  /\ pc' = [pc EXCEPT ![t] = "advance"]
  /\ UNCHANGED <<head, count, total, owner, op, arg, out, before>>

\* ... and the indices; a full ring overwrites its oldest element.
CountAfterPush_OffByOne == IF count < Capacity - 1 THEN count + 1 ELSE count  \* mutant
CountAfterPush == IF count < Capacity THEN count + 1 ELSE count

Advance(t) ==
  /\ pc[t] = "advance"
  /\ head' = NextSlot(head)
  /\ count' = CountAfterPush
  /\ total' = total + 1
  /\ pc' = [pc EXCEPT ![t] = "unlock"]
  /\ UNCHANGED <<data, owner, op, arg, out, before>>

Pop(t) ==
  /\ pc[t] = "body"
  /\ op[t] = "pop"
  /\ out' = [out EXCEPT ![t] = IF count > 0 THEN <<data[OldestOf(count)]>> ELSE <<>>]
  /\ count' = IF count > 0 THEN count - 1 ELSE count
  /\ pc' = [pc EXCEPT ![t] = "unlock"]
  /\ UNCHANGED <<data, head, total, owner, op, arg, before>>

Clear(t) ==
  /\ pc[t] = "body"
  /\ op[t] = "clear"
  /\ head' = 0
  /\ count' = 0
  /\ pc' = [pc EXCEPT ![t] = "unlock"]
  /\ UNCHANGED <<data, total, owner, op, arg, out, before>>

\* Mutant: the copy loop does not move on to the next element.
SnapshotCopy_Stuck(t) ==
  LET n == SnapshotLen(arg[t]) IN
  /\ pc[t] = "body"
  /\ op[t] = "snapshot"
  /\ Len(out[t]) < n
  /\ out' = [out EXCEPT ![t] = <<data[SlotOf(n, 0)]>>]
  /\ UNCHANGED <<shared, owner, op, arg, pc, before>>

\* snapshot: one turn of the copy loop; the first turn fixes n and start,
\* which cannot change while the lock is held.
SnapshotCopy(t) ==
  LET n == SnapshotLen(arg[t]) IN
  /\ pc[t] = "body"
  /\ op[t] = "snapshot"
  /\ Len(out[t]) < n
  /\ out' = [out EXCEPT ![t] = Append(@, data[SlotOf(n, Len(@))])]
  /\ UNCHANGED <<shared, owner, op, arg, pc, before>>

SnapshotEnd(t) ==
  /\ pc[t] = "body"
  /\ op[t] = "snapshot"
  /\ Len(out[t]) >= SnapshotLen(arg[t])
  /\ pc' = [pc EXCEPT ![t] = "unlock"]
  /\ UNCHANGED <<shared, owner, op, arg, out, before>>

Peek(t) ==
  /\ pc[t] = "body"
  /\ op[t] = "peek"
  /\ out' = [out EXCEPT ![t] =
               IF arg[t] < count THEN <<data[SlotOf(count, arg[t])]>> ELSE <<>>]
  /\ pc' = [pc EXCEPT ![t] = "unlock"]
  /\ UNCHANGED <<shared, owner, op, arg, before>>

Unlock(t) ==
  /\ pc[t] = "unlock"
  /\ owner' = NoThread
  /\ pc' = [pc EXCEPT ![t] = "idle"]
  /\ op' = [op EXCEPT ![t] = "none"]
  /\ arg' = [arg EXCEPT ![t] = 0]
  /\ out' = [out EXCEPT ![t] = <<>>]
  /\ UNCHANGED <<shared, before>>

\* The steps of a critical section: what the holder of the lock does.
Critical(t) ==
  \/ StoreElement(t) \/ Advance(t)
  \/ Pop(t) \/ Clear(t)
  \/ SnapshotCopy(t) \/ SnapshotEnd(t)
  \/ Peek(t)
  \/ Unlock(t)

Next == \E t \in Thread : Call(t) \/ Lock(t) \/ GiveUp(t) \/ Critical(t)

\* The scheduler runs the holder of a mutex (priority inheritance), so a
\* critical section once entered is left.
Fairness == \A t \in Thread : WF_vars(Critical(t))

Spec == Init /\ [][Next]_vars
FairSpec == Spec /\ Fairness

-----------------------------------------------------------------------------
(* Properties. *)

\* Every variable keeps its type; count and head stay inside the array.
TypeOK ==
  /\ data \in [Index -> Value \cup {NoValue}]
  /\ head \in Index
  /\ count \in 0 .. Capacity
  /\ total \in Nat
  /\ owner \in Thread \cup {NoThread}
  /\ op \in [Thread -> Ops \cup {"none"}]
  /\ arg \in [Thread -> Args]
  /\ pc \in [Thread -> {"idle", "wait", "body", "advance", "unlock"}]
  /\ out \in [Thread -> Seq(Value \cup {NoValue})]
  /\ before \in Seq(Value \cup {NoValue})

\* No reader is ever handed a slot that was never written, and the live
\* window never contains one, however pushes, pops and clears interleave.
LiveSlotsWritten ==
  /\ \A i \in 0 .. count - 1 : data[SlotOf(count, i)] \in Value
  /\ \A t \in Thread : \A i \in 1 .. Len(out[t]) : out[t][i] \in Value

\* The last n elements of a sequence.
Last(s, n) == SubSeq(s, Len(s) - n + 1, Len(s))

\* The i-th element, if there is one.
At(s, i) == IF i \in DOMAIN s THEN <<s[i]>> ELSE <<>>

\* What an operation returns when it leaves its critical section is what
\* an atomic operation would have returned on the contents at its start:
\* the newest elements in order for a snapshot, the oldest for a pop, the
\* index-th oldest for a peek.
ResultsAtomic ==
  \A t \in Thread : pc[t] = "unlock" =>
    CASE op[t] = "snapshot" ->
           out[t] = Last(before, IF Len(before) < arg[t] THEN Len(before) ELSE arg[t])
      [] op[t] = "pop"  -> out[t] = At(before, 1)
      [] op[t] = "peek" -> out[t] = At(before, arg[t] + 1)
      [] OTHER -> out[t] = <<>>

\* The ring implements the abstract queue.  An operation takes effect when
\* the lock is released: until then the queue is what it was at the start.
AbstractQueue == IF owner = NoThread THEN Contents ELSE before
AbstractTotal ==
  IF \E t \in Thread : pc[t] = "unlock" /\ op[t] \in PushOps THEN total - 1 ELSE total

Abstract == INSTANCE RecentQueue WITH queue <- AbstractQueue, total <- AbstractTotal

ImplementsRecentQueue == Abstract!Spec

\* A call that takes the mutex gives it back.
LockReleased == \A t \in Thread : owner = t ~> owner # t

=============================================================================
