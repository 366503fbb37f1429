-------------------------- MODULE RingBufferProofs --------------------------
(***************************************************************************)
(* Theorems about RingBuffer, for every capacity, set of tasks and set of  *)
(* values: its type invariant, mutual exclusion of the critical sections,  *)
(* that no task is ever handed a slot that was never written, that every   *)
(* result is that of an atomic operation, and that the ring implements     *)
(* RecentQueue.                                                            *)
(***************************************************************************)
EXTENDS RingBuffer, SequenceTheorems, TLAPS

InCritical == {"body", "advance", "unlock"}

\* A task is inside a critical section exactly when it holds the mutex.
Exclusion == \A t \in Thread : pc[t] \in InCritical <=> owner = t

\* A task that waits or runs has an operation and an argument of its kind;
\* only pushes reach the second half of a push.
CallsTyped ==
  \A t \in Thread :
    /\ pc[t] # "idle" => op[t] \in Ops /\ arg[t] \in ArgOf(op[t])
    /\ pc[t] = "advance" => op[t] \in PushOps

\* Between the two halves of a push the head slot already holds the element.
HeadStored == \A t \in Thread : pc[t] = "advance" => data[head] \in Value

\* The inductive invariant.
IInv == TypeOK /\ Exclusion /\ CallsTyped /\ HeadStored /\ LiveSlotsWritten

-----------------------------------------------------------------------------
(* Index arithmetic modulo the capacity. *)

Slot(h, n, i) == (((h + Capacity - n) % Capacity) + i) % Capacity

\* Every slot a reader computes lies inside the array.
LEMMA SlotRange ==
  ASSUME NEW h \in Index, NEW n \in 0 .. Capacity, NEW i \in 0 .. Capacity
  PROVE  Slot(h, n, i) \in Index
BY CapacityAssumption, SMT DEF Slot, Index

\* The two remainders folded into one comparison.
LEMMA SlotClosedForm ==
  ASSUME NEW h \in Index, NEW n \in 0 .. Capacity, NEW i \in 0 .. n
  PROVE  Slot(h, n, i) = IF h + i >= n THEN h + i - n ELSE h + i - n + Capacity
<1>1. (h + Capacity - n) % Capacity = IF h >= n /\ n > 0 THEN h - n
                                      ELSE IF n = 0 THEN h ELSE h + Capacity - n
  BY CapacityAssumption, SMT DEF Index
<1>. QED BY <1>1, CapacityAssumption, SMT DEF Slot, Index

\* Taking the oldest element away shifts the window by one.
LEMMA SlotAfterPop ==
  ASSUME NEW h \in Index, NEW n \in 1 .. Capacity, NEW i \in 0 .. n - 2
  PROVE  Slot(h, n - 1, i) = Slot(h, n, i + 1)
BY CapacityAssumption, SMT DEF Slot, Index

\* After a push into a ring with room the window has grown by the head slot.
LEMMA SlotAfterGrow ==
  ASSUME NEW h \in Index, NEW n \in 0 .. Capacity - 1, NEW i \in 0 .. n
  PROVE  Slot((h + 1) % Capacity, n + 1, i) = IF i = n THEN h ELSE Slot(h, n, i)
BY CapacityAssumption, SMT DEF Slot, Index

\* After a push into a full ring the window has moved on by one slot.
LEMMA SlotAfterSlide ==
  ASSUME NEW h \in Index, NEW i \in 0 .. Capacity - 1
  PROVE  Slot((h + 1) % Capacity, Capacity, i)
           = IF i = Capacity - 1 THEN h ELSE Slot(h, Capacity, i + 1)
BY CapacityAssumption, SMT DEF Slot, Index

\* The slot arithmetic of the code, with head as a parameter.
LEMMA SlotOfIsSlot ==
  ASSUME NEW n, NEW i
  PROVE  SlotOf(n, i) = Slot(head, n, i)
BY DEF SlotOf, OldestOf, Slot

\* The live slots, in the vocabulary of the lemmas above.
LEMMA LiveByIndex ==
  ASSUME TypeOK, LiveSlotsWritten, NEW n \in 0 .. count, NEW i \in 0 .. n - 1
  PROVE  data[SlotOf(n, i)] \in Value
<1>1. count - n + i \in 0 .. count - 1
  BY CapacityAssumption DEF TypeOK
<1>2. Slot(head, n, i) = Slot(head, count, count - n + i)
  <2>1. /\ head \in Index /\ n \in 0 .. Capacity /\ i \in 0 .. n
        /\ count \in 0 .. Capacity /\ count - n + i \in 0 .. count
    BY CapacityAssumption DEF TypeOK
  <2>2. Slot(head, n, i) = IF head + i >= n THEN head + i - n
                                            ELSE head + i - n + Capacity
    BY <2>1, SlotClosedForm
  <2>3. Slot(head, count, count - n + i)
          = IF head + (count - n + i) >= count THEN head + (count - n + i) - count
                                    ELSE head + (count - n + i) - count + Capacity
    BY <2>1, SlotClosedForm
  <2>. QED BY <2>1, <2>2, <2>3, CapacityAssumption DEF Index
<1>3. SlotOf(n, i) = SlotOf(count, count - n + i)
  BY <1>2, SlotOfIsSlot
<1>. QED BY <1>1, <1>3 DEF LiveSlotsWritten

-----------------------------------------------------------------------------
(* The invariant is inductive. *)

\* The ring starts out in the invariant.
LEMMA InitIInv == Init => IInv
<1>. SUFFICES ASSUME Init PROVE IInv
  OBVIOUS
<1>1. TypeOK
  BY CapacityAssumption DEF Init, TypeOK, Index, Args
<1>2. Exclusion /\ CallsTyped /\ HeadStored
  BY ThreadAssumption DEF Init, Exclusion, InCritical, CallsTyped, HeadStored
<1>3. LiveSlotsWritten
  BY DEF Init, LiveSlotsWritten
<1>. QED BY <1>1, <1>2, <1>3 DEF IInv

\* The contents an operation sees are a sequence of slot values.
LEMMA ContentsTyped ==
  ASSUME TypeOK PROVE Contents \in Seq(Value \cup {NoValue})
<1>1. \A i \in 1 .. count : data[SlotOf(count, i - 1)] \in Value \cup {NoValue}
  <2>. TAKE i \in 1 .. count
  <2>1. SlotOf(count, i - 1) \in Index
    BY CapacityAssumption, SlotRange, SlotOfIsSlot DEF TypeOK
  <2>. QED BY <2>1 DEF TypeOK
<1>2. count \in Nat
  BY CapacityAssumption DEF TypeOK
<1>. QED BY <1>1, <1>2 DEF Contents

\* No step takes a variable out of its type.
LEMMA TypeStep == IInv /\ [Next]_vars => TypeOK'
<1>. SUFFICES ASSUME IInv, [Next]_vars PROVE TypeOK'
  OBVIOUS
<1>. USE DEF IInv
<1>1. ASSUME NEW t \in Thread, Call(t) PROVE TypeOK'
  <2>1. PICK o \in Ops : \E a \in ArgOf(o) :
          op' = [op EXCEPT ![t] = o] /\ arg' = [arg EXCEPT ![t] = a]
    BY <1>1 DEF Call
  <2>2. \A a \in ArgOf(o) : a \in Args
    BY <2>1, CapacityAssumption DEF ArgOf, Ops, PushOps, Args
  <2>. QED BY <1>1, <2>1, <2>2 DEF Call, TypeOK, shared
<1>2. ASSUME NEW t \in Thread, Lock(t) PROVE TypeOK'
  BY <1>2, ContentsTyped DEF Lock, TypeOK, shared
<1>3. ASSUME NEW t \in Thread, GiveUp(t) PROVE TypeOK'
  BY <1>3 DEF GiveUp, TypeOK, shared, Args
<1>4. ASSUME NEW t \in Thread, StoreElement(t) PROVE TypeOK'
  <2>1. arg[t] \in Value
    BY <1>4 DEF StoreElement, CallsTyped, ArgOf, PushOps
  <2>. QED BY <1>4, <2>1 DEF StoreElement, TypeOK
<1>5. ASSUME NEW t \in Thread, Advance(t) PROVE TypeOK'
  <2>1. NextSlot(head) \in Index /\ CountAfterPush \in 0 .. Capacity
    BY CapacityAssumption, SMT DEF TypeOK, NextSlot, CountAfterPush, Index
  <2>. QED BY <1>5, <2>1 DEF Advance, TypeOK
<1>6. ASSUME NEW t \in Thread, Pop(t) PROVE TypeOK'
  <2>1. OldestOf(count) \in Index
    BY CapacityAssumption, SMT DEF TypeOK, OldestOf, Index
  <2>2. data[OldestOf(count)] \in Value \cup {NoValue}
    BY <2>1 DEF TypeOK
  <2>3. count' \in 0 .. Capacity
    BY <1>6, CapacityAssumption DEF Pop, TypeOK
  <2>. DEFINE result == IF count > 0 THEN <<data[OldestOf(count)]>> ELSE <<>>
  <2>4. result \in Seq(Value \cup {NoValue})
    <3>1. <<data[OldestOf(count)]>> \in Seq(Value \cup {NoValue})
      BY <2>2
    <3>2. <<>> \in Seq(Value \cup {NoValue})
      OBVIOUS
    <3>. QED BY <3>1, <3>2, Zenon
  <2>5. out' \in [Thread -> Seq(Value \cup {NoValue})]
    <3>1. out' = [out EXCEPT ![t] = result]
      BY <1>6 DEF Pop
    <3>. HIDE DEF result
    <3>. QED BY <2>4, <3>1 DEF TypeOK
  <2>. QED BY <1>6, <2>3, <2>5 DEF Pop, TypeOK
<1>7. ASSUME NEW t \in Thread, Clear(t) PROVE TypeOK'
  BY <1>7, CapacityAssumption DEF Clear, TypeOK, Index
<1>8. ASSUME NEW t \in Thread, SnapshotCopy(t) PROVE TypeOK'
  <2>. DEFINE n == SnapshotLen(arg[t])
              i == Len(out[t])
  <2>0. arg[t] \in 1 .. Capacity + 1
    BY <1>8 DEF SnapshotCopy, CallsTyped, ArgOf, PushOps
  <2>1. n \in 0 .. Capacity /\ i \in 0 .. Capacity
    BY <1>8, <2>0, CapacityAssumption DEF SnapshotCopy, TypeOK, SnapshotLen
  <2>2. data[SlotOf(n, i)] \in Value \cup {NoValue}
    BY <2>1, SlotRange, SlotOfIsSlot DEF TypeOK
  <2>. QED BY <1>8, <2>2 DEF SnapshotCopy, TypeOK, shared
<1>9. ASSUME NEW t \in Thread, SnapshotEnd(t) PROVE TypeOK'
  BY <1>9 DEF SnapshotEnd, TypeOK, shared
<1>10. ASSUME NEW t \in Thread, Peek(t) PROVE TypeOK'
  <2>1. arg[t] \in 0 .. Capacity
    BY <1>10 DEF Peek, CallsTyped, ArgOf, PushOps
  <2>2. CASE arg[t] < count
    <3>1. data[SlotOf(count, arg[t])] \in Value \cup {NoValue}
      BY <2>1, <2>2, SlotRange, SlotOfIsSlot DEF TypeOK
    <3>. QED BY <1>10, <2>2, <3>1 DEF Peek, TypeOK, shared
  <2>3. CASE ~(arg[t] < count)
    BY <1>10, <2>3 DEF Peek, TypeOK, shared
  <2>. QED BY <2>2, <2>3
<1>11. ASSUME NEW t \in Thread, Unlock(t) PROVE TypeOK'
  BY <1>11 DEF Unlock, TypeOK, shared, Args
<1>12. CASE UNCHANGED vars
  BY <1>12 DEF vars, shared, TypeOK
<1>. QED
  BY <1>1, <1>2, <1>3, <1>4, <1>5, <1>6, <1>7, <1>8, <1>9, <1>10, <1>11, <1>12
     DEF Next, Critical

\* No step lets a second task into a critical section.
LEMMA ExclusionStep == IInv /\ [Next]_vars => Exclusion' /\ CallsTyped'
<1>. SUFFICES ASSUME IInv, [Next]_vars PROVE Exclusion' /\ CallsTyped'
  OBVIOUS
<1>. USE DEF IInv, TypeOK, Exclusion, CallsTyped, InCritical, PushOps
<1>1. ASSUME NEW t \in Thread, Call(t) PROVE Exclusion' /\ CallsTyped'
  <2>1. PICK o \in Ops : \E a \in ArgOf(o) :
          op' = [op EXCEPT ![t] = o] /\ arg' = [arg EXCEPT ![t] = a]
    BY <1>1 DEF Call
  <2>. QED BY <1>1, <2>1 DEF Call
<1>2. ASSUME NEW t \in Thread, Lock(t) PROVE Exclusion' /\ CallsTyped'
  BY <1>2, ThreadAssumption DEF Lock, LockFree
<1>3. ASSUME NEW t \in Thread, GiveUp(t) PROVE Exclusion' /\ CallsTyped'
  BY <1>3 DEF GiveUp
<1>4. ASSUME NEW t \in Thread, StoreElement(t) PROVE Exclusion' /\ CallsTyped'
  BY <1>4 DEF StoreElement
<1>5. ASSUME NEW t \in Thread, Advance(t) PROVE Exclusion' /\ CallsTyped'
  BY <1>5 DEF Advance
<1>6. ASSUME NEW t \in Thread, Pop(t) PROVE Exclusion' /\ CallsTyped'
  BY <1>6 DEF Pop
<1>7. ASSUME NEW t \in Thread, Clear(t) PROVE Exclusion' /\ CallsTyped'
  BY <1>7 DEF Clear
<1>8. ASSUME NEW t \in Thread, SnapshotCopy(t) PROVE Exclusion' /\ CallsTyped'
  BY <1>8 DEF SnapshotCopy
<1>9. ASSUME NEW t \in Thread, SnapshotEnd(t) PROVE Exclusion' /\ CallsTyped'
  BY <1>9 DEF SnapshotEnd
<1>10. ASSUME NEW t \in Thread, Peek(t) PROVE Exclusion' /\ CallsTyped'
  BY <1>10 DEF Peek
<1>11. ASSUME NEW t \in Thread, Unlock(t) PROVE Exclusion' /\ CallsTyped'
  BY <1>11, ThreadAssumption DEF Unlock
<1>12. CASE UNCHANGED vars
  BY <1>12 DEF vars
<1>. QED
  BY <1>1, <1>2, <1>3, <1>4, <1>5, <1>6, <1>7, <1>8, <1>9, <1>10, <1>11, <1>12
     DEF Next, Critical

\* The two conjuncts of LiveSlotsWritten, apart.
WindowWritten == \A i \in 0 .. count - 1 : data[Slot(head, count, i)] \in Value
OutWritten == \A t \in Thread : \A i \in 1 .. Len(out[t]) : out[t][i] \in Value

\* The property splits into the live window and what readers hold.
LEMMA LiveIsBoth == LiveSlotsWritten <=> WindowWritten /\ OutWritten
BY SlotOfIsSlot DEF LiveSlotsWritten, WindowWritten, OutWritten

\* The same in the next state.
LEMMA LiveIsBothPrimed == LiveSlotsWritten' <=> WindowWritten' /\ OutWritten'
<1>1. \A n, i : SlotOf(n, i)' = Slot(head', n', i')
  BY DEF SlotOf, OldestOf, Slot
<1>. QED BY <1>1 DEF LiveSlotsWritten, WindowWritten, OutWritten

\* Once the head slot is written, moving the indices on keeps the live
\* window written: in a ring with room it grows, in a full one it slides.
LEMMA WindowAfterPush ==
  ASSUME TypeOK, WindowWritten, data[head] \in Value,
         head' = NextSlot(head), count' = CountAfterPush, data' = data
  PROVE  WindowWritten'
<1>. USE DEF WindowWritten
<1>0. count \in 0 .. Capacity /\ head \in Index
  BY DEF TypeOK
<1>1. CASE count < Capacity
  <2>. SUFFICES ASSUME NEW i \in 0 .. count
               PROVE  data[Slot(NextSlot(head), count + 1, i)] \in Value
    BY <1>0, <1>1, CapacityAssumption DEF CountAfterPush
  <2>1. count \in 0 .. Capacity - 1
    BY <1>0, <1>1, CapacityAssumption
  <2>2. Slot(NextSlot(head), count + 1, i) = IF i = count THEN head ELSE Slot(head, count, i)
    BY <1>0, <2>1, SlotAfterGrow DEF NextSlot
  <2>3. i # count => i \in 0 .. count - 1
    BY <2>1, CapacityAssumption
  <2>. QED BY <2>2, <2>3
<1>2. CASE ~(count < Capacity)
  <2>1. count = Capacity
    BY <1>0, <1>2, CapacityAssumption
  <2>. SUFFICES ASSUME NEW i \in 0 .. Capacity - 1
               PROVE  data[Slot(NextSlot(head), Capacity, i)] \in Value
    BY <1>2, <2>1 DEF CountAfterPush
  <2>2. Slot(NextSlot(head), Capacity, i)
          = IF i = Capacity - 1 THEN head ELSE Slot(head, Capacity, i + 1)
    BY <1>0, SlotAfterSlide DEF NextSlot
  <2>3. i # Capacity - 1 => i + 1 \in 0 .. count - 1
    BY <2>1, CapacityAssumption
  <2>. QED BY <2>1, <2>2, <2>3
<1>. QED BY <1>1, <1>2

\* No step exposes an unwritten slot, neither in the window nor to a reader.
LEMMA LiveStep == IInv /\ [Next]_vars => HeadStored' /\ LiveSlotsWritten'
<1>. SUFFICES ASSUME IInv, [Next]_vars
             PROVE  HeadStored' /\ WindowWritten' /\ OutWritten'
  BY LiveIsBothPrimed
<1>0. TypeOK /\ Exclusion /\ CallsTyped /\ HeadStored /\ WindowWritten /\ OutWritten
      /\ LiveSlotsWritten
  BY LiveIsBoth DEF IInv
<1>. DEFINE Goal == HeadStored' /\ WindowWritten' /\ OutWritten'
<1>1. ASSUME NEW t \in Thread,
             Call(t) \/ GiveUp(t) \/ Lock(t) \/ SnapshotEnd(t)
      PROVE  Goal
  BY <1>0, <1>1 DEF Call, GiveUp, Lock, SnapshotEnd, shared, TypeOK,
                    HeadStored, WindowWritten, OutWritten
<1>2. ASSUME NEW t \in Thread, StoreElement(t) PROVE Goal
  <2>1. arg[t] \in Value
    BY <1>0, <1>2 DEF StoreElement, CallsTyped, ArgOf, PushOps
  <2>2. data'[head] \in Value /\ \A s \in Index : data[s] \in Value => data'[s] \in Value
    BY <1>0, <1>2, <2>1 DEF StoreElement, TypeOK
  <2>3. \A i \in 0 .. count - 1 : Slot(head, count, i) \in Index
    BY <1>0, SlotRange, CapacityAssumption DEF TypeOK
  <2>. QED
    BY <1>0, <1>2, <2>2, <2>3 DEF StoreElement, HeadStored, WindowWritten, OutWritten
<1>3. ASSUME NEW t \in Thread, Advance(t) PROVE Goal
  <2>1. data[head] \in Value
    BY <1>0, <1>3 DEF Advance, HeadStored
  <2>2. WindowWritten'
    BY <1>0, <1>3, <2>1, WindowAfterPush DEF Advance
  <2>3. \A u \in Thread : pc'[u] # "advance"
    BY <1>0, <1>3 DEF Advance, Exclusion, InCritical, TypeOK
  <2>. QED BY <1>0, <1>3, <2>2, <2>3 DEF Advance, HeadStored, OutWritten
<1>4. ASSUME NEW t \in Thread, Pop(t) PROVE Goal
  <2>1. \A u \in Thread : pc'[u] # "advance"
    BY <1>0, <1>4 DEF Pop, Exclusion, InCritical, TypeOK
  <2>2. CASE count > 0
    <3>1. count \in 1 .. Capacity /\ head \in Index
      BY <1>0, <2>2, CapacityAssumption DEF TypeOK
    <3>2. WindowWritten'
      <4>. SUFFICES ASSUME NEW i \in 0 .. count - 2
                   PROVE  data[Slot(head, count - 1, i)] \in Value
        BY <1>4, <2>2, <3>1, CapacityAssumption DEF Pop, WindowWritten
      <4>1. Slot(head, count - 1, i) = Slot(head, count, i + 1)
        BY <3>1, SlotAfterPop
      <4>2. i + 1 \in 0 .. count - 1
        BY <3>1, CapacityAssumption
      <4>. QED BY <1>0, <4>1, <4>2 DEF WindowWritten
    <3>3. data[OldestOf(count)] \in Value
      <4>1. OldestOf(count) = Slot(head, count, 0)
        BY <3>1, CapacityAssumption, SMT DEF OldestOf, Slot, Index
      <4>2. 0 \in 0 .. count - 1
        BY <3>1, CapacityAssumption
      <4>. QED BY <1>0, <4>1, <4>2 DEF WindowWritten
    <3>4. out' = [out EXCEPT ![t] = <<data[OldestOf(count)]>>]
      BY <1>4, <2>2 DEF Pop
    <3>5. OutWritten'
      BY <1>0, <3>3, <3>4 DEF OutWritten, TypeOK
    <3>. QED BY <2>1, <3>2, <3>5 DEF HeadStored
  <2>3. CASE ~(count > 0)
    <3>1. out' = [out EXCEPT ![t] = <<>>]
      BY <1>4, <2>3 DEF Pop
    <3>2. OutWritten'
      BY <1>0, <3>1 DEF OutWritten, TypeOK
    <3>. QED BY <1>0, <1>4, <2>1, <2>3, <3>2 DEF Pop, HeadStored, WindowWritten
  <2>. QED BY <2>2, <2>3
<1>5. ASSUME NEW t \in Thread, Clear(t) PROVE Goal
  <2>1. \A u \in Thread : pc'[u] # "advance"
    BY <1>0, <1>5 DEF Clear, Exclusion, InCritical, TypeOK
  <2>. QED BY <1>0, <1>5, <2>1 DEF Clear, HeadStored, WindowWritten, OutWritten
<1>6. ASSUME NEW t \in Thread, SnapshotCopy(t) PROVE Goal
  <2>. DEFINE n == SnapshotLen(arg[t])
              e == data[SlotOf(n, Len(out[t]))]
  <2>0. arg[t] \in 1 .. Capacity + 1
    BY <1>0, <1>6 DEF SnapshotCopy, CallsTyped, ArgOf, PushOps
  <2>1. n \in 0 .. count /\ Len(out[t]) \in 0 .. n - 1
    BY <1>0, <1>6, <2>0, CapacityAssumption DEF SnapshotCopy, TypeOK, SnapshotLen
  <2>2. e \in Value
    BY <1>0, <2>1, LiveByIndex
  <2>3. out' = [out EXCEPT ![t] = Append(out[t], e)]
    BY <1>6 DEF SnapshotCopy
  <2>. HIDE DEF e
  <2>4. OutWritten'
    BY <1>0, <2>2, <2>3 DEF OutWritten, TypeOK
  <2>. QED BY <1>0, <1>6, <2>4 DEF SnapshotCopy, shared, HeadStored, WindowWritten
<1>7. ASSUME NEW t \in Thread, Peek(t) PROVE Goal
  <2>1. HeadStored' /\ WindowWritten'
    BY <1>0, <1>7 DEF Peek, shared, HeadStored, WindowWritten, TypeOK
  <2>2. arg[t] \in 0 .. Capacity
    BY <1>0, <1>7 DEF Peek, CallsTyped, ArgOf, PushOps
  <2>3. CASE arg[t] < count
    <3>1. data[SlotOf(count, arg[t])] \in Value
      BY <1>0, <2>2, <2>3, CapacityAssumption DEF LiveSlotsWritten, TypeOK
    <3>2. out' = [out EXCEPT ![t] = <<data[SlotOf(count, arg[t])]>>]
      BY <1>7, <2>3 DEF Peek
    <3>3. OutWritten'
      BY <1>0, <3>1, <3>2 DEF OutWritten, TypeOK
    <3>. QED BY <2>1, <3>3
  <2>4. CASE ~(arg[t] < count)
    <3>1. out' = [out EXCEPT ![t] = <<>>]
      BY <1>7, <2>4 DEF Peek
    <3>. QED BY <1>0, <2>1, <3>1 DEF OutWritten, TypeOK
  <2>. QED BY <2>3, <2>4
<1>8. ASSUME NEW t \in Thread, Unlock(t) PROVE Goal
  BY <1>0, <1>8 DEF Unlock, shared, HeadStored, WindowWritten, OutWritten, TypeOK
<1>9. CASE UNCHANGED vars
  BY <1>0, <1>9 DEF vars, shared, HeadStored, WindowWritten, OutWritten
<1>. QED
  BY <1>1, <1>2, <1>3, <1>4, <1>5, <1>6, <1>7, <1>8, <1>9 DEF Next, Critical

-----------------------------------------------------------------------------
(* The theorems. *)

\* The mutex excludes, arguments fit their operation, indices stay in the array
\* and only written slots are exposed, in every reachable state of every ring.
THEOREM InductiveInvariant == Spec => []IInv
<1>1. IInv /\ [Next]_vars => IInv'
  BY TypeStep, ExclusionStep, LiveStep DEF IInv
<1>. QED BY InitIInv, <1>1, PTL DEF Spec

\* Every variable keeps its type: the indices stay inside the array whatever
\* the capacity and however the calls interleave.
THEOREM TypeCorrect == Spec => []TypeOK
<1>1. IInv => TypeOK
  BY DEF IInv
<1>. QED BY InductiveInvariant, <1>1, PTL

\* No snapshot, pop or peek ever returns a slot that was not written since
\* the ring was created, and the live window holds written slots only.
THEOREM OnlyWrittenSlots == Spec => []LiveSlotsWritten
<1>1. IInv => LiveSlotsWritten
  BY DEF IInv
<1>. QED BY InductiveInvariant, <1>1, PTL

-----------------------------------------------------------------------------
(* Atomicity: what the array holds in the middle of an operation, as an     *)
(* operation on the contents found when the mutex was taken.                *)

Elem == Value \cup {NoValue}

\* The queue after a push.
Pushed(s, v) == IF Len(s) < Capacity THEN Append(s, v) ELSE Append(Tail(s), v)

\* The queue after t's operation, from the one before it.
Outcome(t) ==
  CASE op[t] \in PushOps -> Pushed(before, arg[t])
    [] op[t] = "pop" -> IF before = <<>> THEN before ELSE Tail(before)
    [] op[t] = "clear" -> <<>>
    [] OTHER -> before

\* Between the two halves of a push the head slot has the new element; in a full
\* ring that was the oldest one's, and the rest of the contents is untouched.
HalfPushed(t) ==
  /\ data[head] = arg[t]
  /\ Len(before) = count
  /\ \A i \in 1 .. count : count < Capacity \/ i # 1 => before[i] = Contents[i]

EffectKnown ==
  \A t \in Thread :
    /\ pc[t] = "body" => before = Contents
    /\ pc[t] = "advance" => HalfPushed(t)
    /\ pc[t] = "unlock" => Contents = Outcome(t)

\* A snapshot in progress has copied a prefix of the elements it will return.
CopiedSoFar(t) ==
  LET n == SnapshotLen(arg[t]) IN
  /\ Len(out[t]) <= n
  /\ \A i \in 1 .. Len(out[t]) : out[t][i] = before[count - n + i]

CopyKnown ==
  \A t \in Thread :
    IF op[t] = "snapshot" /\ pc[t] = "body" THEN CopiedSoFar(t)
    ELSE pc[t] # "unlock" => out[t] = <<>>

Atomicity == EffectKnown /\ CopyKnown /\ ResultsAtomic

\* The contents, element by element.
LEMMA ContentsByIndex ==
  ASSUME TypeOK
  PROVE  /\ Contents \in Seq(Elem) /\ Len(Contents) = count /\ count \in Nat
         /\ \A i \in 1 .. count : Contents[i] = data[Slot(head, count, i - 1)]
<1>1. count \in Nat
  BY CapacityAssumption DEF TypeOK
<1>2. Contents = [i \in 1 .. count |-> data[Slot(head, count, i - 1)]]
  BY SlotOfIsSlot DEF Contents
<1>. QED BY <1>1, <1>2, ContentsTyped DEF Elem

\* The same in the next state.
LEMMA ContentsByIndexPrimed ==
  ASSUME TypeOK'
  PROVE  /\ Contents' \in Seq(Elem) /\ Len(Contents') = count' /\ count' \in Nat
         /\ \A i \in 1 .. count' : Contents'[i] = data'[Slot(head', count', i - 1)]
<1>1. count' \in Nat
  BY CapacityAssumption DEF TypeOK
<1>2. Contents' = [i \in 1 .. count' |-> data'[Slot(head', count', i - 1)]]
  BY DEF Contents, SlotOf, OldestOf, Slot
<1>3. \A i \in 1 .. count' : data'[Slot(head', count', i - 1)] \in Elem
  <2>. TAKE i \in 1 .. count'
  <2>1. head' \in Index /\ count' \in 0 .. Capacity /\ i - 1 \in 0 .. Capacity
    BY CapacityAssumption DEF TypeOK
  <2>2. Slot(head', count', i - 1) \in Index
    BY <2>1, SlotRange
  <2>. QED BY <2>2 DEF TypeOK, Elem
<1>. QED BY <1>1, <1>2, <1>3

\* What does not touch the array leaves the contents alone.
LEMMA ContentsUnchanged == UNCHANGED shared => Contents' = Contents
BY DEF shared, Contents, SlotOf, OldestOf

\* Writing the head slot changes no element but the oldest of a full ring.
LEMMA HeadIsOutside ==
  ASSUME NEW h \in Index, NEW n \in 0 .. Capacity, NEW i \in 1 .. n,
         n < Capacity \/ i # 1
  PROVE  Slot(h, n, i - 1) # h
<1>1. i - 1 \in 0 .. n /\ n \in 0 .. Capacity
  BY CapacityAssumption
<1>2. Slot(h, n, i - 1) = IF h + (i - 1) >= n THEN h + (i - 1) - n
                                              ELSE h + (i - 1) - n + Capacity
  BY <1>1, SlotClosedForm
<1>. QED BY <1>1, <1>2, CapacityAssumption DEF Index

\* Moving the indices on completes the push.
LEMMA AdvancePushes ==
  ASSUME TypeOK, TypeOK', NEW t \in Thread, HalfPushed(t), arg[t] \in Value,
         head' = NextSlot(head), count' = CountAfterPush, data' = data
  PROVE  Contents' = Pushed(before, arg[t])
<1>0. count \in 0 .. Capacity /\ head \in Index /\ before \in Seq(Elem) /\ arg[t] \in Elem
  BY DEF TypeOK, Elem
<1>. DEFINE v == arg[t]
<1>1. CASE count < Capacity
  <2>1. count' = count + 1
    BY <1>1 DEF CountAfterPush
  <2>2. Len(Append(before, v)) = count + 1 /\ Append(before, v) \in Seq(Elem)
        /\ \A i \in 1 .. count : Append(before, v)[i] = before[i]
        /\ Append(before, v)[count + 1] = v
    BY <1>0, AppendProperties DEF HalfPushed
  <2>3. \A i \in 1 .. count + 1 : Contents'[i] = Append(before, v)[i]
    <3>. TAKE i \in 1 .. count + 1
    <3>1. count \in 0 .. Capacity - 1 /\ i - 1 \in 0 .. count
      BY <1>0, <1>1, CapacityAssumption
    <3>2. Contents'[i] = data[Slot(NextSlot(head), count + 1, i - 1)]
      BY <2>1, ContentsByIndexPrimed
    <3>3. Contents'[i] = data[IF i - 1 = count THEN head ELSE Slot(head, count, i - 1)]
      BY <1>0, <3>1, <3>2, SlotAfterGrow DEF NextSlot
    <3>4. CASE i = count + 1
      BY <1>0, <2>2, <3>3, <3>4 DEF HalfPushed
    <3>5. CASE i # count + 1
      <4>1. i \in 1 .. count
        BY <1>0, <3>5
      <4>2. Contents'[i] = Contents[i]
        BY <1>0, <3>3, <4>1, ContentsByIndex
      <4>. QED BY <1>1, <2>2, <4>1, <4>2 DEF HalfPushed
    <3>. QED BY <3>4, <3>5
  <2>4. Contents' = Append(before, v)
    <3>. HIDE DEF v
    <3>. QED BY <2>1, <2>2, <2>3, ContentsByIndexPrimed, SeqEqual
  <2>. QED BY <1>1, <2>4 DEF Pushed, HalfPushed
<1>2. CASE ~(count < Capacity)
  <2>1. count = Capacity /\ count' = Capacity /\ before # <<>>
    BY <1>0, <1>2, CapacityAssumption DEF CountAfterPush, HalfPushed
  <2>2. Tail(before) \in Seq(Elem) /\ Len(Tail(before)) = Capacity - 1
        /\ \A i \in 1 .. Capacity - 1 : Tail(before)[i] = before[i + 1]
    BY <1>0, <2>1, HeadTailProperties DEF HalfPushed
  <2>3. Len(Append(Tail(before), v)) = Capacity /\ Append(Tail(before), v) \in Seq(Elem)
        /\ (\A i \in 1 .. Capacity - 1 : Append(Tail(before), v)[i] = before[i + 1])
        /\ Append(Tail(before), v)[Capacity] = v
    <3>1. Len(Append(Tail(before), v)) = Len(Tail(before)) + 1
          /\ Append(Tail(before), v) \in Seq(Elem)
          /\ (\A i \in 1 .. Len(Tail(before)) : Append(Tail(before), v)[i] = Tail(before)[i])
          /\ Append(Tail(before), v)[Len(Tail(before)) + 1] = v
      BY <1>0, <2>2, AppendProperties
    <3>. QED BY <2>2, <3>1, CapacityAssumption
  <2>4. \A i \in 1 .. Capacity : Contents'[i] = Append(Tail(before), v)[i]
    <3>. TAKE i \in 1 .. Capacity
    <3>1. i - 1 \in 0 .. Capacity - 1
      BY CapacityAssumption
    <3>2. Contents'[i] = data[Slot(NextSlot(head), Capacity, i - 1)]
      BY <2>1, ContentsByIndexPrimed
    <3>3. Contents'[i] = data[IF i - 1 = Capacity - 1 THEN head ELSE Slot(head, Capacity, i)]
      BY <1>0, <3>1, <3>2, SlotAfterSlide DEF NextSlot
    <3>4. CASE i = Capacity
      BY <2>3, <3>3, <3>4 DEF HalfPushed
    <3>5. CASE i # Capacity
      <4>1. i + 1 \in 1 .. count /\ i + 1 # 1
        BY <2>1, <3>5, CapacityAssumption
      <4>2. Contents[i + 1] = data[Slot(head, Capacity, i)]
        BY <2>1, <4>1, ContentsByIndex
      <4>3. before[i + 1] = Contents[i + 1]
        BY <4>1 DEF HalfPushed
      <4>. QED BY <2>3, <3>3, <3>5, <4>2, <4>3, CapacityAssumption
    <3>. QED BY <3>4, <3>5
  <2>5. Contents' = Append(Tail(before), v)
    <3>. HIDE DEF v
    <3>. QED BY <2>1, <2>3, <2>4, ContentsByIndexPrimed, SeqEqual
  <2>. QED BY <1>2, <2>5 DEF Pushed, HalfPushed
<1>. QED BY <1>1, <1>2

\* A step of a task outside every critical section leaves each task's pending
\* effect as it was.
LEMMA QuietStep ==
  ASSUME IInv, Atomicity, NEW t \in Thread, Call(t) \/ GiveUp(t)
  PROVE  Atomicity'
<1>. USE DEF IInv, TypeOK
<1>1. UNCHANGED <<shared, out, before>> /\ Contents' = Contents
  BY ContentsUnchanged DEF Call, GiveUp, shared
<1>2. pc[t] \notin InCritical /\ pc'[t] \in {"idle", "wait"}
  BY DEF Call, GiveUp, InCritical
<1>3. \A u \in Thread : u # t => pc'[u] = pc[u] /\ op'[u] = op[u] /\ arg'[u] = arg[u]
  <2>1. CASE Call(t)
    <3>1. PICK o \in Ops : \E a \in ArgOf(o) :
            op' = [op EXCEPT ![t] = o] /\ arg' = [arg EXCEPT ![t] = a]
      BY <2>1 DEF Call
    <3>. QED BY <2>1, <3>1 DEF Call
  <2>2. CASE GiveUp(t)
    BY <2>2 DEF GiveUp
  <2>. QED BY <2>1, <2>2
<1>4. EffectKnown'
  <2>1. \A u \in Thread : u # t => Outcome(u)' = Outcome(u)
    BY <1>1, <1>3 DEF Outcome, Pushed
  <2>2. \A u \in Thread : u # t => HalfPushed(u)' = HalfPushed(u)
    BY <1>1, <1>3 DEF HalfPushed, shared
  <2>. QED BY <1>1, <1>2, <1>3, <2>1, <2>2 DEF Atomicity, EffectKnown
<1>5. CopyKnown'
  <2>1. \A u \in Thread : u # t => CopiedSoFar(u)' = CopiedSoFar(u)
    BY <1>1, <1>3 DEF CopiedSoFar, SnapshotLen, shared
  <2>2. out[t] = <<>>
    BY <1>2 DEF Atomicity, CopyKnown, InCritical
  <2>. QED BY <1>1, <1>2, <1>3, <2>1, <2>2 DEF Atomicity, CopyKnown
<1>6. ResultsAtomic'
  BY <1>1, <1>2, <1>3 DEF Atomicity, ResultsAtomic, Last, At
<1>. QED BY <1>4, <1>5, <1>6 DEF Atomicity

\* A step of the task that holds the mutex disturbs no other task: what remains is
\* that task's own place.
LEMMA HolderStep ==
  ASSUME IInv, Atomicity, NEW t \in Thread, owner = t \/ owner = NoThread,
         pc' = [pc EXCEPT ![t] = pc'[t]], out' = [out EXCEPT ![t] = out'[t]],
         pc'[t] = "body" => before' = Contents',
         pc'[t] = "advance" => HalfPushed(t)',
         pc'[t] = "unlock" => Contents' = Outcome(t)',
         IF op'[t] = "snapshot" /\ pc'[t] = "body" THEN CopiedSoFar(t)'
         ELSE pc'[t] # "unlock" => out'[t] = <<>>,
         pc'[t] = "unlock" =>
           CASE op'[t] = "snapshot" ->
                  out'[t] = Last(before', IF Len(before') < arg'[t] THEN Len(before') ELSE arg'[t])
             [] op'[t] = "pop"  -> out'[t] = At(before', 1)
             [] op'[t] = "peek" -> out'[t] = At(before', arg'[t] + 1)
             [] OTHER -> out'[t] = <<>>
  PROVE  Atomicity'
<1>1. \A u \in Thread : u # t => pc[u] \notin InCritical
  BY ThreadAssumption DEF IInv, Exclusion
<1>2. \A u \in Thread : u # t => pc'[u] = pc[u] /\ out'[u] = out[u] /\ out[u] = <<>>
  BY <1>1 DEF IInv, TypeOK, Atomicity, CopyKnown, InCritical
<1>3. EffectKnown'
  BY <1>1, <1>2 DEF EffectKnown, InCritical
<1>4. CopyKnown'
  BY <1>1, <1>2 DEF CopyKnown, InCritical
<1>5. ResultsAtomic'
  BY <1>1, <1>2 DEF ResultsAtomic, InCritical
<1>. QED BY <1>3, <1>4, <1>5 DEF Atomicity

\* The oldest element is the first of the contents.
LEMMA OldestIsFirst ==
  ASSUME TypeOK, count > 0
  PROVE  data[OldestOf(count)] = Contents[1]
<1>1. head \in Index /\ count \in 1 .. Capacity
  BY DEF TypeOK
<1>2. OldestOf(count) = Slot(head, count, 0)
  BY <1>1, CapacityAssumption, SMT DEF OldestOf, Slot, Index
<1>3. 1 \in 1 .. count /\ 1 - 1 = 0
  BY <1>1
<1>. QED BY <1>2, <1>3, ContentsByIndex

\* A pop takes the first element and leaves the rest.
LEMMA PopTakesFirst ==
  ASSUME IInv, TypeOK', Atomicity, NEW t \in Thread, Pop(t)
  PROVE  Contents' = Outcome(t) /\ out'[t] = At(before, 1)
<1>0. /\ before = Contents /\ before \in Seq(Elem) /\ Len(before) = count /\ count \in Nat
      /\ head \in Index /\ count \in 0 .. Capacity /\ op[t] = "pop"
  BY ContentsByIndex DEF Pop, IInv, TypeOK, Atomicity, EffectKnown, Elem
<1>1. Outcome(t) = IF before = <<>> THEN before ELSE Tail(before)
  BY <1>0 DEF Outcome, PushOps
<1>2. CASE count > 0
  <2>1. count' = count - 1 /\ data' = data /\ head' = head /\ before # <<>>
    BY <1>0, <1>2 DEF Pop
  <2>2. Tail(before) \in Seq(Elem) /\ Len(Tail(before)) = count - 1
        /\ \A i \in 1 .. count - 1 : Tail(before)[i] = before[i + 1]
    BY <1>0, <2>1, HeadTailProperties
  <2>3. \A i \in 1 .. count - 1 : Contents'[i] = Tail(before)[i]
    <3>. TAKE i \in 1 .. count - 1
    <3>1. count \in 1 .. Capacity /\ i - 1 \in 0 .. count - 2 /\ i + 1 \in 1 .. count
          /\ (i - 1) + 1 = i /\ (i + 1) - 1 = i
      BY <1>0
    <3>2. Contents'[i] = data[Slot(head, count - 1, i - 1)]
      BY <2>1, ContentsByIndexPrimed
    <3>3. Slot(head, count - 1, i - 1) = Slot(head, count, i)
      BY <1>0, <3>1, SlotAfterPop
    <3>4. Contents[i + 1] = data[Slot(head, count, i)]
      BY <3>1, ContentsByIndex DEF IInv
    <3>. QED BY <1>0, <2>2, <3>2, <3>3, <3>4
  <2>4. Contents' = Tail(before)
    BY <2>1, <2>2, <2>3, ContentsByIndexPrimed, SeqEqual
  <2>5. out'[t] = <<before[1]>>
    BY <1>0, <1>2, OldestIsFirst DEF Pop, IInv, TypeOK
  <2>6. 1 \in DOMAIN before
    BY <1>0, <1>2
  <2>. QED BY <1>1, <2>1, <2>4, <2>5, <2>6 DEF At
<1>3. CASE ~(count > 0)
  <2>1. count = 0 /\ before = <<>> /\ UNCHANGED shared
    BY <1>0, <1>3 DEF Pop, shared
  <2>2. out'[t] = <<>>
    BY <1>3 DEF Pop, IInv, TypeOK
  <2>3. 1 \notin DOMAIN before
    BY <1>0, <2>1
  <2>. QED BY <1>0, <1>1, <2>1, <2>2, <2>3, ContentsUnchanged DEF At
<1>. QED BY <1>2, <1>3

\* A finished copy is the newest elements of the contents.
LEMMA CopyIsLast ==
  ASSUME IInv, Atomicity, NEW t \in Thread, SnapshotEnd(t)
  PROVE  out[t] = Last(before, IF Len(before) < arg[t] THEN Len(before) ELSE arg[t])
<1>. DEFINE n == SnapshotLen(arg[t])
<1>0. /\ before = Contents /\ before \in Seq(Elem) /\ Len(before) = count /\ count \in Nat
      /\ out[t] \in Seq(Elem)
  BY ContentsByIndex DEF SnapshotEnd, IInv, TypeOK, Atomicity, EffectKnown, Elem
<1>1. CopiedSoFar(t)
  BY DEF SnapshotEnd, Atomicity, CopyKnown
<1>2. arg[t] \in 1 .. Capacity + 1
  BY DEF SnapshotEnd, IInv, CallsTyped, ArgOf, PushOps
<1>3. n \in 0 .. count /\ n = IF Len(before) < arg[t] THEN Len(before) ELSE arg[t]
  BY <1>0, <1>2, CapacityAssumption DEF SnapshotLen
<1>4. Len(out[t]) = n /\ \A i \in 1 .. n : out[t][i] = before[count - n + i]
  <2>1. Len(out[t]) <= n /\ Len(out[t]) >= n /\ Len(out[t]) \in Nat
    BY <1>0, <1>1 DEF CopiedSoFar, SnapshotEnd
  <2>2. Len(out[t]) = n
    BY <1>3, <2>1
  <2>. QED BY <1>1, <2>2 DEF CopiedSoFar
<1>. HIDE DEF n
<1>5. \A i \in count - n + 1 .. count : before[i] \in Elem
  BY <1>0, <1>3
<1>. DEFINE newest == SubSeq(before, count - n + 1, count)
<1>6. newest \in Seq(Elem) /\ Len(newest) = n /\ \A i \in 1 .. n : newest[i] = before[count - n + i]
  <2>1. count - n + 1 \in Int /\ count \in Int /\ count - (count - n + 1) + 1 = n
    BY <1>0, <1>3
  <2>2. /\ newest \in Seq(Elem)
        /\ Len(newest) = IF count - n + 1 <= count THEN count - (count - n + 1) + 1 ELSE 0
        /\ \A i \in 1 .. count - (count - n + 1) + 1 : newest[i] = before[count - n + 1 + i - 1]
    BY <1>5, <2>1, SubSeqProperties
  <2>. HIDE DEF newest
  <2>3. \A i \in 1 .. n : count - n + 1 + i - 1 = count - n + i
    BY <1>0, <1>3
  <2>4. (IF count - n + 1 <= count THEN n ELSE 0) = n
    BY <1>0, <1>3
  <2>. QED BY <2>1, <2>2, <2>3, <2>4
<1>7. out[t] = newest
  <2>. HIDE DEF newest
  <2>. QED BY <1>0, <1>4, <1>6, SeqEqual
<1>. QED BY <1>0, <1>3, <1>7 DEF Last

\* Every effect and every result is that of the operation on the contents found,
\* step after step.
LEMMA AtomicityStep == IInv /\ IInv' /\ Atomicity /\ [Next]_vars => Atomicity'
<1>. SUFFICES ASSUME IInv, IInv', Atomicity, [Next]_vars
             PROVE  Atomicity'
  OBVIOUS
<1>0. TypeOK /\ TypeOK' /\ Exclusion /\ CallsTyped
  BY DEF IInv
<1>1. ASSUME NEW t \in Thread, Call(t) \/ GiveUp(t) PROVE Atomicity'
  BY <1>1, QuietStep
<1>2. ASSUME NEW t \in Thread, Lock(t) PROVE Atomicity'
  <2>1. pc'[t] = "body" /\ out'[t] = <<>> /\ before' = Contents' /\ count \in Nat
    BY <1>0, <1>2, ContentsUnchanged, ContentsByIndex
       DEF Lock, TypeOK, Atomicity, CopyKnown
  <2>2. op[t] = "snapshot" => CopiedSoFar(t)'
    <3>1. op[t] = "snapshot" => arg[t] \in 1 .. Capacity + 1
      BY <1>0, <1>2 DEF Lock, CallsTyped, ArgOf, PushOps
    <3>. QED BY <1>2, <2>1, <3>1, CapacityAssumption DEF Lock, shared, CopiedSoFar, SnapshotLen
  <2>. QED BY <1>0, <1>2, <2>1, <2>2, HolderStep, ZenonT(60) DEF Lock, LockFree, TypeOK
<1>3. ASSUME NEW t \in Thread, StoreElement(t) PROVE Atomicity'
  <2>1. /\ owner = t /\ pc'[t] = "advance" /\ out'[t] = <<>> /\ op[t] # "snapshot"
        /\ before = Contents
    BY <1>0, <1>3
       DEF StoreElement, TypeOK, Atomicity, EffectKnown, CopyKnown, Exclusion, InCritical, PushOps
  <2>2. HalfPushed(t)'
    <3>1. data'[head] = arg[t] /\ head' = head /\ count' = count /\ Len(before) = count
          /\ head \in Index /\ count \in 0 .. Capacity
      BY <1>0, <1>3, <2>1, ContentsByIndex DEF StoreElement, TypeOK
    <3>2. ASSUME NEW i \in 1 .. count, count < Capacity \/ i # 1
          PROVE  before[i] = Contents'[i]
      <4>1. Slot(head, count, i - 1) # head /\ Slot(head, count, i - 1) \in Index
        BY <3>1, <3>2, HeadIsOutside, SlotRange, CapacityAssumption
      <4>2. data'[Slot(head, count, i - 1)] = data[Slot(head, count, i - 1)]
        BY <1>0, <1>3, <4>1 DEF StoreElement, TypeOK
      <4>3. Contents'[i] = data'[Slot(head, count, i - 1)]
        BY <1>0, <3>1, ContentsByIndexPrimed
      <4>. QED BY <1>0, <2>1, <4>2, <4>3, ContentsByIndex
    <3>. QED BY <1>3, <3>1, <3>2 DEF StoreElement, HalfPushed
  <2>. QED BY <1>0, <1>3, <2>1, <2>2, HolderStep, ZenonT(60) DEF StoreElement, TypeOK
<1>4. ASSUME NEW t \in Thread, Advance(t) PROVE Atomicity'
  <2>1. /\ owner = t /\ pc'[t] = "unlock" /\ out'[t] = <<>> /\ op[t] \in PushOps
        /\ HalfPushed(t) /\ arg[t] \in Value
    BY <1>0, <1>4
       DEF Advance, TypeOK, Atomicity, EffectKnown, CopyKnown, CallsTyped, Exclusion, InCritical,
           PushOps, ArgOf
  <2>2. Contents' = Pushed(before, arg[t])
    BY <1>0, <1>4, <2>1, AdvancePushes DEF Advance
  <2>3. Contents' = Outcome(t)'
    <3>1. op'[t] \in PushOps /\ before' = before /\ arg'[t] = arg[t]
      BY <1>4, <2>1 DEF Advance
    <3>2. Outcome(t)' = Pushed(before', arg'[t])
      <4>1. op'[t] # "pop" /\ op'[t] # "clear"
        BY <3>1 DEF PushOps
      <4>. QED BY <3>1, <4>1 DEF Outcome
    <3>. QED BY <2>2, <3>1, <3>2
  <2>. QED BY <1>0, <1>4, <2>1, <2>3, HolderStep, ZenonT(60) DEF Advance, TypeOK, PushOps
<1>5. ASSUME NEW t \in Thread, Pop(t) PROVE Atomicity'
  <2>1. owner = t /\ pc'[t] = "unlock" /\ op[t] = "pop"
    BY <1>0, <1>5 DEF Pop, TypeOK, Exclusion, InCritical
  <2>2. Contents' = Outcome(t)' /\ out'[t] = At(before', 1)
    BY <1>0, <1>5, PopTakesFirst DEF Pop, Outcome, Pushed
  <2>3. out' = [out EXCEPT ![t] = out'[t]]
    BY <1>0, <1>5 DEF Pop, TypeOK
  <2>. QED BY <1>0, <1>5, <2>1, <2>2, <2>3, HolderStep DEF Pop, TypeOK
<1>6. ASSUME NEW t \in Thread, Clear(t) PROVE Atomicity'
  <2>1. owner = t /\ pc'[t] = "unlock" /\ op[t] = "clear" /\ out'[t] = <<>>
    BY <1>0, <1>6 DEF Clear, TypeOK, Atomicity, CopyKnown, Exclusion, InCritical
  <2>2. Contents' = <<>>
    BY <1>0, <1>6, ContentsByIndexPrimed, EmptySeq DEF Clear
  <2>3. Contents' = Outcome(t)'
    BY <1>6, <2>1, <2>2 DEF Clear, Outcome, PushOps
  <2>. QED BY <1>0, <1>6, <2>1, <2>3, HolderStep, ZenonT(60) DEF Clear, TypeOK
<1>7. ASSUME NEW t \in Thread, SnapshotCopy(t) PROVE Atomicity'
  <2>. DEFINE n == SnapshotLen(arg[t])
              e == data[SlotOf(n, Len(out[t]))]
  <2>1. /\ owner = t /\ pc'[t] = "body" /\ op[t] = "snapshot" /\ before' = Contents'
        /\ before = Contents /\ CopiedSoFar(t) /\ out[t] \in Seq(Elem)
    BY <1>0, <1>7, ContentsUnchanged
       DEF SnapshotCopy, TypeOK, Atomicity, EffectKnown, CopyKnown, Exclusion, InCritical, Elem
  <2>2. arg[t] \in 1 .. Capacity + 1
    BY <1>0, <1>7 DEF SnapshotCopy, CallsTyped, ArgOf, PushOps
  <2>3. n \in 0 .. count /\ count \in 0 .. Capacity /\ Len(out[t]) \in 0 .. n - 1 /\ head \in Index
    BY <1>0, <1>7, <2>2, CapacityAssumption DEF SnapshotCopy, TypeOK, SnapshotLen
  <2>4. e = before[count - n + Len(out[t]) + 1]
    <3>. DEFINE i == Len(out[t])
    <3>0. n \in 0 .. count /\ i \in 0 .. n - 1
      BY <2>3
    <3>. HIDE DEF i, n
    <3>1. i \in 0 .. n /\ count - n + i \in 0 .. count /\ count - n + i + 1 \in 1 .. count
          /\ n \in 0 .. Capacity
      BY <2>3, <3>0, CapacityAssumption
    <3>2. Slot(head, n, i) = IF head + i >= n THEN head + i - n ELSE head + i - n + Capacity
      BY <2>3, <3>1, SlotClosedForm
    <3>3. Slot(head, count, count - n + i)
            = IF head + (count - n + i) >= count THEN head + (count - n + i) - count
                                       ELSE head + (count - n + i) - count + Capacity
      BY <2>3, <3>1, SlotClosedForm
    <3>4. Slot(head, n, i) = Slot(head, count, count - n + i)
      BY <2>3, <3>1, <3>2, <3>3, CapacityAssumption DEF Index
    <3>5. Contents[count - n + i + 1] = data[Slot(head, count, (count - n + i + 1) - 1)]
      BY <1>0, <3>1, ContentsByIndex
    <3>6. (count - n + i + 1) - 1 = count - n + i
      BY <2>3, <3>1
    <3>. QED BY <2>1, <3>4, <3>5, <3>6, SlotOfIsSlot DEF i, n
  <2>5. out'[t] = Append(out[t], e) /\ out' = [out EXCEPT ![t] = out'[t]]
    BY <1>0, <1>7 DEF SnapshotCopy, TypeOK
  <2>6. e \in Elem
    <3>. DEFINE i == Len(out[t])
    <3>0. n \in 0 .. count /\ i \in 0 .. n - 1 /\ e = data[SlotOf(n, i)]
      BY <2>3
    <3>. HIDE DEF i, n, e
    <3>1. n \in 0 .. Capacity /\ i \in 0 .. Capacity
      BY <2>3, <3>0, CapacityAssumption
    <3>. QED BY <1>0, <2>3, <3>0, <3>1, SlotRange, SlotOfIsSlot DEF TypeOK, Elem
  <2>7. CopiedSoFar(t)'
    <3>. HIDE DEF e, n
    <3>1. SnapshotLen(arg[t])' = n
      BY <1>7 DEF SnapshotCopy, SnapshotLen, shared, n
    <3>2. Len(out'[t]) = Len(out[t]) + 1
          /\ (\A i \in 1 .. Len(out[t]) : out'[t][i] = out[t][i])
          /\ out'[t][Len(out[t]) + 1] = e
      BY <2>1, <2>5, <2>6, AppendProperties
    <3>3. \A i \in 1 .. Len(out'[t]) : out'[t][i] = before[count - n + i]
      <4>. TAKE i \in 1 .. Len(out'[t])
      <4>1. CASE i = Len(out[t]) + 1
        <5>1. count - n + Len(out[t]) + 1 = count - n + i
          BY <2>3, <4>1
        <5>. QED BY <2>4, <3>2, <4>1, <5>1
      <4>2. CASE i # Len(out[t]) + 1
        <5>1. i \in 1 .. Len(out[t])
          BY <2>3, <3>2, <4>2
        <5>. QED BY <2>1, <3>2, <5>1 DEF CopiedSoFar, n
      <4>. QED BY <4>1, <4>2
    <3>. QED BY <1>7, <2>3, <3>1, <3>2, <3>3 DEF SnapshotCopy, shared, CopiedSoFar
  <2>. QED BY <1>0, <1>7, <2>1, <2>5, <2>7, HolderStep, ZenonT(60) DEF SnapshotCopy, TypeOK
<1>8. ASSUME NEW t \in Thread, SnapshotEnd(t) PROVE Atomicity'
  <2>1. /\ owner = t /\ pc'[t] = "unlock" /\ op[t] = "snapshot" /\ Contents' = before
    BY <1>0, <1>8, ContentsUnchanged
       DEF SnapshotEnd, TypeOK, Atomicity, EffectKnown, Exclusion, InCritical
  <2>2. out'[t] = Last(before', IF Len(before') < arg'[t] THEN Len(before') ELSE arg'[t])
    BY <1>8, CopyIsLast DEF SnapshotEnd, Last
  <2>3. Contents' = Outcome(t)'
    BY <1>8, <2>1 DEF SnapshotEnd, Outcome, PushOps
  <2>. QED BY <1>0, <1>8, <2>1, <2>2, <2>3, HolderStep, ZenonT(60) DEF SnapshotEnd, TypeOK
<1>9. ASSUME NEW t \in Thread, Peek(t) PROVE Atomicity'
  <2>1. /\ owner = t /\ pc'[t] = "unlock" /\ op[t] = "peek" /\ Contents' = before
        /\ before = Contents
    BY <1>0, <1>9, ContentsUnchanged
       DEF Peek, TypeOK, Atomicity, EffectKnown, Exclusion, InCritical
  <2>2. arg[t] \in Nat
    BY <1>0, <1>9, CapacityAssumption DEF Peek, CallsTyped, ArgOf, PushOps
  <2>3. Len(before) = count /\ before \in Seq(Elem) /\ count \in Nat
        /\ (arg[t] + 1 \in DOMAIN before <=> arg[t] < count)
    BY <1>0, <2>1, <2>2, ContentsByIndex
  <2>4. arg[t] < count => data[SlotOf(count, arg[t])] = before[arg[t] + 1]
    <3>1. arg[t] < count => arg[t] + 1 \in 1 .. count /\ (arg[t] + 1) - 1 = arg[t]
      BY <2>2, <2>3
    <3>. QED BY <1>0, <2>1, <3>1, ContentsByIndex, SlotOfIsSlot
  <2>5. out'[t] = At(before', arg'[t] + 1) /\ out' = [out EXCEPT ![t] = out'[t]]
    BY <1>0, <1>9, <2>3, <2>4 DEF Peek, At, TypeOK
  <2>6. Contents' = Outcome(t)'
    BY <1>9, <2>1 DEF Peek, Outcome, PushOps
  <2>. QED BY <1>0, <1>9, <2>1, <2>5, <2>6, HolderStep DEF Peek, TypeOK
<1>10. ASSUME NEW t \in Thread, Unlock(t) PROVE Atomicity'
  <2>1. owner = t /\ pc'[t] = "idle" /\ out'[t] = <<>>
    BY <1>0, <1>10 DEF Unlock, TypeOK, Exclusion, InCritical
  <2>. QED BY <1>0, <1>10, <2>1, HolderStep DEF Unlock, TypeOK
<1>11. CASE UNCHANGED vars
  <2>1. UNCHANGED <<shared, before, op, arg, pc, out>> /\ Contents' = Contents
    BY <1>11, ContentsUnchanged DEF vars
  <2>2. \A t \in Thread : Outcome(t)' = Outcome(t) /\ HalfPushed(t)' = HalfPushed(t)
                          /\ CopiedSoFar(t)' = CopiedSoFar(t)
    BY <2>1 DEF Outcome, Pushed, HalfPushed, CopiedSoFar, SnapshotLen, shared
  <2>. QED BY <2>1, <2>2 DEF Atomicity, EffectKnown, CopyKnown, ResultsAtomic, Last, At
<1>. QED
  BY <1>1, <1>2, <1>3, <1>4, <1>5, <1>6, <1>7, <1>8, <1>9, <1>10, <1>11 DEF Next, Critical

\* An empty ring holds nothing and nobody is inside an operation.
LEMMA InitAtomicity == Init => Atomicity
<1>. SUFFICES ASSUME Init PROVE Atomicity
  OBVIOUS
<1>1. TypeOK
  BY InitIInv DEF IInv
<1>2. \A t \in Thread : pc[t] = "idle" /\ out[t] = <<>>
  BY DEF Init
<1>. QED BY <1>2 DEF Atomicity, EffectKnown, CopyKnown, ResultsAtomic

\* What every task will return, and what the ring will hold, is known at every moment
\* of every operation.
LEMMA AtomicityAlways == Spec => []Atomicity
BY InductiveInvariant, InitAtomicity, AtomicityStep, PTL DEF Spec

\* Every pop, peek and snapshot returns what an atomic operation on the contents at its
\* start would have returned, although it runs in several steps among other tasks'.
THEOREM ResultsAlwaysAtomic == Spec => []ResultsAtomic
<1>1. Atomicity => ResultsAtomic
  BY DEF Atomicity
<1>. QED BY AtomicityAlways, <1>1, PTL

-----------------------------------------------------------------------------
(* Refinement of the abstract queue. *)

\* While the mutex is free no push is half done.
LEMMA TotalOutside == Exclusion /\ owner = NoThread => AbstractTotal = total
BY ThreadAssumption DEF Exclusion, InCritical, AbstractTotal

LEMMA TotalOutsidePrimed == Exclusion' /\ owner' = NoThread => AbstractTotal' = total'
BY ThreadAssumption DEF Exclusion, InCritical, AbstractTotal

\* While it is held the counter is ahead by the push its holder is about to publish.
PushDone(t) == pc[t] = "unlock" /\ op[t] \in PushOps

LEMMA TotalInside ==
  ASSUME Exclusion, NEW t \in Thread, owner = t
  PROVE  AbstractTotal = IF PushDone(t) THEN total - 1 ELSE total
BY DEF Exclusion, InCritical, AbstractTotal, PushDone

LEMMA TotalInsidePrimed ==
  ASSUME Exclusion', NEW t \in Thread, owner' = t
  PROVE  AbstractTotal' = IF PushDone(t)' THEN total' - 1 ELSE total'
BY DEF Exclusion, InCritical, AbstractTotal, PushDone

\* A step that ends inside the critical section changes nothing an observer sees.
LEMMA HiddenStep ==
  ASSUME Exclusion, Exclusion', NEW t \in Thread, owner = t, owner' = t, before' = before,
         (IF PushDone(t)' THEN total' - 1 ELSE total') = (IF PushDone(t) THEN total - 1 ELSE total)
  PROVE  UNCHANGED Abstract!vars
<1>1. AbstractQueue' = AbstractQueue
  BY ThreadAssumption DEF AbstractQueue
<1>2. AbstractTotal' = AbstractTotal
  BY TotalInside, TotalInsidePrimed
<1>. QED BY <1>1, <1>2 DEF Abstract!vars

\* The step that releases the mutex is the abstract operation.
LEMMA UnlockIsOperation ==
  ASSUME IInv, IInv', Atomicity, NEW t \in Thread, Unlock(t)
  PROVE  [Abstract!Next]_Abstract!vars
<1>0. TypeOK /\ Exclusion /\ CallsTyped /\ Exclusion' /\ total \in Nat
  BY DEF IInv, TypeOK
<1>1. owner = t /\ pc[t] = "unlock" /\ owner' = NoThread /\ op[t] \in Ops /\ arg[t] \in ArgOf(op[t])
  BY <1>0 DEF Unlock, Exclusion, InCritical, CallsTyped
<1>2. AbstractQueue = before /\ AbstractQueue' = Outcome(t)
  <2>1. Contents' = Contents
    BY ContentsUnchanged DEF Unlock
  <2>. QED BY <1>0, <1>1, <2>1, ThreadAssumption DEF AbstractQueue, Atomicity, EffectKnown
<1>3. AbstractTotal' = total /\ AbstractTotal = IF op[t] \in PushOps THEN total - 1 ELSE total
  BY <1>0, <1>1, TotalInside, TotalOutsidePrimed DEF Unlock, shared, PushDone
<1>4. CASE op[t] \in PushOps
  <2>1. arg[t] \in Value
    BY <1>1, <1>4 DEF ArgOf, PushOps
  <2>2. AbstractQueue' = Pushed(AbstractQueue, arg[t])
    <3>1. op[t] # "pop" /\ op[t] # "clear"
      BY <1>4 DEF PushOps
    <3>. QED BY <1>2, <1>4, <3>1 DEF Outcome
  <2>3. AbstractTotal' = AbstractTotal + 1
    BY <1>0, <1>3, <1>4
  <2>. QED BY <2>1, <2>2, <2>3 DEF Pushed, Abstract!Next, Abstract!Push
<1>5. CASE op[t] = "pop"
  <2>1. AbstractTotal' = AbstractTotal
    BY <1>3, <1>5 DEF PushOps
  <2>2. AbstractQueue' = IF AbstractQueue = <<>> THEN AbstractQueue ELSE Tail(AbstractQueue)
    BY <1>2, <1>5 DEF Outcome, PushOps
  <2>. QED BY <2>1, <2>2 DEF Abstract!Next, Abstract!Pop, Abstract!vars
<1>6. CASE op[t] = "clear"
  <2>1. AbstractTotal' = AbstractTotal /\ AbstractQueue' = <<>>
    BY <1>2, <1>3, <1>6 DEF Outcome, PushOps
  <2>. QED BY <2>1 DEF Abstract!Next, Abstract!Clear
<1>7. CASE op[t] \in {"snapshot", "peek"}
  <2>1. AbstractTotal' = AbstractTotal /\ AbstractQueue' = AbstractQueue
    BY <1>2, <1>3, <1>7 DEF Outcome, PushOps
  <2>. QED BY <2>1 DEF Abstract!vars
<1>. QED BY <1>1, <1>4, <1>5, <1>6, <1>7 DEF Ops

\* Each step of the ring is one step of the queue, or none.
LEMMA StepRefines == IInv /\ IInv' /\ Atomicity /\ [Next]_vars => [Abstract!Next]_Abstract!vars
<1>. SUFFICES ASSUME IInv, IInv', Atomicity, [Next]_vars
             PROVE  [Abstract!Next]_Abstract!vars
  OBVIOUS
<1>0. TypeOK /\ TypeOK' /\ Exclusion /\ Exclusion' /\ total \in Nat
  BY DEF IInv, TypeOK
<1>1. ASSUME NEW t \in Thread, Call(t) \/ GiveUp(t) PROVE UNCHANGED Abstract!vars
  <2>1. UNCHANGED <<owner, total, before>> /\ Contents' = Contents
    BY <1>1, ContentsUnchanged DEF Call, GiveUp, shared
  <2>2. ASSUME NEW u \in Thread PROVE PushDone(u)' = PushDone(u)
    <3>1. CASE u = t
      BY <1>0, <1>1, <3>1 DEF Call, GiveUp, PushDone, TypeOK
    <3>2. CASE u # t
      <4>1. pc'[u] = pc[u] /\ op'[u] = op[u]
        BY <1>0, <1>1, <3>2 DEF Call, GiveUp, TypeOK
      <4>. QED BY <4>1 DEF PushDone
    <3>. QED BY <3>1, <3>2
  <2>3. AbstractQueue' = AbstractQueue /\ AbstractTotal' = AbstractTotal
    BY <2>1, <2>2 DEF AbstractQueue, AbstractTotal, PushDone
  <2>. QED BY <2>3 DEF Abstract!vars
<1>2. ASSUME NEW t \in Thread, Lock(t) PROVE UNCHANGED Abstract!vars
  <2>1. owner = NoThread /\ owner' = t /\ before' = Contents /\ total' = total /\ pc'[t] = "body"
    BY <1>0, <1>2 DEF Lock, LockFree, shared, TypeOK
  <2>2. AbstractQueue' = AbstractQueue
    BY <2>1, ThreadAssumption DEF AbstractQueue
  <2>3. AbstractTotal' = AbstractTotal
    BY <1>0, <2>1, TotalOutside, TotalInsidePrimed DEF PushDone
  <2>. QED BY <2>2, <2>3 DEF Abstract!vars
<1>3. ASSUME NEW t \in Thread, Critical(t), ~ Unlock(t) PROVE UNCHANGED Abstract!vars
  <2>1. owner = t /\ owner' = t /\ before' = before
    BY <1>0, <1>3
       DEF Critical, StoreElement, Advance, Pop, Clear, SnapshotCopy, SnapshotEnd, Peek,
           Exclusion, InCritical
  <2>2. op'[t] = op[t] /\ pc[t] # "unlock"
    BY <1>3 DEF Critical, StoreElement, Advance, Pop, Clear, SnapshotCopy, SnapshotEnd, Peek
  <2>3. (IF PushDone(t)' THEN total' - 1 ELSE total') = total
    <3>1. CASE Advance(t)
      <4>1. PushDone(t)' /\ total' = total + 1
        BY <1>0, <3>1 DEF Advance, PushDone, IInv, CallsTyped, TypeOK
      <4>. QED BY <1>0, <4>1
    <3>2. CASE ~ Advance(t)
      BY <1>0, <1>3, <2>2, <3>2
         DEF Critical, StoreElement, Pop, Clear, SnapshotCopy, SnapshotEnd, Peek, PushOps,
             PushDone, shared, TypeOK
    <3>. QED BY <3>1, <3>2
  <2>. QED BY <1>0, <2>1, <2>2, <2>3, HiddenStep DEF PushDone
<1>4. ASSUME NEW t \in Thread, Unlock(t) PROVE [Abstract!Next]_Abstract!vars
  BY <1>4, UnlockIsOperation
<1>5. CASE UNCHANGED vars
  <2>1. AbstractQueue' = AbstractQueue /\ AbstractTotal' = AbstractTotal
    <3>1. UNCHANGED <<shared, owner, op, pc, before, total>>
      BY <1>5 DEF vars, shared
    <3>. QED BY <3>1, ContentsUnchanged DEF AbstractQueue, AbstractTotal
  <2>. QED BY <2>1 DEF Abstract!vars
<1>. QED BY <1>1, <1>2, <1>3, <1>4, <1>5 DEF Next

\* The array, the two indices and the mutex implement the bounded queue of the most
\* recent elements: every operation, its copying loop included, appears to happen at
\* once, when it gives the mutex back.
THEOREM Refinement == Spec => ImplementsRecentQueue
<1>1. Init => Abstract!Init
  <2>. SUFFICES ASSUME Init PROVE Abstract!Init
    OBVIOUS
  <2>1. TypeOK /\ Exclusion /\ owner = NoThread /\ count = 0 /\ total = 0
    BY InitIInv DEF IInv, Init
  <2>2. Contents = <<>>
    BY <2>1, ContentsByIndex, EmptySeq
  <2>. QED BY <2>1, <2>2, TotalOutside DEF AbstractQueue, Abstract!Init
<1>. QED
  BY <1>1, InductiveInvariant, AtomicityAlways, StepRefines, PTL
     DEF Spec, ImplementsRecentQueue, Abstract!Spec
=============================================================================
