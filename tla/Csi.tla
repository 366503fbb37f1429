-------------------------------- MODULE Csi --------------------------------
(***************************************************************************)
(* csi.c, the measuring half: packets counted in the Wi-Fi driver's        *)
(* callback, their rate worked out once a second by the housekeeping task, *)
(* the metrics read by other tasks.  (The other half of the housekeeping   *)
(* task is the module TrafficGenerator; they share no variable.)           *)
(*                                                                         *)
(* The total is a 64-bit number on a 32-bit processor: it is stored and    *)
(* read one half at a time, and no lock protects it.  The sample buffer is *)
(* the module RingBuffer; here a push either succeeds or runs out of time. *)
(***************************************************************************)
EXTENDS Integers

CONSTANTS
  Half,     \* values of one half of the total: 2^32
  MaxHeard  \* bound of the model: packets received

ASSUME HalfAssumption == Half \in Nat \ {0, 1}
ASSUME HeardAssumption == MaxHeard \in Nat

VARIABLES
  total,    \* s_packets_total, its two halves
  dropped,  \* s_packets_dropped
  metrics,  \* s_metrics: the packet it describes, and what the task last published
  lock,     \* who holds s_metrics_lock
  rx,       \* where the callback is, the new total, and the half of it stored
  task,     \* where csi_task is, the total it read, and last_total
  reader,   \* a task in csi_get_metrics: the total as it was called, its copy
  heard,    \* history: packets that carried a usable subcarrier
  stored,   \* history: samples the ring buffer took
  rated     \* history: sum of the rates published

counters == <<total, dropped, heard, stored>>
CsiVars == <<total, dropped, metrics, lock, rx, task, reader, heard, stored, rated>>

Value(halves) == halves.high * Half + halves.low
Halves(n) == [high |-> (n \div Half) % Half, low |-> n % Half]
NoReader == [at |-> "idle", asked |-> 0, read |-> Halves(0), half |-> "none",
             copy |-> [packet |-> 0, total |-> 0, rate |-> 0]]

CsiInit ==
  /\ total = Halves(0)
  /\ dropped = 0
  /\ metrics = [packet |-> 0, total |-> 0, rate |-> 0]
  /\ lock = "free"
  /\ rx = [at |-> "idle", sum |-> Halves(0), half |-> "none"]
  /\ task = [at |-> "sleep", read |-> Halves(0), half |-> "none", last |-> 0]
  /\ reader = NoReader
  /\ heard = 0
  /\ stored = 0
  /\ rated = 0

-----------------------------------------------------------------------------
(* csi_rx_cb, in the Wi-Fi task. *)

Others == <<task, reader, rated>>

\* A packet without a usable subcarrier returns early and changes nothing.
Receive ==
  /\ rx.at = "idle" /\ heard < MaxHeard
  /\ heard' = heard + 1
  /\ rx' = [rx EXCEPT !.at = "push"]
  /\ UNCHANGED <<total, dropped, metrics, lock, stored>> /\ UNCHANGED Others

\* ringbuffer_push_timeout, which a reader of the buffer can make time out.
Push ==
  /\ rx.at = "push"
  /\ \/ stored' = stored + 1 /\ UNCHANGED dropped
     \/ dropped' = dropped + 1 /\ UNCHANGED stored
  /\ rx' = [rx EXCEPT !.at = "count", !.sum = Halves(Value(total) + 1)]
  /\ UNCHANGED <<total, metrics, lock, heard>> /\ UNCHANGED Others

\* s_packets_total++: two stores, in the order the compiler chose.
StoreHalf(half) ==
  /\ rx.at = "count" /\ rx.half # half
  /\ total' = [total EXCEPT ![half] = rx.sum[half]]
  /\ rx' = IF rx.half = "none" THEN [rx EXCEPT !.half = half]
           ELSE [rx EXCEPT !.at = "try", !.half = "none"]
  /\ UNCHANGED <<dropped, metrics, lock, heard, stored>> /\ UNCHANGED Others

\* Mutant: the packet is counted only once the metrics lock was had.
Count_Locked ==
  IF lock = "free" THEN \E half \in {"high", "low"} : StoreHalf(half)
  ELSE /\ rx.at = "count" /\ rx.half = "none"
       /\ rx' = [rx EXCEPT !.at = "idle"]
       /\ UNCHANGED <<total, dropped, metrics, lock, heard, stored>> /\ UNCHANGED Others

Count == \E half \in {"high", "low"} : StoreHalf(half)

\* The lock is tried, never waited for: busy, the metrics keep the last packet.
TryLock ==
  /\ rx.at = "try"
  /\ IF lock = "free" THEN lock' = "rx" /\ rx' = [rx EXCEPT !.at = "publish"]
                      ELSE rx' = [rx EXCEPT !.at = "idle"] /\ UNCHANGED lock
  /\ UNCHANGED <<total, dropped, metrics, heard, stored>> /\ UNCHANGED Others

PublishPacket ==
  /\ rx.at = "publish"
  /\ metrics' = [metrics EXCEPT !.packet = heard]
  /\ lock' = "free"
  /\ rx' = [rx EXCEPT !.at = "idle"]
  /\ UNCHANGED <<total, dropped, heard, stored>> /\ UNCHANGED Others

-----------------------------------------------------------------------------
(* csi_task, the first half of its pass each second. *)

\* A 64-bit read of the total, its halves in either order.
ReadHalf(reading, half, next) ==
  IF reading.half = "none"
  THEN [reading EXCEPT !.read[half] = total[half], !.half = half]
  ELSE [reading EXCEPT !.read[half] = total[half], !.half = "none", !.at = next]

Wake ==
  /\ task.at = "sleep"
  /\ task' = [task EXCEPT !.at = "read"]
  /\ UNCHANGED <<metrics, lock, rx, reader, rated>> /\ UNCHANGED counters

ReadTotal ==
  /\ task.at = "read"
  /\ \E half \in {"high", "low"} \ {task.half} : task' = ReadHalf(task, half, "lock")
  /\ UNCHANGED <<metrics, lock, rx, reader, rated>> /\ UNCHANGED counters

TaskLocks ==
  /\ task.at = "lock" /\ lock = "free"
  /\ lock' = "task"
  /\ task' = [task EXCEPT !.at = "publish"]
  /\ UNCHANGED <<metrics, rx, reader, rated>> /\ UNCHANGED counters

\* total - last_total, in 64 bits; and the value the next pass counts from.
Delta == (Value(task.read) - task.last) % (Half * Half)
NextLast_Reread == Value(total)  \* mutant: the total is read a second time
NextLast == Value(task.read)

PublishRate ==
  /\ task.at = "publish"
  /\ metrics' = [metrics EXCEPT !.total = Value(task.read), !.rate = Delta]
  /\ rated' = rated + Delta
  /\ lock' = "free"
  /\ task' = [task EXCEPT !.at = "sleep", !.read = Halves(0), !.last = NextLast]
  /\ UNCHANGED <<rx, reader>> /\ UNCHANGED counters

-----------------------------------------------------------------------------
(* csi_get_metrics, in the task of the engine, the web server or the display. *)

Ask ==
  /\ reader.at = "idle"
  /\ reader' = [reader EXCEPT !.at = "lock", !.asked = Value(total)]
  /\ UNCHANGED <<metrics, lock, rx, task, rated>> /\ UNCHANGED counters

ReaderLocks ==
  /\ reader.at = "lock" /\ lock = "free"
  /\ lock' = "reader"
  /\ reader' = [reader EXCEPT !.at = "copy"]
  /\ UNCHANGED <<metrics, rx, task, rated>> /\ UNCHANGED counters

Copy ==
  /\ reader.at = "copy"
  /\ reader' = [reader EXCEPT !.at = "live", !.copy = metrics]
  /\ lock' = "free"
  /\ UNCHANGED <<metrics, rx, task, rated>> /\ UNCHANGED counters

\* Mutant: the total of the last published second is good enough.
Refreshed_Published ==
  reader' = [reader EXCEPT !.read = Halves(reader.copy.total), !.at = "report"]

\* The total is not the published one but the live one, read without the lock.
Refreshed ==
  \E half \in {"high", "low"} \ {reader.half} : reader' = ReadHalf(reader, half, "report")

ReadLive ==
  /\ reader.at = "live"
  /\ Refreshed
  /\ UNCHANGED <<metrics, lock, rx, task, rated>> /\ UNCHANGED counters

Report ==
  /\ reader.at = "report"
  /\ reader' = NoReader
  /\ UNCHANGED <<metrics, lock, rx, task, rated>> /\ UNCHANGED counters

-----------------------------------------------------------------------------

RxStep == Receive \/ Push \/ Count \/ TryLock \/ PublishPacket
TaskStep == Wake \/ ReadTotal \/ TaskLocks \/ PublishRate
ReaderStep == Ask \/ ReaderLocks \/ Copy \/ ReadLive \/ Report

CsiNext == RxStep \/ TaskStep \/ ReaderStep

CsiSpec == CsiInit /\ [][CsiNext]_CsiVars

-----------------------------------------------------------------------------
(* Properties. *)

\* "Always counted, even if the metrics lock is busy": when the callback is done,
\* every packet it received is in the total, and is either in the ring buffer or
\* among the dropped, whoever held the two locks meanwhile.
PacketsAccounted ==
  rx.at = "idle" => Value(total) = heard /\ stored + dropped = heard

\* The rates published so far add up to the total published with them, so that
\* every packet is in exactly one of them and none in advance.  Below one half's
\* range: where the total passes it, a torn read breaks this (csi.c, csi_task).
RatesAddUp == rated = metrics.total /\ metrics.rate <= metrics.total /\ metrics.total <= heard

\* "Report the live values": a report counts every packet that was counted before
\* it was asked for, and no fewer than the rate and the packet it also shows do.
ReportIsLive ==
  reader.at = "report" =>
    /\ reader.asked <= Value(reader.read) /\ Value(reader.read) <= heard
    /\ reader.copy.total <= Value(reader.read) /\ reader.copy.packet <= Value(reader.read)

=============================================================================
