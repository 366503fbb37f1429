------------------------------- MODULE Logger -------------------------------
(***************************************************************************)
(* logger.c: a ring of numbered events, copied to flash by whoever calls   *)
(* logger_persist and restored at boot, and the two exports that walk the  *)
(* ring one entry at a time while other tasks go on logging.               *)
(*                                                                         *)
(*   any task        logger_log                                            *)
(*   a persister     logger_task every 30 s when dirty; reboot_task before *)
(*                   it restarts the device                                *)
(*   HTTP server     logger_to_json, the CSV export, logger_clear: one     *)
(*                   request at a time                                     *)
(*                                                                         *)
(* The ring is the abstract queue that RingBuffer implements.  Levels,     *)
(* messages and times are left out: an entry is its number and the boot    *)
(* that logged it.  Flash (external) keeps a blob whole or not at all.     *)
(***************************************************************************)
EXTENDS Integers, Sequences, SequencesExt

CONSTANTS
  Capacity,    \* NEXUS_LOG_CAPACITY
  Persister,   \* the tasks that call logger_persist: a subset of {"logger", "reboot"}
  Request,     \* the HTTP requests that arrive: a subset of {"json", "csv", "clear"}
  MaxLogs,     \* bound of the model on entries per boot
  MaxBoot      \* bound of the model on restarts

ASSUME CapacityAssumption == Capacity \in Nat \ {0}
ASSUME PersisterAssumption == Persister \subseteq {"logger", "reboot"}
ASSUME RequestAssumption == Request \subseteq {"json", "csv", "clear"}
ASSUME BoundAssumption == MaxLogs \in Nat /\ MaxBoot \in Nat

VARIABLES
  ring,      \* s_ring, oldest first
  pushes,    \* its lifetime counter
  seq,       \* s_seq
  dirty,     \* s_dirty
  writing,   \* a task is inside logger_log, between its push and the flag
  stored,    \* the blob under NEXUS_NVS_KEY_LOGS; empty when there is none
  pc,        \* where each persister is
  num,       \* its n: how many entries it makes room for
  tmp,       \* its copy of the ring
  http,      \* the export or clear in progress
  boot,      \* restarts so far
  atStart,   \* history: entries held when the export or clear began
  dropped    \* history: entries logger_clear has dropped

memory == <<ring, pushes, seq>>
persist == <<pc, num, tmp>>
export == <<http, atStart>>
vars == <<memory, dirty, writing, stored, persist, export, boot, dropped>>

Entry == [seq : 0 .. (MaxBoot + 1) * MaxLogs, boot : 0 .. MaxBoot]

Ring == INSTANCE RecentQueue WITH Value <- Entry, queue <- ring, total <- pushes

NoExport == [pc |-> "idle", i |-> 0, n |-> 0, out |-> <<>>]

-----------------------------------------------------------------------------
Init ==
  /\ Ring!Init
  /\ seq = 0
  /\ dirty = FALSE
  /\ writing = FALSE
  /\ stored = <<>>
  /\ pc = [p \in Persister |-> "idle"]
  /\ num = [p \in Persister |-> 0]
  /\ tmp = [p \in Persister |-> <<>>]
  /\ http = NoExport
  /\ boot = 0
  /\ atStart = {}
  /\ dropped = {}

-----------------------------------------------------------------------------
(* logger_log: number, push and flag under s_lock, but neither the readers  *)
(* of the ring nor the persisters take that lock.                           *)

Log ==
  /\ ~writing
  /\ pushes < MaxLogs
  /\ Ring!Push([seq |-> seq, boot |-> boot])
  /\ seq' = seq + 1
  /\ writing' = TRUE
  /\ UNCHANGED <<dirty, stored, persist, export, boot, dropped>>

MarkDirty ==
  /\ writing
  /\ dirty' = TRUE
  /\ writing' = FALSE
  /\ UNCHANGED <<memory, stored, persist, export, boot, dropped>>

-----------------------------------------------------------------------------
(* logger_persist. *)

\* logger_task calls it when dirty, reboot_task 800 ms after a reboot request.
\* With nothing held it only lowers the flag.
Count(p) ==
  /\ pc[p] = "idle"
  /\ p = "logger" => dirty
  /\ num' = [num EXCEPT ![p] = Len(ring)]
  /\ pc' = [pc EXCEPT ![p] = IF ring = <<>> THEN "clean" ELSE "copy"]
  /\ UNCHANGED <<memory, dirty, writing, stored, tmp, export, boot, dropped>>

\* ringbuffer_snapshot: the newest entries, at most as many as were counted.
Copied(p) == Ring!LastOf(ring, IF Len(ring) < num[p] THEN Len(ring) ELSE num[p])

Copy(p) ==
  /\ pc[p] = "copy"
  /\ tmp' = [tmp EXCEPT ![p] = Copied(p)]
  /\ pc' = [pc EXCEPT ![p] = IF ring = <<>> THEN "clean" ELSE "write"]
  /\ UNCHANGED <<memory, dirty, writing, stored, num, export, boot, dropped>>

Write(p) ==
  /\ pc[p] = "write"
  /\ stored' = tmp[p]
  /\ pc' = [pc EXCEPT ![p] = "clean"]
  /\ UNCHANGED <<memory, dirty, writing, num, tmp, export, boot, dropped>>

\* After logger_persist the reboot task restarts the device.
Return(p) ==
  /\ pc' = [pc EXCEPT ![p] = IF p = "reboot" THEN "restart" ELSE "idle"]
  /\ num' = [num EXCEPT ![p] = 0]
  /\ tmp' = [tmp EXCEPT ![p] = <<>>]

Clean(p) ==
  /\ pc[p] = "clean"
  /\ dirty' = FALSE
  /\ Return(p)
  /\ UNCHANGED <<memory, writing, stored, export, boot, dropped>>

\* Out of memory, or the flash write failed: the flag stays up.
Fail(p) ==
  /\ pc[p] \in {"copy", "write"}
  /\ Return(p)
  /\ UNCHANGED <<memory, dirty, writing, stored, export, boot, dropped>>

Persist(p) == Count(p) \/ Copy(p) \/ Write(p) \/ Clean(p) \/ Fail(p)

-----------------------------------------------------------------------------
(* The HTTP server task. *)

\* Both exports fix their length first and then peek at one position per step.
Start ==
  /\ http.pc = "idle"
  /\ \E r \in Request \ {"clear"} :
       http' = [pc |-> r, i |-> IF r = "json" THEN Len(ring) ELSE 1, n |-> Len(ring), out |-> <<>>]
  /\ atStart' = ToSet(ring)
  /\ UNCHANGED <<memory, dirty, writing, stored, persist, boot, dropped>>

\* logger_peek
Peeked(i) == IF i <= Len(ring) THEN <<ring[i]>> ELSE <<>>

\* logger_to_json leaves out what is not older than the last entry it emitted.
Repeat_Never(e, out) == FALSE  \* mutant
Repeat(e, out) == out # <<>> /\ e.seq >= out[Len(out)].seq

\* Mutant: the walk ends at the first repeat.
JsonStep_StopsAtRepeat ==
  /\ http.pc = "json"
  /\ http.i > 0
  /\ LET e == Peeked(http.i)
         skip == e = <<>> \/ Repeat(e[1], http.out) IN
     http' = [http EXCEPT !.i = IF skip THEN 0 ELSE @ - 1, !.out = IF skip THEN @ ELSE @ \o e]
  /\ UNCHANGED <<memory, dirty, writing, stored, persist, atStart, boot, dropped>>

JsonStep ==
  /\ http.pc = "json"
  /\ http.i > 0
  /\ LET e == Peeked(http.i) IN
     http' = [http EXCEPT !.i = @ - 1,
                          !.out = IF e = <<>> \/ Repeat(e[1], @) THEN @ ELSE @ \o e]
  /\ UNCHANGED <<memory, dirty, writing, stored, persist, atStart, boot, dropped>>

CsvRows_OneMore == http.n + 1  \* mutant: one row past the count
CsvRows_OneLess == http.n - 1  \* mutant: the last row is not reached
CsvRows == http.n

CsvStep ==
  /\ http.pc = "csv"
  /\ http.i <= CsvRows
  /\ http' = [http EXCEPT !.i = @ + 1, !.out = @ \o Peeked(http.i)]
  /\ UNCHANGED <<memory, dirty, writing, stored, persist, atStart, boot, dropped>>

JsonDone == http.pc = "json" /\ http.i = 0
CsvDone == http.pc = "csv" /\ http.i > CsvRows

Done ==
  /\ JsonDone \/ CsvDone
  /\ http' = NoExport
  /\ atStart' = {}
  /\ UNCHANGED <<memory, dirty, writing, stored, persist, boot, dropped>>

\* logger_clear, in its three calls.
ClearRing ==
  /\ "clear" \in Request
  /\ http.pc = "idle"
  /\ Ring!Clear
  /\ atStart' = ToSet(ring) \cup ToSet(stored)
  /\ http' = [http EXCEPT !.pc = "erase"]
  /\ UNCHANGED <<seq, dirty, writing, stored, persist, boot, dropped>>

\* The result of storage_erase_key is ignored.
EraseKey ==
  /\ http.pc = "erase"
  /\ \/ stored' = <<>> /\ dropped' = dropped \cup atStart
     \/ UNCHANGED <<stored, dropped>>
  /\ atStart' = {}
  /\ http' = [http EXCEPT !.pc = "unflag"]
  /\ UNCHANGED <<memory, dirty, writing, persist, boot>>

ClearFlag ==
  /\ http.pc = "unflag"
  /\ dirty' = FALSE
  /\ http' = NoExport
  /\ UNCHANGED <<memory, writing, stored, persist, atStart, boot, dropped>>

HttpServer == Start \/ JsonStep \/ CsvStep \/ Done \/ ClearRing \/ EraseKey \/ ClearFlag

-----------------------------------------------------------------------------
(* A crash, or the end of the reboot task, and logger_init on the way up.   *)

\* Mutant: numbering starts over after a restart.
NextSeq_FromZero(s) == 0
NextSeq(s) == IF s = <<>> THEN 0 ELSE s[Len(s)].seq + 1

\* Without memory for the copy, or when the read fails, nothing is restored.
Restart ==
  /\ boot < MaxBoot
  /\ boot' = boot + 1
  /\ \E s \in {stored, <<>>} :
       /\ ring' = s
       /\ seq' = NextSeq(s)
  /\ pushes' = 0
  /\ dirty' = FALSE
  /\ writing' = FALSE
  /\ pc' = [p \in Persister |-> "idle"]
  /\ num' = [p \in Persister |-> 0]
  /\ tmp' = [p \in Persister |-> <<>>]
  /\ http' = NoExport
  /\ atStart' = {}
  /\ UNCHANGED <<stored, dropped>>

Next ==
  \/ Log \/ MarkDirty
  \/ \E p \in Persister : Persist(p)
  \/ HttpServer
  \/ Restart

Spec == Init /\ [][Next]_vars

-----------------------------------------------------------------------------
(* Properties. *)

\* Every variable keeps its type; neither ring nor blob outgrows the capacity.
TypeOK ==
  /\ ring \in Seq(Entry) /\ Len(ring) <= Capacity
  /\ pushes \in 0 .. MaxLogs
  /\ seq \in 0 .. (MaxBoot + 1) * MaxLogs
  /\ dirty \in BOOLEAN /\ writing \in BOOLEAN
  /\ stored \in Seq(Entry) /\ Len(stored) <= Capacity
  /\ pc \in [Persister -> {"idle", "copy", "write", "clean", "restart"}]
  /\ num \in [Persister -> 0 .. Capacity]
  /\ \A p \in Persister : tmp[p] \in Seq(Entry) /\ Len(tmp[p]) <= Capacity
  /\ http.pc \in {"idle", "json", "csv", "erase", "unflag"}
  /\ http.i \in 0 .. Capacity + 1 /\ http.n \in 0 .. Capacity /\ http.out \in Seq(Entry)
  /\ boot \in 0 .. MaxBoot
  /\ atStart \subseteq Entry /\ dropped \subseteq Entry

Consecutive(s) == \A i \in 1 .. Len(s) - 1 : s[i + 1].seq = s[i].seq + 1

\* Numbers are consecutive in the ring and in flash, across restarts that
\* restore an older blob, persists cut short and clears; the next entry's
\* number follows the newest one.
NumberedWithoutGaps ==
  /\ Consecutive(ring) /\ Consecutive(stored)
  /\ ring # <<>> => seq = ring[Len(ring)].seq + 1

\* A JSON export lists strictly older entries as it goes, a CSV export strictly
\* newer ones ("oldest first", webserver.c): nothing appears twice although entries
\* shift under the walk.  API.md has the CSV the other way round, see CsvNewestFirst.
ExportOrdered ==
  \A i \in 1 .. Len(http.out) - 1 :
    /\ http.pc = "json" => http.out[i + 1].seq < http.out[i].seq
    /\ http.pc = "csv" => http.out[i + 1].seq > http.out[i].seq

\* Entries held from an export's start to its end that it does not contain.
LeftOut == (atStart \cap ToSet(ring)) \ ToSet(http.out)

\* A JSON export contains every entry that was held from its start to its end;
\* a CSV export leaves one out only against another that arrived since it began.
ExportsComplete ==
  /\ JsonDone => LeftOut = {}
  /\ CsvDone => Cardinality(LeftOut) <= Cardinality(ToSet(ring) \ atStart)

Newest(s) == IF s = <<>> THEN -1 ELSE s[Len(s)].seq

\* logger.h on logger_persist: "Force an immediate persist of the ring buffer
\* to NVS."  Within a boot what it stored is not given up for an older copy.
StoredNeverOlder == [][ boot' = boot => Newest(stored') >= Newest(stored) \/ stored' = <<>> ]_vars

\* API.md calls the CSV "the same events" as the log it gives "newest first", and
\* its example has row 128 before row 127.  The code violates it: h_api_logs_csv
\* walks up from the oldest entry.
CsvNewestFirst ==
  http.pc = "csv" => \A i \in 1 .. Len(http.out) - 1 : http.out[i + 1].seq < http.out[i].seq

\* webserver.c on the CSV export: "a busy device can leave one row out of a
\* single export".
CsvLosesAtMostOne ==
  CsvDone => Cardinality(LeftOut) <= 1

\* logger.c: "Anything logged between the count and the snapshot is simply
\* picked up by the next persist".  When nothing is dirty and nothing is under
\* way, so that no persist will come, every entry held is in flash.
CleanMeansStored ==
  ~dirty /\ ~writing /\ http.pc = "idle" /\ (\A p \in Persister : pc[p] = "idle")
    => ToSet(ring) \subseteq ToSet(stored)

\* logger.h on logger_clear: "Drop all entries (RAM and persisted)."  None of
\* them comes back with a restart.
ClearedStayGone == ToSet(ring) \cap dropped = {}

=============================================================================
