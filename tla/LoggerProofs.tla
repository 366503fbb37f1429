---------------------------- MODULE LoggerProofs ----------------------------
(***************************************************************************)
(* Theorems about Logger, for every capacity, set of persisting tasks and  *)
(* mix of requests, and any number of entries and restarts: the numbers    *)
(* are without gaps in the ring and in flash, an export repeats nothing,   *)
(* and what it leaves out is accounted for.  While logging, persisting and *)
(* clearing do not overlap, what is held and not flagged is in flash, what *)
(* was cleared stays gone, and no older copy replaces a newer one.         *)
(***************************************************************************)
EXTENDS Logger, SequenceTheorems, FiniteSetTheorems, TLAPS

\* The copies of the persisters and the export in progress have their fields.
Shaped ==
  /\ tmp \in [Persister -> Seq(Entry)]
  /\ http \in [pc : {"idle", "json", "csv", "erase", "unflag"}, i : Nat, n : Nat, out : Seq(Entry)]
  /\ http.pc = "json" => http.i <= http.n
  /\ http.pc = "csv" => http.i \in 1 .. http.n + 1

\* Numbers grow by one from entry to entry.
Even(s) == \A i, j \in 1 .. Len(s) : s[j].seq = s[i].seq + (j - i)

Below(s, top) == \A i \in 1 .. Len(s) : s[i].seq < top

\* As many numbers as can have been given so far.
Top == boot * MaxLogs + pushes

\* The ring holds the numbers up to the next one; every copy, fresh or stale, is
\* without gaps and below what the present boot may give.
Numbered ==
  /\ seq <= Top
  /\ \A i \in 1 .. Len(ring) : ring[i].seq = seq - Len(ring) + (i - 1)
  /\ Even(stored) /\ Below(stored, Top)
  /\ \A p \in Persister : Even(tmp[p]) /\ Below(tmp[p], Top)

\* What an export found at its start is older than what it did not.
OlderFirst ==
  http.pc \in {"json", "csv"} =>
    /\ \A e \in atStart : e.seq < seq
    /\ \A j, k \in 1 .. Len(ring) : j < k /\ ring[k] \in atStart => ring[j] \in atStart

\* The JSON walk: what is still to come is at or below its position, and older than
\* what it has emitted.
Descends ==
  http.pc = "json" =>
    /\ \A k \in 1 .. Len(http.out) - 1 : http.out[k + 1].seq < http.out[k].seq
    /\ \A j \in 1 .. Len(ring) :
         ring[j] \in atStart /\ ring[j] \notin ToSet(http.out) =>
           j <= http.i /\ (http.out # <<>> => ring[j].seq < http.out[Len(http.out)].seq)

\* What the CSV walk has gone past without emitting it.
Missed == {ring[j] : j \in {k \in 1 .. Len(ring) : k < http.i}} \cap (atStart \ ToSet(http.out))

\* The CSV walk: what is at its position or above is newer than what it has emitted, and
\* each entry it has gone past was pushed down by one that is new.
Ascends ==
  http.pc = "csv" =>
    /\ \A k \in 1 .. Len(http.out) - 1 : http.out[k + 1].seq > http.out[k].seq
    /\ http.out # <<>> =>
         /\ http.out[Len(http.out)].seq < seq
         /\ \A j \in 1 .. Len(ring) : j >= http.i => http.out[Len(http.out)].seq < ring[j].seq
    /\ \A j \in 1 .. Len(ring) : ring[j] \in atStart => j <= http.n
    /\ Cardinality(Missed) <= Cardinality(ToSet(ring) \ atStart)

\* The inductive invariant.
IInv == TypeOK /\ Shaped /\ Numbered /\ OlderFirst /\ Descends /\ Ascends

-----------------------------------------------------------------------------
(* Sequences. *)

\* Appending to a sequence leaves its elements where they are.
LEMMA Appended ==
  ASSUME NEW S, NEW s \in Seq(S), NEW x \in S
  PROVE  LET r == s \o <<x>> IN
         /\ r \in Seq(S) /\ Len(r) = Len(s) + 1 /\ Len(s) \in Nat /\ r # <<>>
         /\ r[Len(r)] = x /\ \A i \in 1 .. Len(s) : r[i] = s[i]
<1>. DEFINE t == <<x>>
            r == s \o t
<1>1. t \in Seq(S) /\ Len(t) = 1 /\ t[1] = x
  OBVIOUS
<1>2. Len(s) \in Nat
  OBVIOUS
<1>. HIDE DEF t
<1>3. /\ r \in Seq(S) /\ Len(r) = Len(s) + Len(t)
      /\ \A i \in 1 .. Len(s) + Len(t) : r[i] = IF i <= Len(s) THEN s[i] ELSE t[i - Len(s)]
  BY <1>1, ConcatProperties
<1>. HIDE DEF r
<1>4. Len(s) + 1 \in 1 .. Len(s) + Len(t) /\ ~(Len(s) + 1 <= Len(s)) /\ Len(s) + 1 - Len(s) = 1
  BY <1>1, <1>2
<1>5. r[Len(s) + 1] = x
  BY <1>1, <1>3, <1>4
<1>6. \A i \in 1 .. Len(s) : r[i] = s[i]
  BY <1>1, <1>2, <1>3
<1>7. r # <<>>
  BY <1>1, <1>2, <1>3, EmptySeq
<1>. QED BY <1>1, <1>2, <1>3, <1>5, <1>6, <1>7 DEF r, t

\* The elements of a sequence are those at its positions.
LEMMA ToSetByIndex ==
  ASSUME NEW S, NEW s \in Seq(S)
  PROVE  /\ ToSet(s) = {s[i] : i \in 1 .. Len(s)}
         /\ ToSet(s) \subseteq S /\ IsFiniteSet(ToSet(s))
<1>1. DOMAIN s = 1 .. Len(s) /\ Len(s) \in Nat
  OBVIOUS
<1>2. ToSet(s) = {s[i] : i \in 1 .. Len(s)}
  BY <1>1 DEF ToSet
<1>3. \A i \in 1 .. Len(s) : s[i] \in S
  BY ElementOfSeq
<1>4. s \in Surjection(1 .. Len(s), ToSet(s))
  <2>1. s \in [1 .. Len(s) -> ToSet(s)]
    BY <1>1, <1>2
  <2>. QED BY <1>2, <2>1 DEF Surjection
<1>5. IsFiniteSet(1 .. Len(s))
  BY <1>1, FS_Interval
<1>6. IsFiniteSet(ToSet(s))
  BY <1>4, <1>5, FS_Surjection
<1>. QED BY <1>2, <1>3, <1>6

\* The last n elements of a sequence, in order.
LEMMA LastOfProperties ==
  ASSUME NEW S, NEW s \in Seq(S), NEW n \in 0 .. Len(s)
  PROVE  LET r == Ring!LastOf(s, n) IN
         /\ r \in Seq(S) /\ Len(r) = n
         /\ \A i \in 1 .. n : Len(s) - n + i \in 1 .. Len(s) /\ r[i] = s[Len(s) - n + i]
<1>. DEFINE m == Len(s) - n + 1
            r == SubSeq(s, m, Len(s))
<1>1. Len(s) \in Nat /\ m \in 1 .. Len(s) + 1
  OBVIOUS
<1>2. \A i \in m .. Len(s) : i \in 1 .. Len(s)
  BY <1>1
<1>3. \A i \in m .. Len(s) : s[i] \in S
  BY <1>2, ElementOfSeq
<1>. HIDE DEF m
<1>4. /\ r \in Seq(S)
      /\ Len(r) = IF m <= Len(s) THEN Len(s) - m + 1 ELSE 0
      /\ \A i \in 1 .. Len(s) - m + 1 : r[i] = s[m + i - 1]
  BY <1>1, <1>3, SubSeqProperties
<1>. HIDE DEF r
<1>5. Len(r) = n /\ \A i \in 1 .. n : m + i - 1 = Len(s) - n + i /\ i \in 1 .. Len(s) - m + 1
  BY <1>1, <1>4 DEF m
<1>6. \A i \in 1 .. n : Len(s) - n + i \in 1 .. Len(s)
  BY <1>1
<1>. QED BY <1>4, <1>5, <1>6 DEF Ring!LastOf, r, m

\* A push shifts the ring by one place when it is full, and adds at its end.
LEMMA Pushed ==
  ASSUME ring \in Seq(Entry), Len(ring) <= Capacity, NEW e \in Entry, Ring!Push(e)
  PROVE  /\ ring' \in Seq(Entry) /\ Len(ring') <= Capacity /\ pushes' = pushes + 1
         /\ \E d \in {0, 1} :
              /\ d <= Len(ring) /\ Len(ring') = Len(ring) + 1 - d /\ ring'[Len(ring')] = e
              /\ \A i \in 1 .. Len(ring) - d : ring'[i] = ring[i + d]
<1>. DEFINE t == IF Len(ring) < Capacity THEN ring ELSE Tail(ring)
            d == IF Len(ring) < Capacity THEN 0 ELSE 1
<1>0. Len(ring) \in Nat /\ Capacity \in Nat \ {0}
  BY CapacityAssumption
<1>1. d \in {0, 1} /\ d <= Len(ring) /\ Len(ring) + 1 - d <= Capacity
  BY <1>0
<1>2. t \in Seq(Entry) /\ Len(t) = Len(ring) - d /\ \A i \in 1 .. Len(ring) - d : t[i] = ring[i + d]
  <2>1. CASE Len(ring) < Capacity
    BY <1>0, <2>1
  <2>2. CASE ~(Len(ring) < Capacity)
    <3>1. ring # <<>>
      BY <1>0, <2>2, EmptySeq
    <3>. QED BY <1>0, <2>2, <3>1, HeadTailProperties
  <2>. QED BY <2>1, <2>2
<1>3. ring' = Append(t, e) /\ pushes' = pushes + 1
  BY DEF Ring!Push
<1>. HIDE DEF t, d
<1>4. /\ Append(t, e) \in Seq(Entry) /\ Len(Append(t, e)) = Len(t) + 1
      /\ Append(t, e)[Len(t) + 1] = e /\ \A i \in 1 .. Len(t) : Append(t, e)[i] = t[i]
  BY <1>2, AppendProperties
<1>5. ring' \in Seq(Entry) /\ Len(ring') = Len(ring) + 1 - d /\ Len(ring') = Len(t) + 1
  BY <1>0, <1>1, <1>2, <1>3, <1>4
<1>6. \A i \in 1 .. Len(ring) - d : ring'[i] = ring[i + d]
  BY <1>2, <1>3, <1>4
<1>. QED BY <1>1, <1>3, <1>4, <1>5, <1>6

-----------------------------------------------------------------------------
(* Numbers. *)

\* The bound of the model on numbers.
MaxSeq == (MaxBoot + 1) * MaxLogs

\* It covers all that are given.
LEMMA TopBounded ==
  /\ MaxSeq \in Nat
  /\ \A b \in 0 .. MaxBoot, n \in 0 .. MaxLogs : b * MaxLogs + n \in 0 .. MaxSeq
<1>0. MaxBoot \in Nat /\ MaxLogs \in Nat
  BY BoundAssumption
<1>1. MaxSeq \in Nat
  BY <1>0 DEF MaxSeq
<1>. SUFFICES ASSUME NEW b \in 0 .. MaxBoot, NEW n \in 0 .. MaxLogs
             PROVE  b * MaxLogs + n \in 0 .. MaxSeq
  BY <1>1
<1>. DEFINE x == b * MaxLogs
            y == (MaxBoot - b) * MaxLogs
<1>2. x \in Nat /\ y \in Nat
  <2>1. b \in Nat /\ MaxBoot - b \in Nat
    BY <1>0
  <2>. QED BY <1>0, <2>1
<1>3. MaxSeq = x + y + MaxLogs
  BY <1>0 DEF MaxSeq
<1>. HIDE DEF x, y
<1>4. x + n \in 0 .. x + y + MaxLogs
  BY <1>0, <1>2
<1>. QED BY <1>3, <1>4 DEF x

\* A restart begins where no number has been given.
LEMMA TopOfBoot ==
  ASSUME boot \in Nat, pushes \in 0 .. MaxLogs, boot' = boot + 1, pushes' = 0
  PROVE  Top \in Nat /\ Top' \in Nat /\ Top <= Top'
<1>. DEFINE a == boot * MaxLogs
<1>0. MaxLogs \in Nat
  BY BoundAssumption
<1>1. a \in Nat /\ (boot + 1) * MaxLogs = a + MaxLogs
  BY <1>0
<1>2. Top' = a + MaxLogs
  BY <1>0, <1>1 DEF Top
<1>3. Top = a + pushes
  BY DEF Top
<1>. HIDE DEF a
<1>. QED BY <1>0, <1>1, <1>2, <1>3

\* In the ring the numbers are even, and below the next one.
LEMMA RingIsEven ==
  ASSUME TypeOK, Numbered
  PROVE  /\ Even(ring) /\ seq \in Nat /\ Len(ring) \in Nat
         /\ \A i \in 1 .. Len(ring) : ring[i] \in Entry /\ ring[i].seq \in Nat /\ ring[i].seq < seq
<1>1. seq \in Nat /\ Len(ring) \in Nat
  BY BoundAssumption DEF TypeOK
<1>2. \A i \in 1 .. Len(ring) : ring[i] \in Entry
  BY ElementOfSeq DEF TypeOK
<1>3. \A i \in 1 .. Len(ring) : ring[i].seq \in Nat
  BY <1>2, BoundAssumption DEF Entry
<1>4. \A i \in 1 .. Len(ring) : ring[i].seq = seq - Len(ring) + (i - 1)
  BY DEF Numbered
<1>. QED BY <1>1, <1>2, <1>3, <1>4 DEF Even

-----------------------------------------------------------------------------
(* Steps that leave the export alone. *)

\* An export looks at the ring and at what it has itself.
LEMMA WalksKept ==
  ASSUME OlderFirst, Descends, Ascends, UNCHANGED <<ring, seq, http, atStart>>
  PROVE  OlderFirst' /\ Descends' /\ Ascends'
BY DEF OlderFirst, Descends, Ascends, Missed

\* Nor is there one when the HTTP task is elsewhere.
LEMMA NoWalk ==
  ASSUME http'.pc \notin {"json", "csv"}
  PROVE  OlderFirst' /\ Descends' /\ Ascends'
BY DEF OlderFirst, Descends, Ascends

\* The numbers given so far are in range.
LEMMA TopInRange == TypeOK => Top \in 0 .. MaxSeq /\ Top \in Nat
BY TopBounded DEF TypeOK, Top

\* The empty sequence is in order, as numbers go.
LEMMA EmptyIsEven == Len(<<>>) = 0 /\ <<>> \in Seq(Entry) /\ Even(<<>>) /\ \A t : Below(<<>>, t)
<1>1. Len(<<>>) = 0 /\ <<>> \in Seq(Entry)
  BY EmptySeq
<1>. QED BY <1>1 DEF Even, Below

\* A persister's copy is a piece of the ring, what it writes is its copy.
LEMMA PersistStep ==
  ASSUME IInv, NEW p \in Persister, Persist(p)
  PROVE  IInv'
<1>0. /\ TypeOK /\ Shaped /\ Numbered /\ OlderFirst /\ Descends /\ Ascends
      /\ UNCHANGED <<ring, pushes, seq, http, atStart, boot, dropped, writing>>
      /\ ring \in Seq(Entry) /\ tmp \in [Persister -> Seq(Entry)]
      /\ Capacity \in Nat /\ 0 \in 0 .. Capacity
      /\ num \in [Persister -> 0 .. Capacity]
      /\ pc \in [Persister -> {"idle", "copy", "write", "clean", "restart"}]
      /\ \A q \in Persister : Len(tmp[q]) <= Capacity
  <2>1. UNCHANGED <<ring, pushes, seq, http, atStart, boot, dropped, writing>>
    BY DEF Persist, Count, Copy, Write, Clean, Fail, Return, memory, export, persist
  <2>2. TypeOK /\ Shaped /\ Numbered /\ OlderFirst /\ Descends /\ Ascends
    BY DEF IInv
  <2>3. /\ num \in [Persister -> 0 .. Capacity]
        /\ pc \in [Persister -> {"idle", "copy", "write", "clean", "restart"}]
        /\ \A q \in Persister : Len(tmp[q]) <= Capacity
        /\ ring \in Seq(Entry)
    BY <2>2 DEF TypeOK
  <2>4. tmp \in [Persister -> Seq(Entry)]
    BY <2>2 DEF Shaped
  <2>. QED BY <2>1, <2>2, <2>3, <2>4, CapacityAssumption
<1>1. OlderFirst' /\ Descends' /\ Ascends'
  BY <1>0, WalksKept
<1>2. /\ tmp' \in [Persister -> Seq(Entry)] /\ num' \in [Persister -> 0 .. Capacity]
      /\ pc' \in [Persister -> {"idle", "copy", "write", "clean", "restart"}]
      /\ dirty' \in BOOLEAN
      /\ stored' \in Seq(Entry) /\ Len(stored') <= Capacity /\ Even(stored') /\ Below(stored', Top)
      /\ \A q \in Persister : Len(tmp'[q]) <= Capacity /\ Even(tmp'[q]) /\ Below(tmp'[q], Top)
  <2>0. /\ dirty \in BOOLEAN /\ stored \in Seq(Entry) /\ Len(stored) <= Capacity
        /\ Even(stored) /\ Below(stored, Top)
        /\ \A q \in Persister : Even(tmp[q]) /\ Below(tmp[q], Top)
    BY <1>0 DEF TypeOK, Numbered
  <2>1. CASE Count(p)
    <3>1. Len(ring) \in 0 .. Capacity
      BY <1>0 DEF TypeOK
    <3>. QED BY <1>0, <2>0, <2>1, <3>1 DEF Count
  <2>2. CASE Copy(p)
    <3>. DEFINE n == IF Len(ring) < num[p] THEN Len(ring) ELSE num[p]
                r == Ring!LastOf(ring, n)
    <3>1. n \in 0 .. Len(ring) /\ Len(ring) \in Nat /\ n <= Capacity
      BY <1>0 DEF TypeOK
    <3>. HIDE DEF n
    <3>2. /\ r \in Seq(Entry) /\ Len(r) = n
          /\ \A i \in 1 .. n : Len(ring) - n + i \in 1 .. Len(ring) /\ r[i] = ring[Len(ring) - n + i]
      BY <1>0, <3>1, LastOfProperties
    <3>3. tmp' = [tmp EXCEPT ![p] = r]
      BY <2>2 DEF Copy, Copied, n
    <3>. HIDE DEF r
    <3>4. Even(r)
      <4>1. Even(ring) /\ \A i \in 1 .. Len(ring) : ring[i].seq \in Nat
        BY <1>0, RingIsEven
      <4>2. ASSUME NEW i \in 1 .. n, NEW j \in 1 .. n PROVE r[j].seq = r[i].seq + (j - i)
        <5>1. ring[Len(ring) - n + j].seq
                = ring[Len(ring) - n + i].seq + ((Len(ring) - n + j) - (Len(ring) - n + i))
          BY <3>2, <4>1 DEF Even
        <5>. QED BY <3>1, <3>2, <4>1, <5>1
      <4>. QED BY <3>2, <4>2 DEF Even
    <3>5. Below(r, Top)
      <4>1. seq <= Top /\ seq \in Nat /\ Top \in Nat
        BY <1>0, RingIsEven, TopInRange DEF Numbered
      <4>2. \A i \in 1 .. Len(ring) : ring[i].seq \in Nat /\ ring[i].seq < seq
        BY <1>0, RingIsEven
      <4>3. ASSUME NEW i \in 1 .. n PROVE r[i].seq < Top
        <5>1. r[i].seq \in Nat /\ r[i].seq < seq
          BY <3>2, <4>2
        <5>. QED BY <4>1, <5>1
      <4>. QED BY <3>2, <4>3 DEF Below
    <3>6. UNCHANGED <<dirty, stored, num>> /\ pc' = [pc EXCEPT ![p] = IF ring = <<>> THEN "clean" ELSE "write"]
      BY <2>2 DEF Copy
    <3>. QED BY <1>0, <2>0, <3>1, <3>2, <3>3, <3>4, <3>5, <3>6
  <2>3. CASE Write(p)
    BY <1>0, <2>0, <2>3 DEF Write
  <2>4. CASE Clean(p) \/ Fail(p)
    <3>1. /\ stored' = stored /\ dirty' \in BOOLEAN
          /\ \E s \in {"restart", "idle"} : pc' = [pc EXCEPT ![p] = s]
          /\ num' = [num EXCEPT ![p] = 0] /\ tmp' = [tmp EXCEPT ![p] = <<>>]
      BY <2>0, <2>4 DEF Clean, Fail, Return
    <3>2. pc' \in [Persister -> {"idle", "copy", "write", "clean", "restart"}]
      BY <1>0, <3>1
    <3>3. num' \in [Persister -> 0 .. Capacity] /\ tmp' \in [Persister -> Seq(Entry)]
      BY <1>0, <3>1, EmptyIsEven
    <3>4. \A q \in Persister : tmp'[q] = tmp[q] \/ tmp'[q] = <<>>
      BY <1>0, <3>1
    <3>5. \A q \in Persister : Len(tmp'[q]) <= Capacity /\ Even(tmp'[q]) /\ Below(tmp'[q], Top)
      <4>1. Len(<<>>) <= Capacity
        BY <1>0, EmptyIsEven
      <4>. QED BY <1>0, <2>0, <3>4, <4>1, EmptyIsEven, Zenon
    <3>. QED BY <2>0, <3>1, <3>2, <3>3, <3>5
  <2>. QED BY <2>1, <2>2, <2>3, <2>4 DEF Persist
<1>3. TypeOK'
  BY <1>0, <1>2 DEF TypeOK
<1>4. Shaped' /\ Numbered'
  BY <1>0, <1>2 DEF Shaped, Numbered, Top
<1>. QED BY <1>1, <1>3, <1>4 DEF IInv

\* A boot takes up the numbers where the blob it restores leaves off, and finds room for
\* as many as it may give.
LEMMA RestartStep ==
  ASSUME IInv, Restart
  PROVE  IInv'
<1>0. /\ TypeOK /\ Numbered /\ UNCHANGED <<stored, dropped>>
      /\ boot \in 0 .. MaxBoot /\ boot' \in 0 .. MaxBoot /\ boot \in Nat /\ boot' = boot + 1
      /\ pushes \in 0 .. MaxLogs /\ pushes' = 0 /\ pushes' \in 0 .. MaxLogs
      /\ stored \in Seq(Entry) /\ Len(stored) <= Capacity /\ Capacity \in Nat /\ MaxLogs \in Nat
  BY BoundAssumption, CapacityAssumption DEF IInv, TypeOK, Restart
<1>1. Top \in Nat /\ Top' \in Nat /\ Top <= Top'
  BY <1>0, TopOfBoot
<1>2. PICK s \in {stored, <<>>} : ring' = s /\ seq' = NextSeq(s)
  BY DEF Restart
<1>3. s \in Seq(Entry) /\ Len(s) \in Nat /\ Len(s) <= Capacity /\ Even(s) /\ Below(s, Top)
      /\ (s = <<>> \/ Len(s) # 0)
  <2>1. CASE s = <<>>
    BY <1>0, <2>1, EmptyIsEven
  <2>2. CASE s # <<>> /\ s = stored
    BY <1>0, <2>2, EmptySeq DEF Numbered
  <2>. QED BY <2>1, <2>2
<1>4. \A i \in 1 .. Len(s) : s[i].seq \in Nat
  <2>1. \A i \in 1 .. Len(s) : s[i] \in Entry
    BY <1>3, ElementOfSeq
  <2>. QED BY <2>1, BoundAssumption DEF Entry
<1>5. seq' \in Nat /\ seq' <= Top' /\ \A i \in 1 .. Len(s) : s[i].seq = seq' - Len(s) + (i - 1)
  <2>1. CASE s = <<>>
    BY <1>1, <1>2, <2>1, EmptyIsEven DEF NextSeq
  <2>2. CASE s # <<>>
    <3>1. seq' = s[Len(s)].seq + 1 /\ Len(s) \in 1 .. Len(s)
      BY <1>2, <1>3, <2>2 DEF NextSeq
    <3>2. s[Len(s)].seq \in Nat /\ s[Len(s)].seq < Top
      BY <1>3, <1>4, <3>1 DEF Below
    <3>3. \A i \in 1 .. Len(s) : s[i].seq = s[Len(s)].seq + (i - Len(s))
      BY <1>3, <3>1 DEF Even
    <3>. DEFINE x == s[Len(s)].seq
                l == Len(s)
    <3>4. /\ x \in Nat /\ l \in Nat /\ seq' = x + 1 /\ x < Top
          /\ \A i \in 1 .. l : s[i].seq = x + (i - l)
      BY <1>3, <3>1, <3>2, <3>3
    <3>. HIDE DEF x, l
    <3>5. seq' \in Nat /\ seq' <= Top' /\ \A i \in 1 .. l : s[i].seq = seq' - l + (i - 1)
      BY <1>1, <3>4
    <3>. QED BY <3>5 DEF l
  <2>. QED BY <2>1, <2>2
<1>6. Below(stored', Top')
  <2>1. \A i \in 1 .. Len(stored) : stored[i].seq \in Nat /\ stored[i].seq < Top
    <3>1. \A i \in 1 .. Len(stored) : stored[i] \in Entry
      BY <1>0, ElementOfSeq
    <3>. QED BY <1>0, <3>1, BoundAssumption DEF Entry, Numbered, Below
  <2>. QED BY <1>0, <1>1, <2>1 DEF Below
<1>7. /\ num' \in [Persister -> 0 .. Capacity] /\ tmp' \in [Persister -> Seq(Entry)]
      /\ pc' \in [Persister -> {"idle", "copy", "write", "clean", "restart"}]
      /\ \A p \in Persister : tmp'[p] = <<>> /\ Len(tmp'[p]) <= Capacity
      /\ http' = NoExport /\ atStart' = {} /\ dirty' = FALSE /\ writing' = FALSE
  BY <1>0, EmptyIsEven DEF Restart
<1>8. TypeOK'
  <2>1. seq' \in 0 .. MaxSeq
    <3>1. Top' \in 0 .. MaxSeq /\ MaxSeq \in Nat
      BY <1>0, TopBounded DEF Top
    <3>. QED BY <1>5, <3>1
  <2>2. dropped' \subseteq Entry
    BY <1>0 DEF TypeOK
  <2>3. /\ http'.pc = "idle" /\ http'.i = 0 /\ http'.n = 0 /\ http'.out \in Seq(Entry)
        /\ 0 \in 0 .. Capacity + 1 /\ 0 \in 0 .. Capacity
    BY <1>0, <1>7, EmptyIsEven DEF NoExport
  <2>. QED BY <1>0, <1>2, <1>3, <1>7, <2>1, <2>2, <2>3 DEF TypeOK, MaxSeq
<1>9. Shaped'
  BY <1>7, EmptyIsEven DEF Shaped, NoExport
<1>10. Numbered'
  <2>1. Even(stored')
    BY <1>0 DEF Numbered
  <2>. QED BY <1>2, <1>5, <1>6, <1>7, <2>1, EmptyIsEven DEF Numbered
<1>11. OlderFirst' /\ Descends' /\ Ascends'
  BY <1>7, NoWalk DEF NoExport
<1>. QED BY <1>8, <1>9, <1>10, <1>11 DEF IInv

-----------------------------------------------------------------------------
(* A new entry. *)

\* The new entry comes last, the others keep their order, and an export that is under
\* way has not seen it.
LEMMA LogEffect ==
  ASSUME IInv, Log
  PROVE  /\ ring' \in Seq(Entry) /\ Len(ring') <= Capacity /\ Len(ring) \in Nat
         /\ seq \in Nat /\ seq' = seq + 1
         /\ \E d \in {0, 1} :
              /\ d <= Len(ring) /\ Len(ring') = Len(ring) + 1 - d
              /\ \A i \in 1 .. Len(ring) - d : ring'[i] = ring[i + d] /\ i + d \in 1 .. Len(ring)
              /\ ring'[Len(ring')] = [seq |-> seq, boot |-> boot]
              /\ \A i \in 1 .. Len(ring') : i \in 1 .. Len(ring) - d \/ i = Len(ring')
<1>. DEFINE e == [seq |-> seq, boot |-> boot]
<1>0. /\ TypeOK /\ ring \in Seq(Entry) /\ Len(ring) <= Capacity /\ Len(ring) \in Nat
      /\ seq \in 0 .. MaxSeq /\ seq \in Nat /\ MaxSeq \in Nat
  BY TopBounded DEF IInv, TypeOK, MaxSeq
<1>1. e \in Entry
  BY <1>0 DEF TypeOK, Entry, MaxSeq
<1>2. Ring!Push(e) /\ seq' = seq + 1
  BY DEF Log
<1>. HIDE DEF e
<1>3. /\ ring' \in Seq(Entry) /\ Len(ring') <= Capacity
      /\ \E d \in {0, 1} :
           /\ d <= Len(ring) /\ Len(ring') = Len(ring) + 1 - d /\ ring'[Len(ring')] = e
           /\ \A i \in 1 .. Len(ring) - d : ring'[i] = ring[i + d]
  BY <1>0, <1>1, <1>2, Pushed
<1>4. PICK d \in {0, 1} :
        /\ d <= Len(ring) /\ Len(ring') = Len(ring) + 1 - d /\ ring'[Len(ring')] = e
        /\ \A i \in 1 .. Len(ring) - d : ring'[i] = ring[i + d]
  BY <1>3
<1>5. /\ \A i \in 1 .. Len(ring) - d : i + d \in 1 .. Len(ring)
      /\ \A i \in 1 .. Len(ring') : i \in 1 .. Len(ring) - d \/ i = Len(ring')
  BY <1>0, <1>4
<1>. QED BY <1>0, <1>2, <1>3, <1>4, <1>5 DEF e

\* Entries the CSV walk has gone past are pushed out by new ones, one for one.
LEMMA MissedWhileLogging ==
  ASSUME IInv, Log, http.pc = "csv"
  PROVE  Cardinality(Missed') <= Cardinality(ToSet(ring') \ atStart)
<1>. DEFINE e == [seq |-> seq, boot |-> boot]
            New == ToSet(ring) \ atStart
<1>0. /\ TypeOK /\ Numbered /\ OlderFirst /\ Ascends /\ http' = http /\ atStart' = atStart
      /\ ring \in Seq(Entry) /\ http.i \in Nat
  BY DEF IInv, Log, TypeOK, Shaped, export
<1>1. ring' \in Seq(Entry) /\ Len(ring) \in Nat /\ seq \in Nat
  BY LogEffect
<1>2. PICK d \in {0, 1} :
        /\ d <= Len(ring) /\ Len(ring') = Len(ring) + 1 - d
        /\ \A i \in 1 .. Len(ring) - d : ring'[i] = ring[i + d] /\ i + d \in 1 .. Len(ring)
        /\ ring'[Len(ring')] = e
        /\ \A i \in 1 .. Len(ring') : i \in 1 .. Len(ring) - d \/ i = Len(ring')
  BY LogEffect
<1>3. e \notin atStart
  BY <1>0, <1>1 DEF OlderFirst
<1>4. e \notin ToSet(ring)
  <2>1. \A i \in 1 .. Len(ring) : ring[i].seq < seq /\ ring[i].seq \in Nat
    BY <1>0, RingIsEven
  <2>2. \A i \in 1 .. Len(ring) : ring[i] # e
    BY <1>1, <2>1
  <2>3. ToSet(ring) = {ring[i] : i \in 1 .. Len(ring)}
    BY <1>0, ToSetByIndex
  <2>. HIDE DEF e
  <2>. QED BY <2>2, <2>3
<1>5. /\ IsFiniteSet(ToSet(ring)) /\ IsFiniteSet(ToSet(ring'))
      /\ ToSet(ring) = {ring[i] : i \in 1 .. Len(ring)}
      /\ ToSet(ring') = {ring'[i] : i \in 1 .. Len(ring')}
  BY <1>0, <1>1, ToSetByIndex
<1>. HIDE DEF e
<1>6. /\ IsFiniteSet(New) /\ IsFiniteSet(ToSet(ring') \ atStart) /\ IsFiniteSet(Missed)
      /\ Cardinality(New) \in Nat /\ Cardinality(ToSet(ring') \ atStart) \in Nat
      /\ Cardinality(Missed) \in Nat /\ Cardinality(Missed) <= Cardinality(New)
  <2>1. Missed \in SUBSET ToSet(ring) /\ New \in SUBSET ToSet(ring)
        /\ ToSet(ring') \ atStart \in SUBSET ToSet(ring')
    BY <1>5 DEF Missed
  <2>2. IsFiniteSet(New) /\ IsFiniteSet(ToSet(ring') \ atStart) /\ IsFiniteSet(Missed)
    BY <1>5, <2>1, FS_Subset
  <2>. QED BY <1>0, <2>2, FS_CardinalityType DEF Ascends
<1>7. e \in ToSet(ring')
  <2>1. Len(ring') \in 1 .. Len(ring')
    BY <1>1, <1>2
  <2>. QED BY <1>2, <1>5, <2>1
<1>8. ASSUME NEW x \in Missed'
      PROVE  \E j \in 1 .. Len(ring) : /\ j - d < http.i /\ j > d /\ x = ring[j]
                                       /\ x \in atStart /\ x \notin ToSet(http.out)
  <2>1. PICK j \in 1 .. Len(ring') : j < http.i /\ x = ring'[j]
                                     /\ x \in atStart /\ x \notin ToSet(http.out)
    BY <1>0, <1>8 DEF Missed
  <2>2. j \in 1 .. Len(ring) - d
    BY <1>2, <1>3, <2>1
  <2>3. x = ring[j + d] /\ j + d \in 1 .. Len(ring) /\ (j + d) - d = j /\ j + d > d
    BY <1>2, <2>1, <2>2
  <2>. QED BY <2>1, <2>3
<1>9. CASE d = 0
  <2>1. Missed' \in SUBSET Missed
    BY <1>8, <1>9 DEF Missed
  <2>2. New \in SUBSET (ToSet(ring') \ atStart)
    BY <1>1, <1>2, <1>5, <1>9
  <2>3. Cardinality(Missed') <= Cardinality(Missed)
        /\ Cardinality(New) <= Cardinality(ToSet(ring') \ atStart)
        /\ IsFiniteSet(Missed')
    BY <1>6, <2>1, <2>2, FS_Subset
  <2>4. Cardinality(Missed') \in Nat
    BY <2>3, FS_CardinalityType
  <2>. QED BY <1>6, <2>3, <2>4
<1>10. CASE d = 1 /\ ring[1] \in atStart
  <2>1. Missed' \in SUBSET (Missed \cup {ring[http.i]})
    <3>1. ASSUME NEW x \in Missed' PROVE x \in Missed \cup {ring[http.i]}
      <4>1. PICK j \in 1 .. Len(ring) : j - 1 < http.i /\ x = ring[j]
                                        /\ x \in atStart /\ x \notin ToSet(http.out)
        BY <1>8, <1>10
      <4>2. j < http.i \/ j = http.i
        BY <1>0, <1>1, <4>1
      <4>. QED BY <4>1, <4>2 DEF Missed
    <3>. QED BY <3>1
  <2>2. (New \cup {e}) \in SUBSET (ToSet(ring') \ atStart)
    <3>1. ASSUME NEW x \in New PROVE x \in ToSet(ring') \ atStart
      <4>1. PICK j \in 1 .. Len(ring) : x = ring[j] /\ x \notin atStart
        BY <1>5
      <4>2. j - 1 \in 1 .. Len(ring) - d /\ (j - 1) + d = j /\ j - 1 \in 1 .. Len(ring')
        BY <1>1, <1>2, <1>10, <4>1
      <4>. QED BY <1>2, <1>5, <4>1, <4>2
    <3>. QED BY <1>3, <1>7, <3>1
  <2>3. e \notin New
    BY <1>4
  <2>4. /\ IsFiniteSet(Missed \cup {ring[http.i]})
        /\ Cardinality(Missed \cup {ring[http.i]}) <= Cardinality(Missed) + 1
        /\ Cardinality(New \cup {e}) = Cardinality(New) + 1
        /\ Cardinality(Missed \cup {ring[http.i]}) \in Nat
    <3>1. /\ IsFiniteSet(Missed \cup {ring[http.i]})
          /\ Cardinality(Missed \cup {ring[http.i]}) =
               IF ring[http.i] \in Missed THEN Cardinality(Missed) ELSE Cardinality(Missed) + 1
      BY <1>6, FS_AddElement
    <3>2. Cardinality(New \cup {e}) = Cardinality(New) + 1
      BY <1>6, <2>3, FS_AddElement
    <3>. HIDE DEF New
    <3>. QED BY <1>6, <3>1, <3>2
  <2>5. /\ Cardinality(Missed') <= Cardinality(Missed \cup {ring[http.i]})
        /\ Cardinality(New \cup {e}) <= Cardinality(ToSet(ring') \ atStart)
        /\ Cardinality(Missed') \in Nat
    <3>1. /\ Cardinality(Missed') <= Cardinality(Missed \cup {ring[http.i]}) /\ IsFiniteSet(Missed')
          /\ Cardinality(New \cup {e}) <= Cardinality(ToSet(ring') \ atStart)
      BY <1>6, <2>1, <2>2, <2>4, FS_Subset
    <3>. QED BY <3>1, FS_CardinalityType
  <2>. HIDE DEF New
  <2>. QED BY <1>6, <2>4, <2>5
<1>11. CASE d = 1 /\ ring[1] \notin atStart
  <2>1. Missed' = {}
    <3>1. ASSUME NEW x \in Missed' PROVE FALSE
      <4>1. PICK j \in 1 .. Len(ring) : j > 1 /\ x = ring[j] /\ x \in atStart
        BY <1>8, <1>11
      <4>2. 1 \in 1 .. Len(ring)
        BY <1>1, <4>1
      <4>3. ring[1] \in atStart
        BY <1>0, <4>1, <4>2 DEF OlderFirst
      <4>. QED BY <1>11, <4>3
    <3>. QED BY <3>1
  <2>. QED BY <1>6, <2>1, FS_EmptySet
<1>. QED BY <1>2, <1>9, <1>10, <1>11

\* A new entry keeps the invariant.
LEMMA LogStep ==
  ASSUME IInv, Log
  PROVE  IInv'
<1>. DEFINE e == [seq |-> seq, boot |-> boot]
<1>0. /\ TypeOK /\ Shaped /\ Numbered /\ OlderFirst /\ Descends /\ Ascends
      /\ UNCHANGED <<dirty, stored, pc, num, tmp, http, atStart, boot, dropped>> /\ writing' = TRUE
      /\ pushes < MaxLogs /\ pushes' = pushes + 1 /\ pushes' \in 0 .. MaxLogs
      /\ boot \in 0 .. MaxBoot
  <2>1. pushes < MaxLogs /\ pushes' = pushes + 1
    BY DEF Log, Ring!Push
  <2>2. pushes \in 0 .. MaxLogs /\ boot \in 0 .. MaxBoot
    BY DEF IInv, TypeOK
  <2>3. pushes' \in 0 .. MaxLogs
    BY <2>1, <2>2, BoundAssumption
  <2>. QED BY <2>1, <2>2, <2>3 DEF IInv, Log, persist, export
<1>1. /\ ring' \in Seq(Entry) /\ Len(ring') <= Capacity /\ Len(ring) \in Nat
      /\ seq \in Nat /\ seq' = seq + 1
  BY LogEffect
<1>2. PICK d \in {0, 1} :
        /\ d <= Len(ring) /\ Len(ring') = Len(ring) + 1 - d
        /\ \A i \in 1 .. Len(ring) - d : ring'[i] = ring[i + d] /\ i + d \in 1 .. Len(ring)
        /\ ring'[Len(ring')] = e
        /\ \A i \in 1 .. Len(ring') : i \in 1 .. Len(ring) - d \/ i = Len(ring')
  BY LogEffect
<1>3. Top \in Nat /\ Top' = Top + 1 /\ Top' \in 0 .. MaxSeq /\ MaxSeq \in Nat /\ seq <= Top
  <2>1. boot * MaxLogs \in Nat
    BY <1>0, BoundAssumption
  <2>2. boot * MaxLogs + pushes \in 0 .. MaxSeq /\ MaxSeq \in Nat
        /\ boot * MaxLogs + pushes' \in 0 .. MaxSeq
    BY <1>0, TopBounded DEF TypeOK
  <2>3. pushes \in Nat
    BY <1>0 DEF TypeOK
  <2>. QED BY <1>0, <2>1, <2>2, <2>3 DEF Top, Numbered
<1>4. TypeOK'
  <2>1. seq' \in 0 .. MaxSeq
    BY <1>1, <1>3
  <2>. QED BY <1>0, <1>1, <2>1 DEF TypeOK, MaxSeq
<1>5. Shaped'
  BY <1>0 DEF Shaped
<1>6. \A i \in 1 .. Len(ring) : ring[i].seq \in Nat /\ ring[i].seq < seq
  BY <1>0, RingIsEven
<1>7. Numbered'
  <2>1. seq' <= Top'
    BY <1>1, <1>3
  <2>2. ASSUME NEW i \in 1 .. Len(ring') PROVE ring'[i].seq = seq' - Len(ring') + (i - 1)
    <3>1. CASE i \in 1 .. Len(ring) - d
      <4>1. ring'[i].seq = seq - Len(ring) + ((i + d) - 1)
        BY <1>0, <1>2, <3>1 DEF Numbered
      <4>. QED BY <1>1, <1>2, <4>1, SMTT(20)
    <3>2. CASE i = Len(ring')
      BY <1>1, <1>2, <3>2
    <3>. QED BY <1>2, <2>2, <3>1, <3>2
  <2>3. ASSUME NEW s \in Seq(Entry), Below(s, Top) PROVE Below(s, Top')
    <3>1. \A i \in 1 .. Len(s) : s[i].seq \in Nat
      <4>1. \A i \in 1 .. Len(s) : s[i] \in Entry
        BY ElementOfSeq
      <4>. QED BY <4>1, BoundAssumption DEF Entry
    <3>. QED BY <1>3, <2>3, <3>1 DEF Below
  <2>4. Below(stored', Top') /\ \A p \in Persister : Below(tmp'[p], Top')
    BY <1>0, <2>3 DEF TypeOK, Numbered
  <2>. QED BY <1>0, <2>1, <2>2, <2>4 DEF Numbered
<1>8. CASE http.pc \notin {"json", "csv"}
  BY <1>0, <1>4, <1>5, <1>7, <1>8, NoWalk DEF IInv
<1>9. CASE http.pc \in {"json", "csv"}
  <2>1. e \notin atStart /\ \A x \in atStart : x.seq < seq /\ x.seq \in Nat
    <3>1. \A x \in atStart : x.seq \in Nat
      BY <1>0, BoundAssumption DEF TypeOK, Entry
    <3>. QED BY <1>0, <1>1, <1>9, <3>1 DEF OlderFirst
  <2>2. \A j \in 1 .. Len(ring') : ring'[j] \in atStart =>
          j \in 1 .. Len(ring) - d /\ j + d \in 1 .. Len(ring) /\ ring'[j] = ring[j + d]
    BY <1>2, <2>1
  <2>. HIDE DEF e
  <2>3. OlderFirst'
    <3>1. \A x \in atStart' : x.seq < seq'
      BY <1>0, <1>1, <2>1
    <3>2. ASSUME NEW j \in 1 .. Len(ring'), NEW k \in 1 .. Len(ring'), j < k, ring'[k] \in atStart
          PROVE  ring'[j] \in atStart
      <4>1. k \in 1 .. Len(ring) - d /\ k + d \in 1 .. Len(ring) /\ ring[k + d] \in atStart
        BY <2>2, <3>2
      <4>2. j \in 1 .. Len(ring) - d /\ j + d \in 1 .. Len(ring) /\ j + d < k + d
        BY <1>1, <1>2, <3>2, <4>1
      <4>3. ring[j + d] \in atStart
        BY <1>0, <1>9, <4>1, <4>2 DEF OlderFirst
      <4>. QED BY <1>2, <4>2, <4>3
    <3>. QED BY <1>0, <3>1, <3>2 DEF OlderFirst
  <2>4. Descends'
    <3>. SUFFICES ASSUME http.pc = "json",
                         NEW j \in 1 .. Len(ring'), ring'[j] \in atStart, ring'[j] \notin ToSet(http.out)
                  PROVE  j <= http.i /\ (http.out # <<>> =>
                           ring'[j].seq < http.out[Len(http.out)].seq)
      BY <1>0 DEF Descends
    <3>1. ring'[j] = ring[j + d] /\ j + d \in 1 .. Len(ring)
      BY <2>2
    <3>2. j + d <= http.i
      BY <1>0, <3>1 DEF Descends
    <3>3. j <= http.i
      BY <1>0, <1>2, <3>2 DEF Shaped
    <3>. QED BY <1>0, <3>1, <3>3 DEF Descends
  <2>5. Ascends'
    <3>. SUFFICES ASSUME http.pc = "csv" PROVE Ascends'
      BY <1>0 DEF Ascends
    <3>0. http.i \in Nat /\ http.n \in Nat /\ http.out \in Seq(Entry)
      BY <1>0 DEF Shaped
    <3>1. ASSUME http.out # <<>>
          PROVE  /\ http.out[Len(http.out)].seq < seq'
                 /\ \A j \in 1 .. Len(ring') : j >= http.i =>
                      http.out[Len(http.out)].seq < ring'[j].seq
      <4>1. /\ http.out[Len(http.out)].seq < seq
            /\ \A j \in 1 .. Len(ring) : j >= http.i => http.out[Len(http.out)].seq < ring[j].seq
        BY <1>0, <3>1 DEF Ascends
      <4>2. http.out[Len(http.out)].seq \in Nat
        <5>1. Len(http.out) \in 1 .. Len(http.out)
          BY <3>0, <3>1, EmptySeq
        <5>2. http.out[Len(http.out)] \in Entry
          BY <3>0, <5>1, ElementOfSeq
        <5>. QED BY <5>2, BoundAssumption DEF Entry
      <4>3. ASSUME NEW j \in 1 .. Len(ring'), j >= http.i
            PROVE  http.out[Len(http.out)].seq < ring'[j].seq
        <5>1. CASE j \in 1 .. Len(ring) - d
          <6>1. ring'[j] = ring[j + d] /\ j + d \in 1 .. Len(ring) /\ j + d >= http.i
            BY <1>2, <3>0, <4>3, <5>1
          <6>. QED BY <4>1, <6>1
        <5>2. CASE j = Len(ring')
          BY <1>2, <4>1, <5>2 DEF e
        <5>. QED BY <1>2, <5>1, <5>2
      <4>. QED BY <1>1, <4>1, <4>2, <4>3
    <3>2. ASSUME NEW j \in 1 .. Len(ring'), ring'[j] \in atStart PROVE j <= http.n
      <4>1. j + d \in 1 .. Len(ring) /\ ring[j + d] \in atStart
        BY <2>2, <3>2
      <4>2. j + d <= http.n
        BY <1>0, <4>1 DEF Ascends
      <4>. QED BY <1>2, <3>0, <4>2
    <3>3. Cardinality(Missed') <= Cardinality(ToSet(ring') \ atStart)
      BY MissedWhileLogging
    <3>. QED BY <1>0, <3>1, <3>2, <3>3 DEF Ascends
  <2>. QED BY <1>4, <1>5, <1>7, <2>3, <2>4, <2>5 DEF IInv
<1>. QED BY <1>8, <1>9

-----------------------------------------------------------------------------
(* The HTTP task. *)

\* The walks touch nothing but their own state.
LEMMA WalkFrame ==
  ASSUME IInv, UNCHANGED <<memory, dirty, writing, stored, persist, boot, dropped>>,
         http' \in [pc : {"idle", "json", "csv", "erase", "unflag"}, i : Nat, n : Nat, out : Seq(Entry)],
         http'.n <= Capacity, http'.i <= Capacity + 1, atStart' \subseteq Entry
  PROVE  TypeOK' /\ Numbered' /\ tmp' \in [Persister -> Seq(Entry)]
<1>1. TypeOK /\ Numbered /\ Shaped /\ Capacity \in Nat
  BY CapacityAssumption DEF IInv
<1>2. UNCHANGED <<ring, pushes, seq, dirty, writing, stored, pc, num, tmp, boot, dropped>>
  BY DEF memory, persist
<1>3. /\ http'.pc \in {"idle", "json", "csv", "erase", "unflag"}
      /\ http'.i \in 0 .. Capacity + 1 /\ http'.n \in 0 .. Capacity /\ http'.out \in Seq(Entry)
  BY <1>1
<1>4. TypeOK'
  BY <1>1, <1>2, <1>3 DEF TypeOK
<1>5. Numbered' /\ tmp' \in [Persister -> Seq(Entry)]
  BY <1>1, <1>2 DEF Numbered, Top, Shaped
<1>. QED BY <1>4, <1>5

\* A walk begins with everything before it.
LEMMA StartStep ==
  ASSUME IInv, Start
  PROVE  IInv'
<1>0. /\ TypeOK /\ Numbered /\ ring \in Seq(Entry) /\ Len(ring) \in Nat /\ Len(ring) <= Capacity
      /\ Capacity \in Nat /\ UNCHANGED <<memory, dirty, writing, stored, persist, boot, dropped>>
      /\ UNCHANGED <<ring, seq>> /\ atStart' = ToSet(ring)
  <2>1. /\ UNCHANGED <<memory, dirty, writing, stored, persist, boot, dropped>>
        /\ UNCHANGED <<ring, seq>> /\ atStart' = ToSet(ring)
    BY DEF Start, memory
  <2>2. TypeOK /\ Numbered
    BY DEF IInv
  <2>3. ring \in Seq(Entry) /\ Len(ring) \in Nat /\ Len(ring) <= Capacity
    BY <2>2 DEF TypeOK
  <2>. QED BY <2>1, <2>2, <2>3, CapacityAssumption
<1>1. ToSet(ring) = {ring[i] : i \in 1 .. Len(ring)} /\ ToSet(ring) \subseteq Entry
  BY <1>0, ToSetByIndex
<1>2. /\ http' \in [pc : {"idle", "json", "csv", "erase", "unflag"}, i : Nat, n : Nat, out : Seq(Entry)]
      /\ http'.pc \in {"json", "csv"} /\ http'.out = <<>> /\ http'.n = Len(ring)
      /\ http'.i = IF http'.pc = "json" THEN Len(ring) ELSE 1
  <2>1. PICK r \in {"json", "csv"} :
          http' = [pc |-> r, i |-> IF r = "json" THEN Len(ring) ELSE 1, n |-> Len(ring), out |-> <<>>]
    BY RequestAssumption DEF Start
  <2>. QED BY <1>0, <2>1, EmptyIsEven
<1>3. TypeOK' /\ Numbered' /\ tmp' \in [Persister -> Seq(Entry)]
  <2>1. http'.n <= Capacity /\ http'.i <= Capacity + 1 /\ atStart' \subseteq Entry
    BY <1>0, <1>1, <1>2
  <2>. QED BY <1>0, <1>2, <2>1, WalkFrame
<1>4. Shaped'
  BY <1>0, <1>2, <1>3 DEF Shaped
<1>5. OlderFirst'
  BY <1>0, <1>1, RingIsEven DEF OlderFirst
<1>6. Descends'
  BY <1>0, <1>2, EmptyIsEven DEF Descends
<1>7. Ascends'
  <2>1. \A j \in 1 .. Len(ring) : j <= http'.n
    BY <1>0, <1>2
  <2>2. http'.pc = "csv" => Missed' = {}
    BY <1>0, <1>2 DEF Missed
  <2>3. ToSet(ring') \ atStart' = {}
    BY <1>0
  <2>4. http'.pc = "csv" => Cardinality(Missed') <= Cardinality(ToSet(ring') \ atStart')
    BY <2>2, <2>3, FS_EmptySet
  <2>. QED BY <1>0, <1>2, <2>1, <2>4, EmptyIsEven DEF Ascends
<1>. QED BY <1>3, <1>4, <1>5, <1>6, <1>7 DEF IInv

\* What a step of a walk may rely on.
LEMMA WalkTyped ==
  ASSUME IInv
  PROVE  /\ TypeOK /\ Shaped /\ Numbered /\ OlderFirst /\ Descends /\ Ascends
         /\ ring \in Seq(Entry) /\ Len(ring) \in Nat /\ Even(ring) /\ seq \in Nat
         /\ http.out \in Seq(Entry) /\ http.i \in Nat /\ http.n \in Nat /\ http.i <= Capacity + 1
         /\ http.n <= Capacity /\ Len(http.out) \in Nat /\ Capacity \in Nat
         /\ ToSet(http.out) = {http.out[k] : k \in 1 .. Len(http.out)}
         /\ \A j \in 1 .. Len(ring) :
              ring[j] \in Entry /\ ring[j].seq \in Nat /\ ring[j].seq < seq
         /\ \A k \in 1 .. Len(http.out) : http.out[k] \in Entry /\ http.out[k].seq \in Nat
         /\ http.out # <<>> => Len(http.out) \in 1 .. Len(http.out)
<1>1. TypeOK /\ Shaped /\ Numbered /\ OlderFirst /\ Descends /\ Ascends /\ Capacity \in Nat
  BY CapacityAssumption DEF IInv
<1>2. ring \in Seq(Entry) /\ http.out \in Seq(Entry) /\ http.i \in Nat /\ http.n \in Nat
      /\ http.i <= Capacity + 1 /\ http.n <= Capacity
  BY <1>1 DEF TypeOK, Shaped
<1>3. Len(http.out) \in Nat /\ (http.out # <<>> => Len(http.out) \in 1 .. Len(http.out))
  BY <1>2, EmptySeq
<1>4. \A k \in 1 .. Len(http.out) : http.out[k] \in Entry
  BY <1>2, ElementOfSeq
<1>5. \A k \in 1 .. Len(http.out) : http.out[k].seq \in Nat
  BY <1>4, BoundAssumption DEF Entry
<1>6. ToSet(http.out) = {http.out[k] : k \in 1 .. Len(http.out)}
  BY <1>2, ToSetByIndex
<1>. QED BY <1>1, <1>2, <1>3, <1>4, <1>5, <1>6, RingIsEven

\* A step of the JSON walk emits the entry at its position, unless that is no older than
\* the last, and then leaves out nothing that is still wanted.
LEMMA JsonStepKeeps ==
  ASSUME IInv, JsonStep
  PROVE  IInv'
<1>. DEFINE i == http.i
            out == http.out
            entry == ring[i]
            emits == i <= Len(ring) /\ ~Repeat(entry, out)
<1>0. /\ TypeOK /\ Shaped /\ Numbered /\ OlderFirst /\ Descends /\ Ascends
      /\ ring \in Seq(Entry) /\ Len(ring) \in Nat /\ Even(ring) /\ seq \in Nat
      /\ out \in Seq(Entry) /\ i \in Nat /\ http.n \in Nat /\ i <= Capacity + 1
      /\ http.n <= Capacity /\ Len(out) \in Nat /\ Capacity \in Nat
      /\ ToSet(out) = {out[k] : k \in 1 .. Len(out)}
      /\ \A j \in 1 .. Len(ring) :
           ring[j] \in Entry /\ ring[j].seq \in Nat /\ ring[j].seq < seq
      /\ \A k \in 1 .. Len(out) : out[k] \in Entry /\ out[k].seq \in Nat
      /\ out # <<>> => Len(out) \in 1 .. Len(out)
  BY WalkTyped
<1>1. /\ http.pc = "json" /\ i > 0 /\ i <= http.n
      /\ UNCHANGED <<memory, dirty, writing, stored, persist, boot, dropped>>
      /\ UNCHANGED <<ring, seq, atStart>>
  BY <1>0 DEF JsonStep, memory, Shaped
<1>2. i <= Len(ring) => i \in 1 .. Len(ring)
  BY <1>0, <1>1
<1>3. http' = [http EXCEPT !.i = @ - 1, !.out = IF emits THEN @ \o <<entry>> ELSE @]
  <2>1. CASE i <= Len(ring)
    <3>1. Peeked(http.i) = <<entry>> /\ <<entry>> # <<>> /\ Peeked(http.i)[1] = entry
      BY <2>1 DEF Peeked
    <3>. QED BY <2>1, <3>1 DEF JsonStep
  <2>2. CASE ~(i <= Len(ring))
    BY <2>2 DEF JsonStep, Peeked
  <2>. QED BY <2>1, <2>2
<1>4. emits => out \o <<entry>> \in Seq(Entry)
  BY <1>0, <1>2, Appended
<1>. HIDE DEF emits
<1>5. /\ http' \in [pc : {"idle", "json", "csv", "erase", "unflag"}, i : Nat, n : Nat, out : Seq(Entry)]
      /\ http'.pc = "json" /\ http'.i = i - 1 /\ http'.n = http.n
      /\ http'.out = IF emits THEN out \o <<entry>> ELSE out
  <2>1. http \in [pc : {"idle", "json", "csv", "erase", "unflag"}, i : Nat, n : Nat, out : Seq(Entry)]
    BY <1>0 DEF Shaped
  <2>2. i - 1 \in Nat
    BY <1>0, <1>1
  <2>3. (IF emits THEN out \o <<entry>> ELSE out) \in Seq(Entry)
    BY <1>0, <1>4
  <2>. QED BY <1>1, <1>3, <2>1, <2>2, <2>3
<1>. HIDE DEF i, out, entry
<1>6. TypeOK' /\ Numbered' /\ tmp' \in [Persister -> Seq(Entry)]
  <2>1. http'.n <= Capacity /\ http'.i <= Capacity + 1 /\ atStart' \subseteq Entry
    BY <1>0, <1>1, <1>5 DEF TypeOK
  <2>. QED BY <1>1, <1>5, <2>1, WalkFrame
<1>7. Shaped'
  <2>1. http'.pc = "json" => http'.i <= http'.n
    BY <1>0, <1>1, <1>5
  <2>2. http'.pc = "csv" => http'.i \in 1 .. http'.n + 1
    BY <1>5
  <2>. QED BY <1>5, <1>6, <2>1, <2>2 DEF Shaped
<1>8. OlderFirst'
  BY <1>0, <1>1 DEF OlderFirst
<1>9. Ascends'
  BY <1>5 DEF Ascends
<1>10. \A j \in 1 .. Len(ring) : ring[j] \in atStart /\ ring[j] \notin ToSet(out) =>
         j <= i /\ (out # <<>> => ring[j].seq < out[Len(out)].seq)
  BY <1>0, <1>1 DEF Descends, i, out
<1>11. \A k \in 1 .. Len(out) - 1 : out[k + 1].seq < out[k].seq
  BY <1>0, <1>1 DEF Descends, out
<1>12. CASE emits
  <2>. DEFINE r == out \o <<entry>>
  <2>0. i \in 1 .. Len(ring) /\ entry = ring[i] /\ (out # <<>> => entry.seq < out[Len(out)].seq)
        /\ entry \in Entry /\ entry.seq \in Nat
    <3>1. i \in 1 .. Len(ring) /\ ~Repeat(entry, out) /\ entry = ring[i]
      BY <1>2, <1>12 DEF emits, entry
    <3>2. out # <<>> => ~(entry.seq >= out[Len(out)].seq)
      BY <3>1 DEF Repeat
    <3>3. entry \in Entry /\ entry.seq \in Nat /\ (out # <<>> => out[Len(out)].seq \in Nat)
      BY <1>0, <3>1
    <3>. QED BY <3>1, <3>2, <3>3
  <2>1. /\ r \in Seq(Entry) /\ Len(r) = Len(out) + 1 /\ r # <<>> /\ r[Len(r)] = entry
        /\ \A k \in 1 .. Len(out) : r[k] = out[k]
    BY <1>0, <2>0, Appended
  <2>2. http'.out = r
    BY <1>5, <1>12
  <2>. HIDE DEF r
  <2>3. ToSet(r) = {r[k] : k \in 1 .. Len(r)}
    BY <2>1, ToSetByIndex
  <2>4. entry \in ToSet(r) /\ ToSet(out) \subseteq ToSet(r)
    <3>1. Len(r) \in 1 .. Len(r) /\ \A k \in 1 .. Len(out) : k \in 1 .. Len(r)
      BY <1>0, <2>1
    <3>. QED BY <1>0, <2>1, <2>3, <3>1
  <2>5. ASSUME NEW k \in 1 .. Len(r) - 1 PROVE r[k + 1].seq < r[k].seq
    <3>1. CASE k = Len(out)
      <4>1. out # <<>>
        BY <1>0, <2>5, <3>1, EmptyIsEven
      <4>. QED BY <1>0, <2>0, <2>1, <3>1, <4>1
    <3>2. CASE k # Len(out)
      <4>1. k \in 1 .. Len(out) - 1 /\ k \in 1 .. Len(out) /\ k + 1 \in 1 .. Len(out)
        BY <1>0, <2>1, <2>5, <3>2
      <4>. QED BY <1>11, <2>1, <4>1
    <3>. QED BY <3>1, <3>2
  <2>6. ASSUME NEW j \in 1 .. Len(ring), ring[j] \in atStart, ring[j] \notin ToSet(r)
        PROVE  j <= i - 1 /\ ring[j].seq < r[Len(r)].seq
    <3>1. j <= i /\ j # i
      BY <1>10, <2>0, <2>4, <2>6
    <3>2. ring[j].seq = ring[i].seq + (j - i)
      BY <1>0, <2>0 DEF Even
    <3>3. ring[j].seq \in Nat /\ ring[i].seq \in Nat
      BY <1>0, <2>0
    <3>4. j <= i - 1 /\ j - i < 0 /\ j - i \in Int
      BY <1>0, <3>1
    <3>5. ring[j].seq < ring[i].seq
      BY <3>2, <3>3, <3>4
    <3>. QED BY <2>0, <2>1, <3>4, <3>5
  <2>7. Descends'
    BY <1>1, <1>5, <2>2, <2>5, <2>6 DEF Descends
  <2>. QED BY <1>6, <1>7, <1>8, <1>9, <2>7 DEF IInv
<1>13. CASE ~emits
  <2>1. http'.out = out
    BY <1>5, <1>13
  <2>2. ASSUME NEW j \in 1 .. Len(ring), ring[j] \in atStart, ring[j] \notin ToSet(out)
        PROVE  j <= i - 1
    <3>1. j <= i
      BY <1>10, <2>2
    <3>2. j # i
      <4>1. ASSUME j = i PROVE FALSE
        <5>1. Repeat(ring[j], out)
          BY <1>0, <1>13, <4>1 DEF emits, entry
        <5>2. out # <<>> /\ ring[j].seq >= out[Len(out)].seq
          BY <5>1 DEF Repeat
        <5>3. ring[j].seq < out[Len(out)].seq /\ ring[j].seq \in Nat /\ out[Len(out)].seq \in Nat
          BY <1>0, <1>10, <2>2, <5>2
        <5>. QED BY <5>2, <5>3
      <4>. QED BY <4>1
    <3>. QED BY <1>0, <3>1, <3>2
  <2>3. Descends'
    BY <1>1, <1>5, <1>10, <1>11, <2>1, <2>2 DEF Descends
  <2>. QED BY <1>6, <1>7, <1>8, <1>9, <2>3 DEF IInv
<1>. QED BY <1>12, <1>13

\* A step of the CSV walk emits the entry at its position, if there is one.
LEMMA CsvStepKeeps ==
  ASSUME IInv, CsvStep
  PROVE  IInv'
<1>. DEFINE i == http.i
            out == http.out
            r == http'.out
<1>0. /\ TypeOK /\ Shaped /\ Numbered /\ OlderFirst /\ Descends /\ Ascends
      /\ ring \in Seq(Entry) /\ Len(ring) \in Nat /\ Even(ring) /\ seq \in Nat
      /\ out \in Seq(Entry) /\ i \in Nat /\ http.n \in Nat /\ i <= Capacity + 1
      /\ http.n <= Capacity /\ Len(out) \in Nat /\ Capacity \in Nat
      /\ ToSet(out) = {out[k] : k \in 1 .. Len(out)}
      /\ \A j \in 1 .. Len(ring) :
           ring[j] \in Entry /\ ring[j].seq \in Nat /\ ring[j].seq < seq
      /\ \A k \in 1 .. Len(out) : out[k] \in Entry /\ out[k].seq \in Nat
      /\ out # <<>> => Len(out) \in 1 .. Len(out)
  BY WalkTyped
<1>1. /\ http.pc = "csv" /\ i \in 1 .. http.n
      /\ UNCHANGED <<memory, dirty, writing, stored, persist, boot, dropped>>
      /\ UNCHANGED <<ring, seq, atStart>>
      /\ http' = [http EXCEPT !.i = @ + 1, !.out = @ \o Peeked(http.i)]
  BY <1>0 DEF CsvStep, CsvRows, memory, Shaped
<1>2. out \o Peeked(http.i) \in Seq(Entry)
      /\ (~(i <= Len(ring)) => out \o Peeked(http.i) = out)
  <2>1. CASE i <= Len(ring)
    <3>1. ring[i] \in Entry /\ Peeked(http.i) = <<ring[i]>>
      BY <1>0, <1>1, <2>1 DEF Peeked
    <3>. QED BY <1>0, <2>1, <3>1, Appended
  <2>2. CASE ~(i <= Len(ring))
    <3>1. Peeked(http.i) = <<>>
      BY <2>2 DEF Peeked
    <3>. QED BY <1>0, <3>1, ConcatEmptySeq
  <2>. QED BY <2>1, <2>2
<1>3. /\ http' \in [pc : {"idle", "json", "csv", "erase", "unflag"}, i : Nat, n : Nat, out : Seq(Entry)]
      /\ http'.pc = "csv" /\ http'.i = i + 1 /\ http'.n = http.n /\ r = out \o Peeked(http.i)
  <2>1. http \in [pc : {"idle", "json", "csv", "erase", "unflag"}, i : Nat, n : Nat, out : Seq(Entry)]
    BY <1>0 DEF Shaped
  <2>2. i + 1 \in Nat
    BY <1>0
  <2>. QED BY <1>1, <1>2, <2>1, <2>2
<1>. HIDE DEF i, out, r
<1>4. TypeOK' /\ Numbered' /\ tmp' \in [Persister -> Seq(Entry)]
  <2>1. http'.n <= Capacity /\ http'.i <= Capacity + 1 /\ atStart' \subseteq Entry
    <3>1. atStart' \subseteq Entry
      BY <1>0, <1>1 DEF TypeOK
    <3>. QED BY <1>0, <1>1, <1>3, <3>1
  <2>. QED BY <1>1, <1>3, <2>1, WalkFrame
<1>5. Shaped'
  BY <1>0, <1>1, <1>3, <1>4, SMTT(20) DEF Shaped
<1>6. OlderFirst' /\ Descends'
  BY <1>0, <1>1, <1>3 DEF OlderFirst, Descends
<1>7. /\ \A k \in 1 .. Len(out) - 1 : out[k + 1].seq > out[k].seq
      /\ out # <<>> =>
           /\ out[Len(out)].seq < seq
           /\ \A j \in 1 .. Len(ring) : j >= i => out[Len(out)].seq < ring[j].seq
      /\ \A j \in 1 .. Len(ring) : ring[j] \in atStart => j <= http.n
      /\ Cardinality(Missed) <= Cardinality(ToSet(ring) \ atStart)
      /\ Missed = {ring[j] : j \in {k \in 1 .. Len(ring) : k < i}} \cap (atStart \ ToSet(out))
  BY <1>0, <1>1 DEF Ascends, Missed, i, out
<1>8. Missed' = {ring[j] : j \in {k \in 1 .. Len(ring) : k < i + 1}} \cap (atStart \ ToSet(r))
  BY <1>1, <1>3 DEF Missed, r
<1>9. ASSUME Missed' \in SUBSET Missed PROVE Cardinality(Missed') <= Cardinality(ToSet(ring) \ atStart)
  <2>1. /\ IsFiniteSet(Missed) /\ IsFiniteSet(ToSet(ring) \ atStart)
    <3>1. IsFiniteSet(ToSet(ring)) /\ ToSet(ring) = {ring[j] : j \in 1 .. Len(ring)}
      BY <1>0, ToSetByIndex
    <3>2. Missed \in SUBSET ToSet(ring) /\ ToSet(ring) \ atStart \in SUBSET ToSet(ring)
      BY <1>7, <3>1
    <3>. QED BY <3>1, <3>2, FS_Subset
  <2>2. IsFiniteSet(Missed') /\ Cardinality(Missed') <= Cardinality(Missed)
    BY <1>9, <2>1, FS_Subset
  <2>3. /\ Cardinality(Missed) \in Nat /\ Cardinality(Missed') \in Nat
        /\ Cardinality(ToSet(ring) \ atStart) \in Nat
    BY <2>1, <2>2, FS_CardinalityType
  <2>. QED BY <1>7, <2>2, <2>3
<1>10. CASE i <= Len(ring)
  <2>0. i \in 1 .. Len(ring) /\ ring[i] \in Entry /\ ring[i].seq \in Nat /\ ring[i].seq < seq
    BY <1>0, <1>1, <1>10
  <2>1. /\ r \in Seq(Entry) /\ Len(r) = Len(out) + 1 /\ r # <<>> /\ r[Len(r)] = ring[i]
        /\ \A k \in 1 .. Len(out) : r[k] = out[k]
    <3>1. r = out \o <<ring[i]>>
      BY <1>3, <1>10 DEF Peeked, i
    <3>. QED BY <1>0, <2>0, <3>1, Appended
  <2>2. ring[i] \in ToSet(r) /\ ToSet(out) \subseteq ToSet(r)
    <3>1. ToSet(r) = {r[k] : k \in 1 .. Len(r)}
      BY <2>1, ToSetByIndex
    <3>2. Len(r) \in 1 .. Len(r) /\ \A k \in 1 .. Len(out) : k \in 1 .. Len(r)
      BY <1>0, <2>1
    <3>. QED BY <1>0, <2>1, <3>1, <3>2
  <2>3. ASSUME NEW k \in 1 .. Len(r) - 1 PROVE r[k + 1].seq > r[k].seq
    <3>1. CASE k = Len(out)
      <4>1. out # <<>>
        BY <1>0, <2>3, <3>1, EmptyIsEven
      <4>2. out[Len(out)].seq < ring[i].seq /\ out[Len(out)].seq \in Nat
        BY <1>0, <1>7, <2>0, <4>1
      <4>3. r[k] = out[Len(out)] /\ r[k + 1] = ring[i]
        BY <1>0, <2>1, <3>1, <4>1
      <4>. QED BY <2>0, <4>2, <4>3
    <3>2. CASE k # Len(out)
      <4>1. k \in 1 .. Len(out) - 1 /\ k \in 1 .. Len(out) /\ k + 1 \in 1 .. Len(out)
        BY <1>0, <2>1, <2>3, <3>2
      <4>. QED BY <1>7, <2>1, <4>1
    <3>. QED BY <3>1, <3>2
  <2>4. ASSUME NEW j \in 1 .. Len(ring), j >= i + 1 PROVE r[Len(r)].seq < ring[j].seq
    <3>1. ring[j].seq = ring[i].seq + (j - i) /\ ring[j].seq \in Nat
      BY <1>0, <2>0 DEF Even
    <3>. QED BY <1>0, <2>0, <2>1, <2>4, <3>1
  <2>5. Missed' \in SUBSET Missed
    <3>1. ASSUME NEW x \in Missed' PROVE x \in Missed
      <4>1. PICK k \in 1 .. Len(ring) : k < i + 1 /\ x = ring[k] /\ x \in atStart /\ x \notin ToSet(r)
        BY <1>8
      <4>2. k < i /\ x \notin ToSet(out)
        BY <1>0, <2>2, <4>1
      <4>. QED BY <1>7, <4>1, <4>2
    <3>. QED BY <3>1
  <2>6. Ascends'
    <3>1. r[Len(r)].seq < seq
      BY <2>0, <2>1
    <3>. QED BY <1>1, <1>3, <1>7, <1>9, <2>3, <2>4, <2>5, <3>1 DEF Ascends, r
  <2>. QED BY <1>4, <1>5, <1>6, <2>6 DEF IInv
<1>11. CASE ~(i <= Len(ring))
  <2>1. r = out
    BY <1>2, <1>3, <1>11
  <2>2. \A j \in 1 .. Len(ring) : ~(j >= i + 1) /\ j < i
    BY <1>0, <1>11
  <2>3. Missed' \in SUBSET Missed
    BY <1>7, <1>8, <2>1, <2>2
  <2>4. Ascends'
    BY <1>1, <1>3, <1>7, <1>9, <2>1, <2>2, <2>3 DEF Ascends, r
  <2>. QED BY <1>4, <1>5, <1>6, <2>4 DEF IInv
<1>. QED BY <1>10, <1>11

\* Nothing numbered is added by a clear or at the end of an export.
LEMMA OtherHttpSteps ==
  ASSUME IInv, Done \/ ClearRing \/ EraseKey \/ ClearFlag
  PROVE  IInv'
<1>0. /\ TypeOK /\ Shaped /\ Numbered
      /\ http \in [pc : {"idle", "json", "csv", "erase", "unflag"}, i : Nat, n : Nat, out : Seq(Entry)]
      /\ UNCHANGED <<pushes, seq, writing, pc, num, tmp, boot>>
  BY DEF IInv, Shaped, Done, ClearRing, EraseKey, ClearFlag, Ring!Clear, memory, persist
<1>1. /\ http' \in [pc : {"idle", "json", "csv", "erase", "unflag"}, i : Nat, n : Nat, out : Seq(Entry)]
      /\ http'.pc \in {"idle", "erase", "unflag"}
      /\ http' = NoExport \/ (http'.i = http.i /\ http'.n = http.n)
  <2>1. /\ NoExport \in [pc : {"idle", "json", "csv", "erase", "unflag"}, i : Nat, n : Nat, out : Seq(Entry)]
        /\ NoExport.pc = "idle"
    BY EmptyIsEven DEF NoExport
  <2>2. \/ http' = NoExport
        \/ http' = [http EXCEPT !.pc = "erase"]
        \/ http' = [http EXCEPT !.pc = "unflag"]
    BY DEF Done, ClearRing, EraseKey, ClearFlag
  <2>. QED BY <1>0, <2>1, <2>2
<1>2. (ring' = ring \/ ring' = <<>>) /\ (stored' = stored \/ stored' = <<>>) /\ dirty' \in BOOLEAN
  BY <1>0 DEF TypeOK, Done, ClearRing, EraseKey, ClearFlag, Ring!Clear, memory
<1>3. atStart' \subseteq Entry /\ dropped' \subseteq Entry
  <2>1. ToSet(ring) \subseteq Entry /\ ToSet(stored) \subseteq Entry
    BY <1>0, ToSetByIndex DEF TypeOK
  <2>2. atStart \subseteq Entry /\ dropped \subseteq Entry
    BY <1>0 DEF TypeOK
  <2>. QED BY <2>1, <2>2 DEF Done, ClearRing, EraseKey, ClearFlag
<1>4. TypeOK'
  <2>1. /\ http'.i \in 0 .. Capacity + 1 /\ http'.n \in 0 .. Capacity /\ http'.out \in Seq(Entry)
        /\ http'.pc \in {"idle", "json", "csv", "erase", "unflag"}
    <3>1. 0 \in 0 .. Capacity + 1 /\ 0 \in 0 .. Capacity /\ NoExport.i = 0 /\ NoExport.n = 0
      BY CapacityAssumption DEF NoExport
    <3>. QED BY <1>0, <1>1, <3>1 DEF TypeOK
  <2>2. /\ ring' \in Seq(Entry) /\ Len(ring') <= Capacity
        /\ stored' \in Seq(Entry) /\ Len(stored') <= Capacity
    <3>1. Len(<<>>) <= Capacity
      BY CapacityAssumption, EmptyIsEven
    <3>. QED BY <1>0, <1>2, <3>1, EmptyIsEven DEF TypeOK
  <2>. QED BY <1>0, <1>2, <1>3, <2>1, <2>2 DEF TypeOK
<1>5. Shaped'
  BY <1>0, <1>1 DEF Shaped
<1>6. Numbered'
  <2>1. \A i \in 1 .. Len(ring') : ring'[i].seq = seq' - Len(ring') + (i - 1)
    <3>1. CASE ring' = ring
      BY <1>0, <3>1 DEF Numbered
    <3>2. CASE ring' = <<>>
      BY <3>2, EmptyIsEven
    <3>. QED BY <1>2, <3>1, <3>2
  <2>2. Even(stored') /\ Below(stored', Top)
    <3>1. Even(stored) /\ Below(stored, Top)
      BY <1>0 DEF Numbered
    <3>. QED BY <1>2, <3>1, EmptyIsEven, Zenon
  <2>. QED BY <1>0, <2>1, <2>2 DEF Numbered, Top
<1>7. OlderFirst' /\ Descends' /\ Ascends'
  BY <1>1, NoWalk
<1>. QED BY <1>4, <1>5, <1>6, <1>7 DEF IInv

-----------------------------------------------------------------------------
(* The theorems. *)

\* Everything starts empty.
LEMMA InitIInv == Init => IInv
<1>. SUFFICES ASSUME Init PROVE IInv
  OBVIOUS
<1>0. /\ 0 \in 0 .. MaxLogs /\ 0 \in 0 .. MaxBoot /\ 0 \in 0 .. Capacity /\ 0 \in 0 .. Capacity + 1
      /\ 0 \in 0 .. MaxSeq /\ 0 <= Capacity /\ MaxLogs \in Nat
  BY CapacityAssumption, BoundAssumption, TopBounded
<1>1. ring = <<>> /\ pushes = 0 /\ http = NoExport /\ seq = 0 /\ stored = <<>> /\ boot = 0
  BY DEF Init, Ring!Init
<1>2. /\ http.pc = "idle" /\ http.i = 0 /\ http.n = 0 /\ http.out = <<>>
      /\ http \in [pc : {"idle", "json", "csv", "erase", "unflag"}, i : Nat, n : Nat, out : Seq(Entry)]
  BY <1>1, EmptyIsEven DEF NoExport
<1>3. TypeOK
  BY <1>0, <1>1, <1>2, EmptyIsEven DEF Init, TypeOK, MaxSeq
<1>4. Shaped
  BY <1>2, EmptyIsEven DEF Init, Shaped
<1>5. Numbered
  <2>1. Top = 0
    BY <1>0, <1>1 DEF Top
  <2>. QED BY <1>1, <2>1, EmptyIsEven DEF Init, Numbered
<1>6. OlderFirst /\ Descends /\ Ascends
  BY <1>2 DEF OlderFirst, Descends, Ascends
<1>. QED BY <1>3, <1>4, <1>5, <1>6 DEF IInv

\* Every step keeps the invariant.
LEMMA StepIInv == IInv /\ [Next]_vars => IInv'
<1>. SUFFICES ASSUME IInv, [Next]_vars PROVE IInv'
  OBVIOUS
<1>1. CASE Log
  BY <1>1, LogStep
<1>2. CASE MarkDirty
  <2>1. UNCHANGED <<ring, pushes, seq, stored, pc, num, tmp, http, atStart, boot, dropped>>
        /\ dirty' = TRUE /\ writing' = FALSE
    BY <1>2 DEF MarkDirty, memory, persist, export
  <2>2. OlderFirst' /\ Descends' /\ Ascends'
    BY <2>1, WalksKept DEF IInv
  <2>3. TypeOK' /\ Shaped' /\ Numbered'
    BY <2>1 DEF IInv, TypeOK, Shaped, Numbered, Top
  <2>. QED BY <2>2, <2>3 DEF IInv
<1>3. ASSUME NEW p \in Persister, Persist(p) PROVE IInv'
  BY <1>3, PersistStep
<1>4. CASE HttpServer
  BY <1>4, StartStep, JsonStepKeeps, CsvStepKeeps, OtherHttpSteps DEF HttpServer
<1>5. CASE Restart
  BY <1>5, RestartStep
<1>6. CASE UNCHANGED vars
  <2>1. UNCHANGED <<ring, pushes, seq, dirty, writing, stored, pc, num, tmp, http, atStart, boot, dropped>>
    BY <1>6 DEF vars, memory, persist, export
  <2>2. OlderFirst' /\ Descends' /\ Ascends'
    BY <2>1, WalksKept DEF IInv
  <2>3. TypeOK' /\ Shaped' /\ Numbered'
    BY <2>1 DEF IInv, TypeOK, Shaped, Numbered, Top
  <2>. QED BY <2>2, <2>3 DEF IInv
<1>. QED BY <1>1, <1>2, <1>3, <1>4, <1>5, <1>6 DEF Next

\* Every behaviour keeps the invariant: what the ring, every copy and flash hold is
\* consecutive, and what a walk has yet to emit lies ahead of it.
THEOREM InductiveInvariant == Spec => []IInv
BY InitIInv, StepIInv, PTL DEF Spec

\* Every variable keeps its type: ring, copies and blob stay within the capacity, and no
\* walk runs more than one place past it.
THEOREM TypeCorrect == Spec => []TypeOK
<1>1. IInv => TypeOK
  BY DEF IInv
<1>. QED BY InductiveInvariant, <1>1, PTL

\* The numbers in the ring and in flash are consecutive and the next one follows the
\* newest, whatever persists were cut short or overlapped, and whatever was restored.
THEOREM AlwaysNumberedWithoutGaps == Spec => []NumberedWithoutGaps
<1>1. IInv => NumberedWithoutGaps
  <2>. SUFFICES ASSUME IInv PROVE NumberedWithoutGaps
    OBVIOUS
  <2>0. /\ ring \in Seq(Entry) /\ Len(ring) \in Nat /\ stored \in Seq(Entry) /\ Len(stored) \in Nat
        /\ Even(ring) /\ Even(stored) /\ seq \in Nat /\ Numbered
    BY RingIsEven DEF IInv, TypeOK, Numbered
  <2>1. ASSUME NEW s \in Seq(Entry), Even(s) PROVE Consecutive(s)
    <3>1. ASSUME NEW i \in 1 .. Len(s) - 1 PROVE s[i + 1].seq = s[i].seq + 1
      <4>1. i \in 1 .. Len(s) /\ i + 1 \in 1 .. Len(s) /\ (i + 1) - i = 1
        OBVIOUS
      <4>2. s[i + 1].seq = s[i].seq + ((i + 1) - i)
        BY <2>1, <4>1 DEF Even
      <4>. QED BY <4>1, <4>2
    <3>. QED BY <3>1 DEF Consecutive
  <2>2. ASSUME ring # <<>> PROVE seq = ring[Len(ring)].seq + 1
    <3>1. Len(ring) \in 1 .. Len(ring)
      BY <2>0, <2>2, EmptySeq
    <3>2. ring[Len(ring)].seq = seq - Len(ring) + (Len(ring) - 1)
      BY <2>0, <3>1 DEF Numbered
    <3>. QED BY <2>0, <3>2
  <2>. QED BY <2>0, <2>1, <2>2 DEF NumberedWithoutGaps
<1>. QED BY InductiveInvariant, <1>1, PTL

\* An export lists each entry at most once and in one order, although entries shift
\* under its walk.
THEOREM ExportAlwaysOrdered == Spec => []ExportOrdered
<1>1. IInv => ExportOrdered
  BY DEF IInv, Descends, Ascends, ExportOrdered
<1>. QED BY InductiveInvariant, <1>1, PTL

\* A finished JSON export has every entry that was there all the time, and a CSV export
\* lacks no more of them than there are entries that arrived since it began.
THEOREM ExportsAlwaysComplete == Spec => []ExportsComplete
<1>1. IInv => ExportsComplete
  <2>. SUFFICES ASSUME IInv PROVE ExportsComplete
    OBVIOUS
  <2>0. /\ Descends /\ Ascends /\ Shaped /\ ring \in Seq(Entry) /\ http.i \in Nat /\ http.n \in Nat
    BY DEF IInv, TypeOK, Shaped
  <2>1. ToSet(ring) = {ring[j] : j \in 1 .. Len(ring)} /\ IsFiniteSet(ToSet(ring))
    BY <2>0, ToSetByIndex
  <2>2. ASSUME JsonDone PROVE LeftOut = {}
    <3>1. \A j \in 1 .. Len(ring) : ring[j] \in atStart => ring[j] \in ToSet(http.out)
      BY <2>0, <2>2 DEF JsonDone, Descends
    <3>. QED BY <2>1, <3>1 DEF LeftOut
  <2>3. ASSUME CsvDone PROVE Cardinality(LeftOut) <= Cardinality(ToSet(ring) \ atStart)
    <3>1. \A j \in 1 .. Len(ring) : ring[j] \in atStart => j < http.i
      BY <2>0, <2>3 DEF CsvDone, CsvRows, Ascends
    <3>2. LeftOut \in SUBSET Missed /\ Missed \in SUBSET ToSet(ring)
          /\ ToSet(ring) \ atStart \in SUBSET ToSet(ring)
      BY <2>1, <3>1 DEF LeftOut, Missed
    <3>3. IsFiniteSet(Missed) /\ IsFiniteSet(ToSet(ring) \ atStart)
      BY <2>1, <3>2, FS_Subset
    <3>4. IsFiniteSet(LeftOut) /\ Cardinality(LeftOut) <= Cardinality(Missed)
      BY <3>2, <3>3, FS_Subset
    <3>5. /\ Cardinality(LeftOut) \in Nat /\ Cardinality(Missed) \in Nat
          /\ Cardinality(ToSet(ring) \ atStart) \in Nat
      BY <3>3, <3>4, FS_CardinalityType
    <3>6. Cardinality(Missed) <= Cardinality(ToSet(ring) \ atStart)
      BY <2>0, <2>3 DEF CsvDone, Ascends
    <3>. QED BY <3>4, <3>5, <3>6
  <2>. QED BY <2>2, <2>3 DEF ExportsComplete
<1>. QED BY InductiveInvariant, <1>1, PTL

-----------------------------------------------------------------------------
(* What the overlaps cost.  Logging, persisting and clearing each take several *)
(* steps, and no lock keeps them apart.  In behaviours where they happen not   *)
(* to overlap, what LoggerDeviations.cfg finds violated holds.                 *)

Clearing == http.pc \in {"erase", "unflag"}
Persisting(p) == pc[p] \in {"copy", "write", "clean"}

\* No two of these are under way at once.
Serialised ==
  /\ \A p, q \in Persister : Persisting(p) /\ Persisting(q) => p = q
  /\ Clearing \/ writing => \A p \in Persister : ~Persisting(p)
  /\ ~(Clearing /\ writing)

\* An entry of this boot bears a number given before.
Past(e) == e.boot <= boot /\ (e.boot = boot => e.seq < seq)

\* What is held is in flash unless the flag is up or about to be.
Flagged == ~dirty /\ ~writing => ToSet(ring) \subseteq ToSet(stored)

\* A persister writes the whole ring, which stays as it was meanwhile.
CopyCurrent ==
  \A p \in Persister :
    /\ pc[p] = "copy" => ring # <<>> /\ num[p] = Len(ring)
    /\ pc[p] = "write" => ring # <<>> /\ tmp[p] = ring
    /\ pc[p] = "clean" => ToSet(ring) \subseteq ToSet(stored)

\* What a clear dropped is nowhere, and no entry yet to come will equal it.
Gone ==
  /\ (ToSet(ring) \cup ToSet(stored)) \cap dropped = {}
  /\ \A e \in ToSet(ring) \cup ToSet(stored) \cup dropped : Past(e)
  /\ http.pc = "erase" => \A e \in atStart : Past(e)

SerialInv == Flagged /\ CopyCurrent /\ Gone /\ (Clearing => ring = <<>>)

\* What the steps below need of the types.
LEMMA SerialTypes ==
  ASSUME IInv
  PROVE  /\ ring \in Seq(Entry) /\ stored \in Seq(Entry) /\ seq \in Nat /\ boot \in Nat
         /\ Len(ring) \in Nat /\ Len(ring) <= Capacity
         /\ \A e \in ToSet(ring) \cup ToSet(stored) \cup dropped \cup atStart : e.seq \in Nat /\ e.boot \in Nat
<1>1. \A e \in Entry : e.seq \in Nat /\ e.boot \in Nat
  BY BoundAssumption DEF Entry
<1>2. ring \in Seq(Entry) /\ stored \in Seq(Entry) /\ dropped \subseteq Entry /\ atStart \subseteq Entry
  BY DEF IInv, TypeOK
<1>3. ToSet(ring) \subseteq Entry /\ ToSet(stored) \subseteq Entry
  BY <1>2, ToSetByIndex
<1>4. seq \in Nat /\ boot \in Nat /\ Len(ring) \in Nat /\ Len(ring) <= Capacity
  BY <1>2, BoundAssumption DEF IInv, TypeOK
<1>. QED BY <1>1, <1>2, <1>3, <1>4

LEMMA NothingInEmpty == ToSet(<<>>) = {}
<1>1. DOMAIN <<>> = {}
  OBVIOUS
<1>. QED BY <1>1 DEF ToSet

LEMMA InitSerial == Init => SerialInv
<1>. SUFFICES ASSUME Init PROVE SerialInv
  OBVIOUS
<1>1. ring = <<>> /\ stored = <<>> /\ dropped = {} /\ http.pc = "idle"
      /\ \A p \in Persister : pc[p] = "idle"
  BY DEF Init, Ring!Init, NoExport
<1>. QED BY <1>1, NothingInEmpty DEF SerialInv, Flagged, CopyCurrent, Gone, Clearing

\* A new entry is unlike any before it.
LEMMA LogSerial ==
  ASSUME IInv, SerialInv, Serialised', Log
  PROVE  SerialInv'
<1>. DEFINE e == [seq |-> seq, boot |-> boot]
<1>0. /\ UNCHANGED <<dirty, stored, pc, num, tmp, http, atStart, boot, dropped>>
      /\ seq' = seq + 1 /\ writing' = TRUE /\ seq \in Nat /\ boot \in Nat
      /\ \A x \in ToSet(ring) \cup ToSet(stored) \cup dropped \cup atStart : x.seq \in Nat /\ x.boot \in Nat
  BY SerialTypes DEF Log, persist, export
<1>1. e \in Entry /\ e.seq = seq /\ e.boot = boot
  BY DEF IInv, TypeOK, Entry
<1>. HIDE DEF e
<1>2. ToSet(ring') \subseteq ToSet(ring) \cup {e}
  <2>1. /\ ring' \in Seq(Entry) /\ ring \in Seq(Entry) /\ Len(ring) \in Nat
        /\ \E d \in {0, 1} :
             /\ d <= Len(ring) /\ Len(ring') = Len(ring) + 1 - d /\ ring'[Len(ring')] = e
             /\ \A i \in 1 .. Len(ring) - d : ring'[i] = ring[i + d]
    BY <1>1, SerialTypes, Pushed DEF Log, e
  <2>2. \A i \in 1 .. Len(ring') : ring'[i] = e \/ \E j \in 1 .. Len(ring) : ring'[i] = ring[j]
    <3>1. PICK d \in {0, 1} : /\ d <= Len(ring) /\ Len(ring') = Len(ring) + 1 - d
                              /\ ring'[Len(ring')] = e
                              /\ \A i \in 1 .. Len(ring) - d : ring'[i] = ring[i + d]
      BY <2>1
    <3>2. ASSUME NEW i \in 1 .. Len(ring'), i # Len(ring')
          PROVE  \E j \in 1 .. Len(ring) : ring'[i] = ring[j]
      <4>1. i \in 1 .. Len(ring) - d /\ i + d \in 1 .. Len(ring)
        BY <2>1, <3>1, <3>2
      <4>. QED BY <3>1, <4>1
    <3>. QED BY <3>1, <3>2
  <2>3. ToSet(ring') = {ring'[i] : i \in 1 .. Len(ring')} /\ ToSet(ring) = {ring[i] : i \in 1 .. Len(ring)}
    BY <2>1, ToSetByIndex
  <2>. QED BY <2>2, <2>3
<1>3. \A p \in Persister : pc'[p] \notin {"copy", "write", "clean"}
  BY <1>0 DEF Serialised, Persisting
<1>4. ~Clearing'
  BY <1>0 DEF Serialised
<1>5. e \notin dropped
  BY <1>0, <1>1 DEF SerialInv, Gone, Past
<1>6. \A x \in ToSet(ring) \cup ToSet(stored) \cup dropped \cup {e} : Past(x)'
  BY <1>0, <1>1 DEF SerialInv, Gone, Past
<1>7. Gone'
  <2>1. (ToSet(ring') \cup ToSet(stored')) \cap dropped' = {}
    BY <1>0, <1>2, <1>5 DEF SerialInv, Gone
  <2>2. http'.pc # "erase"
    BY <1>4 DEF Clearing
  <2>. QED BY <1>0, <1>2, <1>6, <2>1, <2>2 DEF Gone
<1>. QED BY <1>0, <1>3, <1>4, <1>7 DEF SerialInv, Flagged, CopyCurrent

\* Alone, a persister copies all that is held and writes what it copied.
LEMMA PersistSerial ==
  ASSUME IInv, SerialInv, Serialised, NEW p \in Persister, Persist(p)
  PROVE  SerialInv'
<1>0. /\ UNCHANGED <<ring, seq, writing, http, atStart, boot, dropped>>
      /\ pc \in [Persister -> {"idle", "copy", "write", "clean", "restart"}]
      /\ num \in [Persister -> 0 .. Capacity] /\ tmp \in [Persister -> Seq(Entry)]
      /\ ring \in Seq(Entry) /\ Len(ring) \in Nat /\ Len(ring) <= Capacity
  BY SerialTypes DEF Persist, Count, Copy, Write, Clean, Fail, Return, memory, export, persist,
     IInv, TypeOK, Shaped
<1>1. ASSUME CopyCurrent', Flagged', stored' = stored \/ stored' = ring PROVE SerialInv'
  BY <1>0, <1>1 DEF SerialInv, Gone, Past, Clearing
<1>2. CASE Count(p)
  <2>1. /\ UNCHANGED <<dirty, stored, tmp>> /\ num' = [num EXCEPT ![p] = Len(ring)]
        /\ pc' = [pc EXCEPT ![p] = IF ring = <<>> THEN "clean" ELSE "copy"]
    BY <1>2 DEF Count
  <2>2. CopyCurrent'
    BY <1>0, <2>1, NothingInEmpty DEF SerialInv, CopyCurrent
  <2>. QED BY <1>0, <1>1, <2>1, <2>2 DEF SerialInv, Flagged
<1>3. CASE Copy(p)
  <2>1. /\ pc[p] = "copy" /\ UNCHANGED <<dirty, stored, num>>
        /\ tmp' = [tmp EXCEPT ![p] = Copied(p)]
        /\ pc' = [pc EXCEPT ![p] = IF ring = <<>> THEN "clean" ELSE "write"]
    BY <1>3 DEF Copy
  <2>2. ring # <<>> /\ num[p] = Len(ring)
    BY <2>1 DEF SerialInv, CopyCurrent
  <2>3. Copied(p) = ring
    <3>1. Copied(p) = Ring!LastOf(ring, Len(ring))
      BY <1>0, <2>2 DEF Copied
    <3>2. /\ Ring!LastOf(ring, Len(ring)) \in Seq(Entry) /\ Len(Ring!LastOf(ring, Len(ring))) = Len(ring)
          /\ \A i \in 1 .. Len(ring) : Ring!LastOf(ring, Len(ring))[i] = ring[Len(ring) - Len(ring) + i]
      BY <1>0, LastOfProperties
    <3>3. \A i \in 1 .. Len(ring) : Len(ring) - Len(ring) + i = i
      BY <1>0
    <3>. HIDE DEF Ring!LastOf
    <3>4. Ring!LastOf(ring, Len(ring)) = ring
      BY <1>0, <3>2, <3>3, SeqEqual
    <3>. QED BY <3>1, <3>4
  <2>4. CopyCurrent'
    BY <1>0, <2>1, <2>2, <2>3 DEF SerialInv, CopyCurrent
  <2>. QED BY <1>0, <1>1, <2>1, <2>4 DEF SerialInv, Flagged
<1>4. CASE Write(p)
  <2>1. /\ pc[p] = "write" /\ UNCHANGED <<dirty, num, tmp>> /\ stored' = tmp[p]
        /\ pc' = [pc EXCEPT ![p] = "clean"]
    BY <1>4 DEF Write
  <2>2. stored' = ring
    BY <2>1 DEF SerialInv, CopyCurrent
  <2>3. CopyCurrent'
    BY <1>0, <2>1, <2>2 DEF SerialInv, CopyCurrent
  <2>. QED BY <1>0, <1>1, <2>2, <2>3 DEF Flagged
<1>5. CASE Clean(p) \/ Fail(p)
  <2>1. /\ stored' = stored /\ (dirty' = dirty \/ ToSet(ring) \subseteq ToSet(stored))
        /\ \E s \in {"restart", "idle"} : pc' = [pc EXCEPT ![p] = s]
        /\ num' = [num EXCEPT ![p] = 0] /\ tmp' = [tmp EXCEPT ![p] = <<>>]
    BY <1>5 DEF Clean, Fail, Return, SerialInv, CopyCurrent
  <2>2. CopyCurrent'
    BY <1>0, <2>1 DEF SerialInv, CopyCurrent
  <2>. QED BY <1>0, <1>1, <2>1, <2>2 DEF SerialInv, Flagged
<1>. QED BY <1>2, <1>3, <1>4, <1>5 DEF Persist

\* A clear finds no persister to write back what it drops.
LEMMA HttpSerial ==
  ASSUME IInv, SerialInv, Serialised, Serialised', HttpServer
  PROVE  SerialInv'
<1>0. /\ UNCHANGED <<seq, writing, pc, num, tmp, boot>>
      /\ pc \in [Persister -> {"idle", "copy", "write", "clean", "restart"}]
      /\ http \in [pc : {"idle", "json", "csv", "erase", "unflag"}, i : Nat, n : Nat, out : Seq(Entry)]
  BY DEF HttpServer, Start, JsonStep, CsvStep, Done, ClearRing, EraseKey, ClearFlag, Ring!Clear,
     memory, persist, IInv, TypeOK, Shaped
<1>1. CASE ClearRing
  <2>1. /\ ring' = <<>> /\ UNCHANGED <<dirty, stored, dropped>>
        /\ atStart' = ToSet(ring) \cup ToSet(stored) /\ http' = [http EXCEPT !.pc = "erase"]
    BY <1>1 DEF ClearRing, Ring!Clear
  <2>2. \A p \in Persister : pc'[p] \notin {"copy", "write", "clean"}
    BY <1>0, <2>1 DEF Serialised, Persisting, Clearing
  <2>. QED BY <1>0, <2>1, <2>2, NothingInEmpty
       DEF SerialInv, Flagged, CopyCurrent, Gone, Past, Clearing
<1>2. CASE EraseKey
  <2>1. /\ http.pc = "erase" /\ UNCHANGED <<ring, dirty>> /\ http' = [http EXCEPT !.pc = "unflag"]
        /\ \/ stored' = <<>> /\ dropped' = dropped \cup atStart
           \/ UNCHANGED <<stored, dropped>>
    BY <1>2 DEF EraseKey, memory
  <2>2. /\ ring = <<>> /\ http'.pc = "unflag"
        /\ \A p \in Persister : pc'[p] \notin {"copy", "write", "clean"}
    BY <1>0, <2>1 DEF Serialised, Persisting, Clearing, SerialInv
  <2>. QED BY <1>0, <2>1, <2>2, NothingInEmpty
       DEF SerialInv, Flagged, CopyCurrent, Gone, Past, Clearing
<1>3. CASE ClearFlag
  <2>1. http.pc = "unflag" /\ UNCHANGED <<ring, stored, dropped>> /\ http' = NoExport
    BY <1>3 DEF ClearFlag, memory
  <2>2. ring = <<>> /\ http'.pc = "idle"
    BY <2>1 DEF Clearing, SerialInv, NoExport
  <2>. QED BY <1>0, <2>1, <2>2, NothingInEmpty
       DEF SerialInv, Flagged, CopyCurrent, Gone, Past, Clearing
<1>4. CASE Start \/ JsonStep \/ CsvStep \/ Done
  <2>1. UNCHANGED <<ring, dirty, stored, dropped>>
    BY <1>4 DEF Start, JsonStep, CsvStep, Done, memory
  <2>2. http'.pc \notin {"erase", "unflag"}
    <3>1. CASE Start
      <4>1. PICK r \in Request \ {"clear"} : http'.pc = r
        BY <3>1 DEF Start
      <4>. QED BY <4>1, RequestAssumption
    <3>2. CASE JsonStep \/ CsvStep
      <4>1. http.pc \in {"json", "csv"} /\ http'.pc = http.pc
        BY <1>0, <3>2 DEF JsonStep, CsvStep
      <4>. QED BY <4>1
    <3>3. CASE Done
      BY <3>3 DEF Done, NoExport
    <3>. QED BY <1>4, <3>1, <3>2, <3>3
  <2>. QED BY <1>0, <2>1, <2>2 DEF SerialInv, Flagged, CopyCurrent, Gone, Past, Clearing
<1>. QED BY <1>1, <1>2, <1>3, <1>4 DEF HttpServer

\* A boot restores what is in flash, or nothing.
LEMMA RestartSerial ==
  ASSUME IInv, SerialInv, Restart
  PROVE  SerialInv'
<1>0. /\ boot \in Nat /\ boot' = boot + 1 /\ ring' \in {stored, <<>>} /\ UNCHANGED <<stored, dropped>>
      /\ dirty' = FALSE /\ pc' = [p \in Persister |-> "idle"] /\ http' = NoExport
      /\ \A e \in ToSet(stored) \cup dropped : e.boot \in Nat
  BY SerialTypes DEF Restart
<1>1. \A e \in ToSet(stored) \cup dropped : Past(e)'
  BY <1>0 DEF SerialInv, Gone, Past
<1>2. ToSet(ring') \subseteq ToSet(stored)
  BY <1>0, NothingInEmpty
<1>3. http'.pc = "idle" /\ \A p \in Persister : pc'[p] = "idle"
  BY <1>0 DEF NoExport
<1>. QED BY <1>0, <1>1, <1>2, <1>3 DEF SerialInv, Flagged, CopyCurrent, Gone, Clearing

LEMMA StepSerial == IInv /\ SerialInv /\ Serialised /\ Serialised' /\ [Next]_vars => SerialInv'
<1>. SUFFICES ASSUME IInv, SerialInv, Serialised, Serialised', [Next]_vars PROVE SerialInv'
  OBVIOUS
<1>1. CASE MarkDirty
  <2>1. UNCHANGED <<ring, seq, stored, pc, num, tmp, http, atStart, boot, dropped>> /\ dirty' = TRUE
    BY <1>1 DEF MarkDirty, memory, persist, export
  <2>. QED BY <2>1 DEF SerialInv, Flagged, CopyCurrent, Gone, Past, Clearing
<1>2. CASE UNCHANGED vars
  BY <1>2 DEF vars, memory, persist, export, SerialInv, Flagged, CopyCurrent, Gone, Past, Clearing
<1>. QED BY <1>1, <1>2, LogSerial, PersistSerial, HttpSerial, RestartSerial DEF Next

\* Kept apart, the three operations keep ring, copies, flash and flag in step.
THEOREM SerialInvariant == Spec /\ []Serialised => []SerialInv
BY InitSerial, StepSerial, InductiveInvariant, PTL DEF Spec

\* Then what logger.c says of an entry logged meanwhile is true: with the flag down and
\* nothing under way every entry held is in flash.
THEOREM SerialisedCleanIsStored == Spec /\ []Serialised => []CleanMeansStored
<1>1. SerialInv => CleanMeansStored
  BY DEF SerialInv, Flagged, CleanMeansStored
<1>. QED BY SerialInvariant, <1>1, PTL

\* And no entry that a clear dropped from memory and flash comes back.
THEOREM SerialisedClearedStayGone == Spec /\ []Serialised => []ClearedStayGone
<1>1. SerialInv => ClearedStayGone
  BY DEF SerialInv, Gone, ClearedStayGone
<1>. QED BY SerialInvariant, <1>1, PTL

\* The numbering goes on from what is in flash: no restart failed to read it and
\* began again from 0.
Resumed == Newest(stored) < seq

\* And within a boot the copy in flash is never replaced by an older one.
THEOREM SerialisedStoredNeverOlder == Spec /\ []Serialised /\ []Resumed => StoredNeverOlder
<1>1. IInv /\ SerialInv /\ Resumed /\ [Next]_vars =>
        [boot' = boot => Newest(stored') >= Newest(stored) \/ stored' = <<>>]_vars
  <2>. SUFFICES ASSUME IInv, SerialInv, Resumed, Next, boot' = boot
               PROVE  Newest(stored') >= Newest(stored) \/ stored' = <<>>
    OBVIOUS
  <2>0. /\ stored \in Seq(Entry) /\ Len(stored) \in Nat /\ Newest(stored) \in Int
        /\ ring \in Seq(Entry) /\ seq \in Nat /\ boot \in Nat
    <3>1. stored \in Seq(Entry) /\ Len(stored) \in Nat
      BY SerialTypes
    <3>2. stored # <<>> => Len(stored) \in 1 .. Len(stored)
      BY <3>1, EmptySeq
    <3>3. stored # <<>> => stored[Len(stored)] \in Entry
      BY <3>1, <3>2, ElementOfSeq
    <3>. QED BY <3>1, <3>3, SerialTypes, BoundAssumption DEF Newest, Entry
  <2>1. ASSUME NEW p \in Persister, Write(p) PROVE Newest(stored') >= Newest(stored)
    <3>1. stored' = ring /\ ring # <<>>
      BY <2>1 DEF Write, SerialInv, CopyCurrent
    <3>2. Len(ring) \in 1 .. Len(ring) /\ Len(ring) \in Nat
      BY <2>0, <3>1, EmptySeq
    <3>3. ring[Len(ring)].seq = seq - Len(ring) + (Len(ring) - 1)
      BY <3>2 DEF IInv, Numbered
    <3>4. Newest(stored') = seq - 1
      BY <2>0, <3>1, <3>2, <3>3 DEF Newest
    <3>. QED BY <2>0, <3>4 DEF Resumed
  <2>2. ASSUME stored' = stored PROVE Newest(stored') >= Newest(stored)
    BY <2>0, <2>2
  <2>3. \/ stored' = stored \/ stored' = <<>>
        \/ \E p \in Persister : Write(p)
        \/ Restart
    BY DEF Next, Log, MarkDirty, Persist, Count, Copy, Clean, Fail, HttpServer, Start, JsonStep,
       CsvStep, Done, ClearRing, EraseKey, ClearFlag
  <2>4. ~Restart
    BY <2>0 DEF Restart
  <2>. QED BY <2>1, <2>2, <2>3, <2>4
<1>. QED BY InductiveInvariant, SerialInvariant, <1>1, PTL DEF Spec, StoredNeverOlder
=============================================================================
