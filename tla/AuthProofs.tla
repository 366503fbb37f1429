----------------------------- MODULE AuthProofs -----------------------------
(***************************************************************************)
(* Theorems about Auth, for every table size, time to live, window,        *)
(* lockout and set of clients.                                             *)
(*                                                                         *)
(* The sessions keep their invariant for ever, across every wrap of the    *)
(* millisecond counter (49.7 days).  While no slot goes unused for a whole *)
(* turn of it, a session is accepted only while it is fresh and is never   *)
(* revived.  In behaviours that end before a lockout reaches past the      *)
(* first wrap, a session ends for a stated reason, and a lockout is earned *)
(* by failures inside one window and lasts its term exactly.  With as many *)
(* slots as keys every outcome of a login is recorded, again for ever.     *)
(***************************************************************************)
EXTENDS Auth, SequenceTheorems, FiniteSetTheorems, WellFoundedInduction, TLAPS

\* The counter has not wrapped, nor will it before a lockout begun now is over.
\* Run MCAuthWrap shows what happens beyond.
NoWrap == uptime + Lockout < ClockMod

\* Every slot in use was used within one turn of the counter.  Run MCAuthRevived
\* shows what happens otherwise.
SlotsRecent ==
  \A i \in Session : sessions[i].used => uptime - seen[sessions[i].token] < ClockMod

Sessions == [Session -> [used : BOOLEAN, token : Token \cup {NoToken}, last : Clock]]

SessionsTyped ==
  /\ uptime \in 0 .. MaxUptime
  /\ sessions \in Sessions
  /\ issued \subseteq Token
  /\ seen \in [Token -> 0 .. MaxUptime]

\* A used slot holds a token that was issued, in no other slot, and what the counter
\* showed at its last request.
SessionsKnown ==
  /\ \A t \in Token : seen[t] <= uptime
  /\ \A i \in Session : sessions[i].used =>
       sessions[i].token \in issued /\ sessions[i].last = seen[sessions[i].token] % ClockMod
  /\ \A i, j \in Session :
       sessions[i].used /\ sessions[j].used /\ sessions[i].token = sessions[j].token => i = j

\* The inductive invariant of the sessions.
SessionInv == SessionsTyped /\ SessionsKnown


\* The last n elements of f are all at least t.
LastSince(f, n, t) == n <= Len(f) /\ \A j \in Len(f) - n + 1 .. Len(f) : f[j] >= t

\* At time t a limiter slot tells the truth about its key, whose failures are f and
\* whose lockout ends at e: it ends when the slot says or is over, the attempts it counts
\* were made since its window began, and one that has counted the limit serves a
\* lockout longer than what is left of the window.
SlotKnown(rl, f, e, t) ==
  /\ rl.until = e \/ (rl.until = 0 /\ e <= t)
  /\ rl.start <= t
  /\ rl.attempts = MaxAttempts => rl.until >= rl.start + Lockout
  /\ LastSince(f, rl.attempts, rl.start)

OneSlotPerKey ==
  \A i, j \in Limit :
    limits[i].used /\ limits[j].used /\ limits[i].ip = limits[j].ip => i = j

LimitsKnown ==
  /\ OneSlotPerKey
  /\ \A i \in Limit :
       limits[i].used => SlotKnown(limits[i], failures[limits[i].ip], lockedOut[limits[i].ip], uptime)
  /\ \A k \in Key : SlotsOfKey(k) = {} => lockedOut[k] <= uptime
  /\ \A k \in Key : Len(failures[k]) <= MaxAttempts

\* Whoever is being hashed for is not locked out.
LoginAllowed == login # Idle => lockedOut[limit_key(login.client)] <= uptime

\* The invariant of the limiter.
LimitInv == TypeOK /\ LimitsKnown /\ LoginAllowed

-----------------------------------------------------------------------------
(* Least and greatest slots, and the clock. *)

\* A set of naturals with a member has a least one.
LEMMA LeastNatural ==
  ASSUME NEW S \in SUBSET Nat, S # {}
  PROVE  \E m \in S : \A k \in S : m <= k
<1>1. PICK m \in S : \A k \in S : ~(<<k, m>> \in OpToRel(<, Nat))
  BY NatLessThanWellFounded, WFMin, Zenon
<1>2. \A k \in S : ~(k < m)
  BY <1>1 DEF OpToRel
<1>. QED BY <1>2

\* The least of a set of slots is one of them.
LEMMA MinIsMember ==
  ASSUME NEW n \in Nat, NEW S \in SUBSET (1 .. n), S # {}
  PROVE  Min(S) \in S
<1>1. S \in SUBSET Nat
  OBVIOUS
<1>2. \E m \in S : \A k \in S : m <= k
  BY <1>1, LeastNatural
<1>. QED BY <1>2, Zenon DEF Min

\* So is the greatest.
LEMMA MaxIsMember ==
  ASSUME NEW n \in Nat, NEW S \in SUBSET (1 .. n), S # {}
  PROVE  Max(S) \in S
<1>. DEFINE D == {n - k : k \in S}
<1>1. \A k \in S : k \in 1 .. n /\ n - k \in Nat
  OBVIOUS
<1>2. D \in SUBSET Nat /\ D # {}
  BY <1>1
<1>3. PICK m \in D : \A d \in D : m <= d
  <2>. HIDE DEF D
  <2>. QED BY <1>2, LeastNatural
<1>4. PICK x \in S : m = n - x
  BY <1>3
<1>5. \E y \in S : \A k \in S : y >= k
  <2>1. \A k \in S : m <= n - k
    BY <1>3
  <2>2. \A k \in S : x >= k
    BY <1>1, <1>4, <2>1
  <2>. QED BY <2>2
<1>. QED BY <1>5, Zenon DEF Max

\* A natural number divided by the modulus.
LEMMA DivisionParts ==
  ASSUME NEW M \in Nat \ {0}, NEW u \in Nat
  PROVE  u % M \in 0 .. M - 1 /\ u \div M \in Nat /\ u = (M * (u \div M)) + (u % M)
OBVIOUS

\* Multiples of a sum.
LEMMA TimesSum ==
  ASSUME NEW M \in Nat, NEW x \in Nat, NEW y \in Nat, NEW z \in Nat
  PROVE  M * (x + (y + z)) >= (M * x) + (M * y)
<1>1. M * (x + (y + z)) = (M * x) + (M * (y + z))
  OBVIOUS
<1>2. M * (y + z) = (M * y) + (M * z)
  OBVIOUS
<1>3. M * x \in Nat /\ M * y \in Nat /\ M * z \in Nat
  OBVIOUS
<1>. QED BY <1>1, <1>2, <1>3

\* The time passed between two readings of a wrapping counter is their difference,
\* as long as it is less than a turn.
LEMMA WrappedDistance ==
  ASSUME NEW M \in Nat \ {0}, NEW u \in Nat, NEW s \in Nat, s <= u, u - s < M
  PROVE  ((u % M) - (s % M)) % M = u - s
<1>. DEFINE a == u % M
            b == s % M
            q == u \div M
            r == s \div M
<1>1. /\ a \in 0 .. M - 1 /\ b \in 0 .. M - 1 /\ q \in Nat /\ r \in Nat
      /\ u = (M * q) + a /\ s = (M * r) + b
  BY DivisionParts
<1>. HIDE DEF a, b, q, r
<1>2. q = r \/ q = r + 1
  <2>1. ASSUME q >= r + 2 PROVE FALSE
    <3>1. q - r - 2 \in Nat /\ q = r + (2 + (q - r - 2))
      BY <1>1, <2>1
    <3>2. M * q >= (M * r) + (M * 2)
      BY <1>1, <3>1, TimesSum
    <3>. QED BY <1>1, <3>2
  <2>2. ASSUME r >= q + 1 PROVE FALSE
    <3>1. r - q - 1 \in Nat /\ r = q + (1 + (r - q - 1))
      BY <1>1, <2>2
    <3>2. M * r >= (M * q) + (M * 1)
      BY <1>1, <3>1, TimesSum
    <3>. QED BY <1>1, <3>2
  <2>. QED BY <1>1, <2>1, <2>2
<1>3. CASE q = r
  <2>1. a - b = u - s /\ u - s \in 0 .. M - 1
    BY <1>1, <1>3
  <2>. QED BY <2>1 DEF a, b
<1>4. CASE q = r + 1
  <2>1. a - b = u - s - M /\ u - s \in 0 .. M - 1
    BY <1>1, <1>4
  <2>2. (u - s - M) % M = u - s
    BY <2>1
  <2>. QED BY <2>1, <2>2 DEF a, b
<1>. QED BY <1>2, <1>3, <1>4

\* The counter shows a reading.
LEMMA NowInClock ==
  ASSUME uptime \in 0 .. MaxUptime
  PROVE  now \in Clock /\ uptime \in Nat /\ ClockMod \in Nat \ {0}
<1>1. ClockMod \in Nat \ {0} /\ uptime \in Nat
  BY TimeAssumption
<1>. QED BY <1>1, DivisionParts DEF now, Clock

\* Before the wrap the counter shows the uptime.
LEMMA ClockIsUptime ==
  ASSUME TypeOK, NoWrap
  PROVE  /\ now = uptime /\ now \in Clock /\ now < ClockMod - 1
         /\ \A t \in Clock : t <= uptime => Since(t) = uptime - t
         /\ (now + Lockout) % ClockMod = uptime + Lockout /\ uptime + Lockout \in Clock
<1>0. uptime \in Nat /\ Lockout \in Nat \ {0} /\ ClockMod \in Nat /\ uptime + Lockout < ClockMod
  BY TimeAssumption DEF TypeOK, NoWrap
<1>1. \A x \in 0 .. ClockMod - 1 : x % ClockMod = x
  BY <1>0
<1>2. now = uptime
  BY <1>0, <1>1 DEF now
<1>3. uptime + Lockout \in 0 .. ClockMod - 1 /\ uptime \in 0 .. ClockMod - 1
      /\ uptime < ClockMod - 1
  BY <1>0
<1>4. \A t \in Clock : t <= uptime => Since(t) = uptime - t
  <2>. TAKE t \in Clock
  <2>1. t <= uptime => uptime - t \in 0 .. ClockMod - 1
    BY <1>0 DEF Clock
  <2>. QED BY <1>1, <1>2, <2>1 DEF Since
<1>. QED BY <1>1, <1>2, <1>3, <1>4 DEF Clock

-----------------------------------------------------------------------------
(* Sessions. *)

\* The live slots of a token are its one slot, while the token is fresh.
LEMMA LiveIsFresh ==
  ASSUME SessionInv, SlotsRecent, NEW i \in Session
  PROVE  Live(sessions[i]) <=> sessions[i].used /\ uptime - seen[sessions[i].token] <= TTL
<1>1. CASE sessions[i].used
  <2>. DEFINE s == seen[sessions[i].token]
  <2>1. sessions[i].token \in Token /\ sessions[i].last = s % ClockMod
    BY <1>1 DEF SessionInv, SessionsKnown, SessionsTyped
  <2>2. s \in Nat /\ s <= uptime /\ uptime - s < ClockMod /\ uptime \in Nat
    BY <1>1, <2>1, TimeAssumption DEF SessionInv, SessionsKnown, SessionsTyped, SlotsRecent
  <2>3. ClockMod \in Nat \ {0}
    BY NowInClock DEF SessionInv, SessionsTyped
  <2>4. ((uptime % ClockMod) - (s % ClockMod)) % ClockMod = uptime - s
    <3>. HIDE DEF s
    <3>. QED BY <2>2, <2>3, WrappedDistance
  <2>5. Since(sessions[i].last) = uptime - s
    BY <2>1, <2>4 DEF Since, now
  <2>. QED BY <1>1, <2>2, <2>5, TimeAssumption DEF Live, session_expired
<1>2. CASE ~sessions[i].used
  BY <1>2 DEF Live
<1>. QED BY <1>1, <1>2

\* A token is accepted exactly while it is in a slot and fresh.
ValidKnown ==
  \A t \in Token :
    Valid(t) <=> /\ \E i \in Session : sessions[i].used /\ sessions[i].token = t
                 /\ uptime - seen[t] <= TTL

LEMMA ValidIsFresh == SessionInv /\ SlotsRecent => ValidKnown
BY LiveIsFresh DEF Valid, SlotsOf, ValidKnown

LEMMA ValidIsFreshPrimed == SessionInv' /\ SlotsRecent' => ValidKnown'
BY ValidIsFresh, PTL

\* The slot a validated token is found in is its own.
LEMMA SlotOfValid ==
  ASSUME NEW t \in Token, Valid(t)
  PROVE  LET i == Min(SlotsOf(t)) IN
         i \in Session /\ sessions[i].used /\ sessions[i].token = t
<1>1. SlotsOf(t) \in SUBSET (1 .. MaxSessions) /\ SlotsOf(t) # {} /\ MaxSessions \in Nat
  BY SlotAssumption DEF SlotsOf, Valid, Session
<1>2. Min(SlotsOf(t)) \in SlotsOf(t)
  BY <1>1, MinIsMember
<1>. QED BY <1>2 DEF SlotsOf, Live

\* A new session takes a slot that nobody is accepted by or, when there is none, the
\* one used longest ago.
LEMMA AllocatedSlot ==
  ASSUME NEW i \in Allocated
  PROVE  /\ i \in Session
         /\ \/ ~Live(sessions[i])
            \/ /\ \A j \in Session : Live(sessions[j])
               /\ \A j \in Session :
                    sessions[j].last < ClockMod - 1 => sessions[i].last <= sessions[j].last
<1>0. MaxSessions \in Nat
  BY SlotAssumption
<1>1. CASE Vacant # {}
  <2>1. Vacant \in SUBSET (1 .. MaxSessions)
    BY DEF Vacant, Session
  <2>2. i \in Vacant
    BY <1>0, <1>1, <2>1, MinIsMember DEF Allocated
  <2>. QED BY <2>2 DEF Vacant
<1>2. CASE Vacant = {}
  <2>. DEFINE Candidates == {s \in Session : sessions[s].last < ClockMod - 1}
              Oldest == {s \in Candidates : \A j \in Candidates : UsedBefore(s, j)}
  <2>1. Oldest \in SUBSET (1 .. MaxSessions)
    BY DEF Session
  <2>2. Oldest # {} /\ i = Min(Oldest)
    BY <1>2 DEF Allocated
  <2>3. i \in Oldest
    <3>. HIDE DEF Oldest
    <3>. QED BY <1>0, <2>1, <2>2, MinIsMember
  <2>. QED BY <1>2, <2>3 DEF Vacant, UsedBefore
<1>. QED BY <1>1, <1>2

-----------------------------------------------------------------------------
(* What the actions do to the sessions. *)

Holds(t) == \E i \in Session : sessions[i].used /\ sessions[i].token = t

\* A recorded success puts a fresh token into the slot that was allocated.
LEMMA SessionIssued ==
  ASSUME SessionInv, NEW k, PassLogin(k), uptime' = uptime
  PROVE  SessionInv'
<1>0. /\ sessions \in Sessions /\ issued \subseteq Token /\ seen \in [Token -> 0 .. MaxUptime]
      /\ uptime \in 0 .. MaxUptime
  BY DEF SessionInv, SessionsTyped
<1>1. CASE UNCHANGED <<sessions, issued, seen>>
  BY <1>1 DEF SessionInv, SessionsTyped, SessionsKnown
<1>2. ASSUME NEW i \in Allocated, NEW t \in Token \ issued,
             sessions' = [sessions EXCEPT ![i] = [used |-> TRUE, token |-> t, last |-> now]],
             issued' = issued \cup {t}, seen' = [seen EXCEPT ![t] = uptime]
      PROVE  SessionInv'
  <2>1. i \in Session /\ now = uptime % ClockMod /\ now \in Clock
    BY <1>0, AllocatedSlot, NowInClock DEF now
  <2>2. sessions' \in Sessions /\ issued' \subseteq Token /\ seen' \in [Token -> 0 .. MaxUptime]
    BY <1>0, <1>2, <2>1 DEF Sessions
  <2>3. \A j \in Session : sessions'[j] = IF j = i THEN [used |-> TRUE, token |-> t, last |-> now]
                                          ELSE sessions[j]
    BY <1>0, <1>2, <2>1 DEF Sessions
  <2>4. \A u \in Token : seen'[u] = IF u = t THEN uptime ELSE seen[u]
    BY <1>0, <1>2
  <2>5. \A j \in Session : sessions[j].used =>
          sessions[j].token \in issued /\ sessions[j].token \in Token /\ sessions[j].token # t
          /\ sessions[j].last = seen[sessions[j].token] % ClockMod
    BY <1>0 DEF SessionInv, SessionsKnown
  <2>6. \A u \in Token : seen'[u] <= uptime'
    BY <1>0, <2>4 DEF SessionInv, SessionsKnown
  <2>7. \A j \in Session : sessions'[j].used =>
          sessions'[j].token \in issued' /\ sessions'[j].last = seen'[sessions'[j].token] % ClockMod
    BY <1>2, <2>1, <2>3, <2>4, <2>5
  <2>8. \A j, l \in Session :
          sessions'[j].used /\ sessions'[l].used /\ sessions'[j].token = sessions'[l].token => j = l
    BY <2>3, <2>5 DEF SessionInv, SessionsKnown
  <2>. QED BY <1>0, <2>2, <2>6, <2>7, <2>8 DEF SessionInv, SessionsTyped, SessionsKnown
<1>. QED BY <1>1, <1>2 DEF PassLogin

\* A request with a valid token renews it.
\* A request with a valid token renews it.
LEMMA SessionRenewed ==
  ASSUME SessionInv, NEW t \in Token, Validate(t)
  PROVE  SessionInv' /\ \A u \in Token : Holds(u)' <=> Holds(u)
<1>. DEFINE i == Min(SlotsOf(t))
<1>0. /\ sessions \in Sessions /\ seen \in [Token -> 0 .. MaxUptime] /\ uptime \in 0 .. MaxUptime
  BY DEF SessionInv, SessionsTyped
<1>1. i \in Session /\ sessions[i].used /\ sessions[i].token = t
  BY SlotOfValid DEF Validate
<1>2. /\ sessions' = [sessions EXCEPT ![i].last = now]
      /\ seen' = [seen EXCEPT ![t] = uptime] /\ uptime' = uptime /\ issued' = issued
  BY DEF Validate
<1>. HIDE DEF i
<1>3. now = uptime % ClockMod /\ now \in Clock
  BY <1>0, NowInClock DEF now
<1>4. sessions' \in Sessions /\ seen' \in [Token -> 0 .. MaxUptime]
  BY <1>0, <1>1, <1>2, <1>3 DEF Sessions
<1>5. \A j \in Session : /\ sessions'[j].used = sessions[j].used
                         /\ sessions'[j].token = sessions[j].token
                         /\ sessions'[j].last = IF j = i THEN now ELSE sessions[j].last
  BY <1>0, <1>1, <1>2 DEF Sessions
<1>6. \A u \in Token : seen'[u] = IF u = t THEN uptime ELSE seen[u]
  BY <1>0, <1>2
<1>7. \A u \in Token : seen'[u] <= uptime'
  BY <1>0, <1>2, <1>6 DEF SessionInv, SessionsKnown
<1>8. \A j \in Session : sessions'[j].used =>
        sessions'[j].token \in issued' /\ sessions'[j].last = seen'[sessions'[j].token] % ClockMod
  <2>. SUFFICES ASSUME NEW j \in Session, sessions[j].used
                PROVE  sessions[j].token \in issued /\ sessions'[j].last = seen'[sessions[j].token] % ClockMod
    BY <1>2, <1>5
  <2>1. sessions[j].token \in issued /\ sessions[j].last = seen[sessions[j].token] % ClockMod
        /\ sessions[j].token \in Token
    BY DEF SessionInv, SessionsKnown, SessionsTyped
  <2>2. j # i => sessions[j].token # t
    BY <1>1 DEF SessionInv, SessionsKnown
  <2>. QED BY <1>1, <1>3, <1>5, <1>6, <2>1, <2>2
<1>9. \A j, l \in Session :
        sessions'[j].used /\ sessions'[l].used /\ sessions'[j].token = sessions'[l].token => j = l
  BY <1>5 DEF SessionInv, SessionsKnown
<1>10. \A u \in Token : Holds(u)' <=> Holds(u)
  BY <1>5 DEF Holds
<1>. QED BY <1>0, <1>2, <1>4, <1>7, <1>8, <1>9, <1>10 DEF SessionInv, SessionsTyped, SessionsKnown

\* A logout frees the slot of that token only.
\* A logout frees the slot of that token only.
LEMMA SessionFreed ==
  ASSUME SessionInv, NEW t \in Token, Logout(t)
  PROVE  /\ SessionInv'
         /\ \A u \in Token : Holds(u)' => Holds(u)
         /\ \A u \in Token : u # t /\ Holds(u) => Holds(u)'
<1>0. sessions \in Sessions
  BY DEF SessionInv, SessionsTyped
<1>1. PICK i \in Session : /\ sessions[i].used /\ sessions[i].token = t
                           /\ sessions' = [sessions EXCEPT ![i] = FreeSession]
  BY DEF Logout
<1>2. FreeSession \in [used : BOOLEAN, token : Token \cup {NoToken}, last : Clock]
      /\ ~FreeSession.used
  <2>1. 0 \in Clock
    BY TimeAssumption DEF Clock
  <2>. QED BY <2>1 DEF FreeSession
<1>3. sessions' \in Sessions
  BY <1>0, <1>1, <1>2 DEF Sessions
<1>4. \A j \in Session : sessions'[j] = IF j = i THEN FreeSession ELSE sessions[j]
  BY <1>0, <1>1 DEF Sessions
<1>5. SessionInv'
  <2>1. UNCHANGED <<uptime, issued, seen>>
    BY DEF Logout, history
  <2>2. SessionsTyped'
    BY <1>3, <2>1 DEF SessionInv, SessionsTyped
  <2>3. SessionsKnown'
    BY <1>2, <1>4, <2>1 DEF SessionInv, SessionsKnown
  <2>. QED BY <2>2, <2>3 DEF SessionInv
<1>6. \A u \in Token : Holds(u)' => Holds(u)
  BY <1>2, <1>4 DEF Holds
<1>7. \A u \in Token : u # t /\ Holds(u) => Holds(u)'
  BY <1>1, <1>4 DEF Holds
<1>. QED BY <1>5, <1>6, <1>7


\* The table of sessions starts empty.
LEMMA InitSessionInv == Init => SessionInv
<1>. SUFFICES ASSUME Init PROVE SessionInv
  OBVIOUS
<1>1. 0 \in Clock /\ 0 \in 0 .. MaxUptime
  BY TimeAssumption DEF Clock
<1>2. SessionsTyped
  BY <1>1 DEF Init, SessionsTyped, Sessions, FreeSession
<1>3. SessionsKnown
  BY DEF Init, SessionsKnown, FreeSession
<1>. QED BY <1>2, <1>3 DEF SessionInv

\* Every step keeps what is known of the sessions, a wrap of the counter included.
LEMMA StepSessionInv == SessionInv /\ [Next]_vars => SessionInv'
<1>. SUFFICES ASSUME SessionInv, [Next]_vars PROVE SessionInv'
  OBVIOUS
<1>1. CASE UNCHANGED <<uptime, sessions, issued, seen>>
  BY <1>1 DEF SessionInv, SessionsTyped, SessionsKnown
<1>2. ASSUME NEW c \in Client, NEW ok \in BOOLEAN, BeginLogin(c, ok)
      PROVE  UNCHANGED <<uptime, sessions, issued, seen>>
  BY <1>2 DEF BeginLogin, history
<1>3. ASSUME FinishLogin PROVE SessionInv'
  <2>1. PICK k : uptime' = uptime /\ (PassLogin(k) \/ FailLogin(k))
    BY <1>3 DEF FinishLogin
  <2>2. FailLogin(k) => UNCHANGED <<uptime, sessions, issued, seen>>
    BY <2>1 DEF FailLogin
  <2>. QED BY <1>1, <2>1, <2>2, SessionIssued
<1>4. ASSUME NEW t \in Token, Validate(t) \/ Logout(t) PROVE SessionInv'
  BY <1>4, SessionRenewed, SessionFreed
<1>5. ASSUME Tick PROVE SessionInv'
  <2>1. /\ UNCHANGED <<sessions, issued, seen>>
        /\ uptime \in Nat /\ uptime' = uptime + 1 /\ uptime' \in 0 .. MaxUptime
    BY <1>5, TimeAssumption DEF Tick, history, SessionInv, SessionsTyped
  <2>2. \A t \in Token : seen[t] \in Nat
    BY TimeAssumption DEF SessionInv, SessionsTyped
  <2>. QED BY <2>1, <2>2 DEF SessionInv, SessionsTyped, SessionsKnown
<1>6. CASE UNCHANGED vars
  BY <1>1, <1>6 DEF vars, history
<1>. QED BY <1>1, <1>2, <1>3, <1>4, <1>5, <1>6 DEF Next

\* In every behaviour, however long: a used slot holds a token that was issued, in no
\* other slot, and the reading of the counter at its last request.
THEOREM SessionInvariant == Spec => []SessionInv
BY InitSessionInv, StepSessionInv, PTL DEF Spec

\* A token is accepted only if it was issued and a request used it within the last
\* TTL, whatever slots were reused and however often the counter wrapped in between.
THEOREM SessionAlwaysFresh == Spec /\ []SlotsRecent => []SessionFresh
<1>1. SessionInv /\ SlotsRecent => SessionFresh
  <2>. SUFFICES ASSUME SessionInv, SlotsRecent, NEW t \in Token, Valid(t)
                PROVE  t \in issued /\ uptime - seen[t] <= TTL
    BY DEF SessionFresh
  <2>1. ValidKnown
    BY ValidIsFresh
  <2>2. PICK i \in Session : sessions[i].used /\ sessions[i].token = t
    BY <2>1 DEF ValidKnown
  <2>. QED BY <2>1, <2>2 DEF ValidKnown, SessionInv, SessionsKnown
<1>. QED BY SessionInvariant, <1>1, PTL

\* A token's slot and its last use change through itself alone, except that its
\* slot may be taken.
LEMMA TokenKept ==
  ASSUME SessionInv, [Next]_vars, NEW t \in issued
  PROVE  /\ Holds(t)' => Holds(t)
         /\ seen'[t] = seen[t] \/ Validate(t)
         /\ uptime \in Nat /\ uptime' \in Nat /\ uptime <= uptime' /\ seen[t] \in Nat
         /\ t \in Token
<1>0. /\ uptime \in Nat /\ t \in Token /\ seen[t] \in Nat
      /\ issued \subseteq Token /\ seen \in [Token -> 0 .. MaxUptime] /\ sessions \in Sessions
  BY TimeAssumption DEF SessionInv, SessionsTyped
<1>1. CASE UNCHANGED <<uptime, sessions, seen>>
  BY <1>0, <1>1 DEF Holds
<1>2. CASE FinishLogin
  <2>1. PICK k : uptime' = uptime /\ (PassLogin(k) \/ FailLogin(k))
    BY <1>2 DEF FinishLogin
  <2>2. CASE UNCHANGED <<sessions, seen>>
    BY <1>1, <2>1, <2>2
  <2>3. ASSUME NEW i \in Allocated, NEW u \in Token \ issued,
               sessions' = [sessions EXCEPT ![i] = [used |-> TRUE, token |-> u, last |-> now]],
               seen' = [seen EXCEPT ![u] = uptime]
        PROVE  (Holds(t)' => Holds(t)) /\ seen'[t] = seen[t]
    <3>1. u # t
      BY <1>0
    <3>2. \A j \in Session : sessions'[j].used /\ sessions'[j].token = t => sessions'[j] = sessions[j]
      BY <1>0, <2>3, <3>1 DEF Sessions
    <3>. QED BY <1>0, <2>3, <3>1, <3>2 DEF Holds
  <2>. QED BY <1>0, <2>1, <2>2, <2>3 DEF PassLogin, FailLogin
<1>3. ASSUME NEW u \in Token, Validate(u)
      PROVE  (Holds(t)' => Holds(t)) /\ (seen'[t] = seen[t] \/ Validate(t)) /\ uptime' = uptime
  <2>1. Holds(t)' <=> Holds(t)
    BY <1>0, <1>3, SessionRenewed
  <2>2. seen' = [seen EXCEPT ![u] = uptime] /\ uptime' = uptime
    BY <1>3 DEF Validate
  <2>. QED BY <1>0, <1>3, <2>1, <2>2
<1>4. ASSUME NEW u \in Token, Logout(u)
      PROVE  (Holds(t)' => Holds(t)) /\ seen' = seen /\ uptime' = uptime
  BY <1>0, <1>4, SessionFreed DEF Logout, history
<1>5. CASE Tick
  BY <1>0, <1>5 DEF Tick, history, Holds
<1>6. ASSUME NEW c \in Client, NEW ok \in BOOLEAN, BeginLogin(c, ok)
      PROVE  UNCHANGED <<uptime, sessions, seen>>
  BY <1>6 DEF BeginLogin, history
<1>7. UNCHANGED vars => UNCHANGED <<uptime, sessions, seen>>
  BY DEF vars, history
<1>. QED BY <1>0, <1>1, <1>2, <1>3, <1>4, <1>5, <1>6, <1>7 DEF Next

\* No request, login or passing of time makes a session valid again, nor a wrap of the
\* counter: the slots are reused, but a token that expired, was logged out or was evicted stays refused.
THEOREM SessionNeverRevived == Spec /\ []SlotsRecent => SessionNotRevived
<1>1. SessionInv /\ SessionInv' /\ SlotsRecent /\ SlotsRecent' /\ [Next]_vars =>
        [\A t \in issued : ~Valid(t) => ~Valid(t)']_vars
  <2>. SUFFICES ASSUME SessionInv, SessionInv', SlotsRecent, SlotsRecent', [Next]_vars, NEW t \in issued, Valid(t)'
               PROVE  Valid(t)
    OBVIOUS
  <2>1. ValidKnown /\ ValidKnown'
    BY ValidIsFresh, ValidIsFreshPrimed
  <2>2. /\ Holds(t)' => Holds(t)
        /\ seen'[t] = seen[t] \/ Validate(t)
        /\ uptime \in Nat /\ uptime' \in Nat /\ uptime <= uptime' /\ seen[t] \in Nat
        /\ t \in Token
    BY TokenKept
  <2>3. Holds(t)' /\ uptime' - seen'[t] <= TTL
    BY <2>1, <2>2 DEF ValidKnown, Holds
  <2>4. CASE Validate(t)
    BY <2>4 DEF Validate
  <2>5. CASE seen'[t] = seen[t]
    <3>1. uptime - seen[t] <= TTL
      BY <2>2, <2>3, <2>5, TimeAssumption
    <3>. QED BY <2>1, <2>2, <2>3, <3>1 DEF ValidKnown, Holds
  <2>. QED BY <2>2, <2>4, <2>5
<1>. QED BY SessionInvariant, <1>1, PTL DEF Spec, SessionNotRevived
-----------------------------------------------------------------------------
(* The limiter's slots. *)

LimitRecord == [used : BOOLEAN, ip : Key, start : Clock, attempts : 0 .. MaxAttempts, until : Clock]

\* A client's key is a key.
LEMMA KeyOfClient == \A c \in Client : limit_key(c) \in Key
BY NameAssumption DEF limit_key, Key

\* The slot for a key is its own, else one that is unused or serves no lockout.
LEMMA AcquiredSlot ==
  ASSUME NEW k, NEW i \in Acquired(k)
  PROVE  /\ i \in Limit
         /\ \/ i \in SlotsOfKey(k)
            \/ SlotsOfKey(k) = {} /\ (~limits[i].used \/ ~InLockout(limits[i]))
<1>0. LimitSlots \in Nat /\ SlotsOfKey(k) \in SUBSET (1 .. LimitSlots)
      /\ Unused \in SUBSET (1 .. LimitSlots)
  BY SlotAssumption DEF SlotsOfKey, Unused, Limit
<1>1. CASE SlotsOfKey(k) # {}
  <2>1. i = Min(SlotsOfKey(k))
    BY <1>1 DEF Acquired
  <2>. QED BY <1>0, <1>1, <2>1, MinIsMember DEF Limit
<1>2. CASE SlotsOfKey(k) = {} /\ Unused # {}
  <2>1. i = Min(Unused)
    BY <1>2 DEF Acquired
  <2>2. i \in Unused
    BY <1>0, <1>2, <2>1, MinIsMember
  <2>. QED BY <1>2, <2>2 DEF Unused
<1>3. CASE SlotsOfKey(k) = {} /\ Unused = {}
  <2>. DEFINE Oldest == {s \in Evictable : \A j \in Evictable : limits[s].start <= limits[j].start}
  <2>1. Oldest \in SUBSET (1 .. LimitSlots)
    BY DEF Evictable, Limit
  <2>2. Oldest # {} /\ i = Max(Oldest)
    BY <1>3 DEF Acquired
  <2>3. i \in Oldest
    <3>. HIDE DEF Oldest
    <3>. QED BY <1>0, <2>1, <2>2, MaxIsMember
  <2>. QED BY <1>3, <2>3 DEF Evictable
<1>. QED BY <1>1, <1>2, <1>3

\* A key that has a slot acquires it.
LEMMA OwnSlotAcquired ==
  ASSUME NEW k, Acquired(k) = {}
  PROVE  SlotsOfKey(k) = {}
<1>1. SlotsOfKey(k) # {} => Acquired(k) = {Min(SlotsOfKey(k))}
  BY DEF Acquired
<1>. QED BY <1>1

\* A slot that serves no lockout belongs to a key that is not locked out.
LEMMA LockoutIsOver ==
  ASSUME TypeOK, NoWrap, NEW rl \in LimitRecord, NEW f, NEW e \in Nat, SlotKnown(rl, f, e, uptime)
  PROVE  InLockout(rl) <=> uptime < e
<1>1. rl.until \in Nat /\ uptime \in Nat /\ now = uptime
  BY ClockIsUptime DEF TypeOK, LimitRecord, Clock
<1>. QED BY <1>1 DEF InLockout, SlotKnown

\* The slot a login works on, before the outcome is recorded.
LEMMA ClaimedKnown ==
  ASSUME TypeOK, LimitsKnown, NoWrap, NEW k \in Key, NEW i \in Acquired(k), lockedOut[k] <= uptime
  PROVE  LET c == Claimed(i, k) IN
         /\ c \in LimitRecord /\ c.used /\ c.ip = k
         /\ SlotKnown(c, failures[k], lockedOut[k], uptime)
<1>1. i \in Limit /\ limits[i] \in LimitRecord
  BY AcquiredSlot DEF TypeOK, LimitRecord
<1>2. CASE i \in SlotsOfKey(k)
  <2>1. Claimed(i, k) = limits[i] /\ limits[i].used /\ limits[i].ip = k
    BY <1>2 DEF Claimed, SlotsOfKey
  <2>. QED BY <1>1, <2>1 DEF LimitsKnown
<1>3. CASE i \notin SlotsOfKey(k)
  <2>. DEFINE c == [FreeLimit EXCEPT !.used = TRUE, !.ip = k, !.start = now]
  <2>1. FreeLimit \in LimitRecord /\ FreeLimit.attempts = 0 /\ FreeLimit.until = 0
    <3>1. 0 \in Clock /\ 0 \in 0 .. MaxAttempts /\ Unknown \in Key
      BY AttemptAssumption, TimeAssumption DEF Clock, Key
    <3>. QED BY <3>1 DEF FreeLimit, LimitRecord
  <2>2. now = uptime /\ now \in Clock
    BY ClockIsUptime
  <2>3. /\ c \in LimitRecord /\ c.used /\ c.ip = k
        /\ c.start = uptime /\ c.attempts = 0 /\ c.until = 0
    BY <2>1, <2>2 DEF LimitRecord
  <2>4. Claimed(i, k) = c
    BY <1>3 DEF Claimed
  <2>. HIDE DEF c
  <2>5. Len(failures[k]) \in Nat /\ uptime \in Nat
    BY DEF TypeOK
  <2>6. LastSince(failures[k], 0, uptime)
    BY <2>5 DEF LastSince
  <2>7. SlotKnown(c, failures[k], lockedOut[k], uptime)
    BY <2>3, <2>5, <2>6, AttemptAssumption DEF SlotKnown
  <2>. QED BY <2>3, <2>4, <2>7
<1>. QED BY <1>2, <1>3

\* A failure counts in the window it falls into; the one that reaches the limit
\* locks out from now.
LEMMA FailedProperties ==
  ASSUME TypeOK, NoWrap, NEW c \in LimitRecord, NEW f, NEW e \in Nat, SlotKnown(c, f, e, uptime),
         e <= uptime
  PROVE  LET rl == Failed(c) IN
         /\ rl \in LimitRecord /\ rl.used = c.used /\ rl.ip = c.ip
         /\ rl.start <= uptime /\ uptime - rl.start <= Window
         /\ \/ rl.attempts = 1 /\ rl.start = uptime
            \/ rl.attempts = c.attempts + 1 /\ rl.start = c.start
         /\ rl.until = IF rl.attempts = MaxAttempts THEN uptime + Lockout ELSE c.until
<1>0. /\ now = uptime /\ now \in Clock /\ (now + Lockout) % ClockMod = uptime + Lockout
      /\ uptime + Lockout \in Clock /\ uptime \in Nat /\ Window \in Nat /\ Lockout \in Nat
      /\ Window < Lockout /\ MaxAttempts \in Nat \ {0}
  BY ClockIsUptime, TimeAssumption, AttemptAssumption DEF TypeOK
<1>1. /\ c.used \in BOOLEAN /\ c.ip \in Key /\ c.start \in Clock /\ c.start \in Nat
      /\ c.attempts \in 0 .. MaxAttempts /\ c.until \in Clock /\ c.until \in Nat
      /\ c.start <= uptime
  BY DEF LimitRecord, Clock, SlotKnown
<1>2. RestartsWindow(c) <=> uptime - c.start > Window
  BY <1>1, ClockIsUptime DEF RestartsWindow
<1>. DEFINE w == IF RestartsWindow(c) THEN [c EXCEPT !.start = now, !.attempts = 0] ELSE c
            n == w.attempts + 1
            rl == Failed(c)
<1>3. /\ w \in LimitRecord /\ w.used = c.used /\ w.ip = c.ip /\ w.until = c.until
      /\ w.start = (IF RestartsWindow(c) THEN uptime ELSE c.start)
      /\ w.attempts = (IF RestartsWindow(c) THEN 0 ELSE c.attempts)
  <2>1. CASE RestartsWindow(c)
    <3>1. 0 \in 0 .. MaxAttempts
      BY <1>0
    <3>. QED BY <1>0, <2>1, <3>1 DEF LimitRecord
  <2>2. CASE ~RestartsWindow(c)
    BY <2>2
  <2>. QED BY <2>1, <2>2
<1>4. c.attempts = MaxAttempts => RestartsWindow(c)
  BY <1>0, <1>1, <1>2 DEF SlotKnown
<1>5. n \in 1 .. MaxAttempts
  BY <1>0, <1>1, <1>3, <1>4
<1>6. rl = IF n >= MaxAttempts
           THEN [w EXCEPT !.attempts = n, !.until = (now + Lockout) % ClockMod]
           ELSE [w EXCEPT !.attempts = n]
  BY DEF Failed
<1>. HIDE DEF w, rl
<1>7. /\ rl \in LimitRecord /\ rl.used = w.used /\ rl.ip = w.ip /\ rl.start = w.start
      /\ rl.attempts = n /\ rl.until = IF n = MaxAttempts THEN uptime + Lockout ELSE w.until
  <2>. HIDE DEF n
  <2>1. n \in 0 .. MaxAttempts /\ (n >= MaxAttempts <=> n = MaxAttempts)
    BY <1>0, <1>5
  <2>2. CASE n >= MaxAttempts
    BY <1>0, <1>3, <1>6, <2>1, <2>2 DEF LimitRecord
  <2>3. CASE ~(n >= MaxAttempts)
    BY <1>3, <1>6, <2>1, <2>3 DEF LimitRecord
  <2>. QED BY <2>2, <2>3
<1>8. rl.start <= uptime /\ uptime - rl.start <= Window
  BY <1>0, <1>1, <1>2, <1>3, <1>7
<1>9. \/ rl.attempts = 1 /\ rl.start = uptime
      \/ rl.attempts = c.attempts + 1 /\ rl.start = c.start
  BY <1>1, <1>3, <1>7
<1>. QED BY <1>3, <1>7, <1>8, <1>9 DEF rl

\* The history of failures keeps the latest ones, this one last.
LEMMA LatestFailuresProperties ==
  ASSUME TypeOK, NEW k \in Key, Len(failures[k]) <= MaxAttempts
  PROVE  LET f == failures[k]
             g == LatestFailures(k) IN
         /\ g \in Seq(0 .. MaxUptime) /\ Len(g) <= MaxAttempts
         /\ \A n \in 0 .. MaxAttempts - 1, t \in Nat :
              LastSince(f, n, t) /\ t <= uptime => LastSince(g, n + 1, t)
<1>. DEFINE f == failures[k]
            a == Append(f, uptime)
            g == LatestFailures(k)
            m == Len(f)
<1>0. f \in Seq(0 .. MaxUptime) /\ uptime \in 0 .. MaxUptime /\ m \in Nat /\ MaxUptime \in Nat
      /\ MaxAttempts \in Nat \ {0} /\ m <= MaxAttempts
  BY TimeAssumption, AttemptAssumption DEF TypeOK
<1>1. /\ a \in Seq(0 .. MaxUptime) /\ Len(a) = m + 1 /\ a[m + 1] = uptime
      /\ \A j \in 1 .. m : a[j] = f[j]
  BY <1>0, AppendProperties
<1>2. g = IF Len(a) > MaxAttempts THEN Tail(a) ELSE a
  BY DEF LatestFailures
<1>. HIDE DEF a, g, f
<1>3. CASE Len(a) > MaxAttempts
  <2>1. /\ g \in Seq(0 .. MaxUptime) /\ Len(g) = m /\ m = MaxAttempts
        /\ \A j \in 1 .. m : g[j] = a[j + 1]
    <3>1. a # <<>>
      BY <1>0, <1>1
    <3>2. Tail(a) \in Seq(0 .. MaxUptime) /\ Len(Tail(a)) = Len(a) - 1
          /\ \A j \in 1 .. Len(a) - 1 : Tail(a)[j] = a[j + 1]
      BY <1>1, <3>1, HeadTailProperties
    <3>3. Len(a) - 1 = m /\ m = MaxAttempts
      BY <1>0, <1>1, <1>3
    <3>. QED BY <1>2, <1>3, <3>2, <3>3
  <2>2. ASSUME NEW n \in 0 .. MaxAttempts - 1, NEW t \in Nat, LastSince(f, n, t), t <= uptime
        PROVE  LastSince(g, n + 1, t)
    <3>1. ASSUME NEW j \in m - (n + 1) + 1 .. m PROVE g[j] >= t
      <4>1. j \in 1 .. m /\ g[j] = a[j + 1]
        BY <1>0, <2>1
      <4>2. CASE j = m
        BY <1>1, <2>2, <4>1, <4>2, <1>0
      <4>3. CASE j # m
        <5>1. j + 1 \in 1 .. m /\ j + 1 \in m - n + 1 .. m
          BY <1>0, <4>1, <4>3
        <5>. QED BY <1>1, <2>2, <4>1, <5>1 DEF LastSince, m
      <4>. QED BY <4>2, <4>3
    <3>2. n + 1 <= m
      BY <1>0, <2>1
    <3>. QED BY <2>1, <3>1, <3>2 DEF LastSince
  <2>. QED BY <1>0, <2>1, <2>2 DEF g, f
<1>4. CASE ~(Len(a) > MaxAttempts)
  <2>1. g = a /\ m + 1 <= MaxAttempts
    BY <1>0, <1>1, <1>2, <1>4
  <2>2. ASSUME NEW n \in 0 .. MaxAttempts - 1, NEW t \in Nat, LastSince(f, n, t), t <= uptime
        PROVE  LastSince(g, n + 1, t)
    <3>0. n <= m
      BY <2>2 DEF LastSince, m
    <3>1. ASSUME NEW j \in (m + 1) - (n + 1) + 1 .. m + 1 PROVE g[j] >= t
      <4>2. CASE j = m + 1
        BY <1>1, <2>1, <2>2, <4>2, <1>0
      <4>3. CASE j # m + 1
        <5>1. j \in 1 .. m /\ j \in m - n + 1 .. m
          BY <1>0, <3>0, <4>3
        <5>. QED BY <1>1, <2>1, <2>2, <5>1 DEF LastSince, m
      <4>. QED BY <4>2, <4>3
    <3>2. n + 1 <= m + 1
      BY <1>0, <3>0
    <3>. QED BY <1>1, <2>1, <3>1, <3>2 DEF LastSince
  <2>. QED BY <1>0, <1>1, <2>1, <2>2 DEF g, f
<1>. QED BY <1>3, <1>4

-----------------------------------------------------------------------------
(* What an outcome does to the limiter. *)

\* A key is turned away exactly while its lockout lasts.
LEMMA LockoutsKnown == TypeOK /\ LimitsKnown /\ NoWrap => LockoutExact
<1>. SUFFICES ASSUME TypeOK, LimitsKnown, NoWrap, NEW k \in Key
             PROVE  RateLimited(k) <=> uptime < lockedOut[k]
  BY DEF LockoutExact
<1>1. ASSUME NEW i \in SlotsOfKey(k) PROVE InLockout(limits[i]) <=> uptime < lockedOut[k]
  <2>1. i \in Limit /\ limits[i] \in LimitRecord /\ limits[i].used /\ limits[i].ip = k
    BY <1>1 DEF SlotsOfKey, TypeOK, LimitRecord
  <2>2. lockedOut[k] \in Nat
    BY TimeAssumption DEF TypeOK
  <2>. QED BY <2>1, <2>2, LockoutIsOver DEF LimitsKnown
<1>2. SlotsOfKey(k) = {} => ~(uptime < lockedOut[k])
  <2>1. lockedOut[k] \in Nat /\ uptime \in Nat
    BY TimeAssumption DEF TypeOK
  <2>. QED BY <2>1 DEF LimitsKnown
<1>. QED BY <1>1, <1>2 DEF RateLimited

\* Recording an outcome in the slot acquired for a key keeps the limiter truthful about
\* every key, the one that loses the slot included.
LEMMA SlotReplaced ==
  ASSUME TypeOK, LimitsKnown, NoWrap, NEW k \in Key, NEW i \in Acquired(k),
         NEW rl \in LimitRecord, rl.used, rl.ip = k,
         limits' = [limits EXCEPT ![i] = rl], uptime' = uptime,
         \A o \in Key \ {k} : lockedOut'[o] = lockedOut[o] /\ failures'[o] = failures[o],
         SlotKnown(rl, failures'[k], lockedOut'[k], uptime'), Len(failures'[k]) <= MaxAttempts
  PROVE  LimitsKnown'
<1>1. i \in Limit /\ limits \in [Limit -> LimitRecord]
      /\ (i \in SlotsOfKey(k) \/ (SlotsOfKey(k) = {} /\ (~limits[i].used \/ ~InLockout(limits[i]))))
  BY AcquiredSlot DEF TypeOK, LimitRecord
<1>2. \A j \in Limit : limits'[j] = IF j = i THEN rl ELSE limits[j]
  BY <1>1
<1>3. \A j \in Limit : j # i /\ limits[j].used => limits[j].ip # k
  BY <1>1 DEF LimitsKnown, OneSlotPerKey, SlotsOfKey
<1>4. OneSlotPerKey'
  BY <1>2, <1>3 DEF OneSlotPerKey, LimitsKnown
<1>5. ASSUME NEW j \in Limit, limits'[j].used
      PROVE  SlotKnown(limits'[j], failures'[limits'[j].ip], lockedOut'[limits'[j].ip], uptime')
  <2>1. CASE j = i
    BY <1>2, <2>1 DEF SlotKnown
  <2>2. CASE j # i
    <3>1. limits'[j] = limits[j] /\ limits[j].ip \in Key \ {k}
      BY <1>1, <1>2, <1>3, <1>5, <2>2 DEF LimitRecord
    <3>. QED BY <1>5, <3>1 DEF LimitsKnown, SlotKnown
  <2>. QED BY <2>1, <2>2
<1>6. ASSUME NEW o \in Key, SlotsOfKey(o)' = {} PROVE lockedOut'[o] <= uptime'
  <2>1. i \in SlotsOfKey(k)'
    BY <1>1, <1>2 DEF SlotsOfKey
  <2>2. o # k /\ lockedOut'[o] = lockedOut[o] /\ lockedOut[o] \in Nat /\ uptime \in Nat
    BY <1>6, <2>1, TimeAssumption DEF TypeOK
  <2>3. SlotsOfKey(o) \subseteq {i}
    BY <1>2, <1>6 DEF SlotsOfKey
  <2>4. CASE SlotsOfKey(o) = {}
    BY <2>2, <2>4 DEF LimitsKnown
  <2>5. CASE i \in SlotsOfKey(o)
    <3>1. limits[i].used /\ limits[i].ip = o /\ ~InLockout(limits[i]) /\ limits[i] \in LimitRecord
      BY <1>1, <2>2, <2>5 DEF SlotsOfKey
    <3>2. ~(uptime < lockedOut[o])
      BY <1>1, <2>2, <3>1, LockoutIsOver DEF LimitsKnown
    <3>. QED BY <2>2, <3>2
  <2>. QED BY <2>3, <2>4, <2>5
<1>7. \A o \in Key : Len(failures'[o]) <= MaxAttempts
  BY DEF LimitsKnown
<1>. QED BY <1>4, <1>5, <1>6, <1>7 DEF LimitsKnown

\* A failure that finds no slot leaves every slot with its truth.
LEMMA SlotSkipped ==
  ASSUME TypeOK, LimitsKnown, NEW k \in Key, Acquired(k) = {},
         limits' = limits, lockedOut' = lockedOut, uptime' = uptime,
         \A o \in Key \ {k} : failures'[o] = failures[o], Len(failures'[k]) <= MaxAttempts
  PROVE  LimitsKnown'
<1>1. SlotsOfKey(k) = {}
  BY OwnSlotAcquired
<1>2. \A j \in Limit : limits[j].used => limits[j].ip \in Key \ {k}
  BY <1>1 DEF SlotsOfKey, TypeOK
<1>3. \A o : SlotsOfKey(o)' = SlotsOfKey(o)
  BY DEF SlotsOfKey
<1>. QED BY <1>2, <1>3 DEF LimitsKnown, OneSlotPerKey, SlotKnown

\* A recorded failure, in full.
LEMMA FailRecorded ==
  ASSUME TypeOK, LimitsKnown, NoWrap, NEW k \in Key, lockedOut[k] <= uptime,
         FailLogin(k), uptime' = uptime
  PROVE  /\ LimitsKnown'
         /\ limits' \in [Limit -> LimitRecord]
         /\ lockedOut' \in [Key -> 0 .. MaxUptime + Lockout]
         /\ failures' \in [Key -> Seq(0 .. MaxUptime)]
         /\ \A o \in Key : lockedOut'[o] # lockedOut[o] =>
              Len(failures'[o]) = MaxAttempts /\ uptime - failures'[o][1] <= Window
<1>. DEFINE f == failures[k]
            g == LatestFailures(k)
<1>0. /\ limits \in [Limit -> LimitRecord] /\ lockedOut \in [Key -> 0 .. MaxUptime + Lockout]
      /\ failures \in [Key -> Seq(0 .. MaxUptime)] /\ uptime \in 0 .. MaxUptime /\ uptime \in Nat
      /\ MaxAttempts \in Nat \ {0} /\ Lockout \in Nat /\ MaxUptime \in Nat /\ Window \in Nat
      /\ Len(f) <= MaxAttempts
  BY TimeAssumption, AttemptAssumption DEF TypeOK, LimitRecord, LimitsKnown
<1>1. failures' = [failures EXCEPT ![k] = g]
  BY DEF FailLogin
<1>2. /\ g \in Seq(0 .. MaxUptime) /\ Len(g) <= MaxAttempts
      /\ \A n \in 0 .. MaxAttempts - 1, t \in Nat :
           LastSince(f, n, t) /\ t <= uptime => LastSince(g, n + 1, t)
  BY <1>0, LatestFailuresProperties
<1>. HIDE DEF f, g
<1>3. /\ failures' \in [Key -> Seq(0 .. MaxUptime)] /\ failures'[k] = g
      /\ \A o \in Key \ {k} : failures'[o] = failures[o]
  BY <1>0, <1>1, <1>2
<1>4. CASE Acquired(k) = {} /\ UNCHANGED <<limits, lockedOut>>
  <2>1. LimitsKnown'
    BY <1>2, <1>3, <1>4, SlotSkipped
  <2>. QED BY <1>0, <1>3, <1>4, <2>1
<1>5. ASSUME NEW i \in Acquired(k),
             limits' = [limits EXCEPT ![i] = Failed(Claimed(i, k))],
             lockedOut' = IF Failed(Claimed(i, k)).attempts >= MaxAttempts
                          THEN [lockedOut EXCEPT ![k] = uptime + Lockout] ELSE lockedOut
      PROVE  /\ LimitsKnown' /\ limits' \in [Limit -> LimitRecord]
             /\ lockedOut' \in [Key -> 0 .. MaxUptime + Lockout]
             /\ \A o \in Key : lockedOut'[o] # lockedOut[o] =>
                  Len(failures'[o]) = MaxAttempts /\ uptime - failures'[o][1] <= Window
  <2>. DEFINE c == Claimed(i, k)
              rl == Failed(c)
              e == lockedOut[k]
  <2>1. /\ c \in LimitRecord /\ c.used /\ c.ip = k /\ SlotKnown(c, f, e, uptime)
        /\ e \in Nat /\ e <= uptime
    BY <1>0, ClaimedKnown DEF f
  <2>. HIDE DEF c, e
  <2>2. /\ rl \in LimitRecord /\ rl.used /\ rl.ip = k
        /\ rl.start <= uptime /\ uptime - rl.start <= Window
        /\ \/ rl.attempts = 1 /\ rl.start = uptime
           \/ rl.attempts = c.attempts + 1 /\ rl.start = c.start
        /\ rl.until = IF rl.attempts = MaxAttempts THEN uptime + Lockout ELSE c.until
    BY <2>1, FailedProperties
  <2>3. limits' = [limits EXCEPT ![i] = rl]
        /\ lockedOut' = IF rl.attempts >= MaxAttempts
                        THEN [lockedOut EXCEPT ![k] = uptime + Lockout] ELSE lockedOut
    BY <1>5 DEF c
  <2>. HIDE DEF rl
  <2>4. rl.attempts \in 0 .. MaxAttempts /\ rl.start \in Nat /\ c.attempts \in 0 .. MaxAttempts
    BY <2>1, <2>2 DEF LimitRecord, Clock
  <2>5. LastSince(g, rl.attempts, rl.start)
    <3>1. CASE rl.attempts = 1 /\ rl.start = uptime
      <4>1. LastSince(f, 0, uptime)
        <5>1. Len(f) \in Nat
          BY <1>0 DEF f
        <5>. QED BY <5>1 DEF LastSince
      <4>2. 0 \in 0 .. MaxAttempts - 1 /\ uptime <= uptime
        BY <1>0
      <4>3. LastSince(g, 0 + 1, uptime)
        BY <1>0, <1>2, <4>1, <4>2, Zenon
      <4>. QED BY <3>1, <4>3
    <3>2. CASE rl.attempts = c.attempts + 1 /\ rl.start = c.start
      <4>1. c.attempts \in 0 .. MaxAttempts - 1
        BY <1>0, <2>4, <3>2
      <4>2. LastSince(f, c.attempts, c.start) /\ c.start \in Nat /\ c.start <= uptime
        BY <2>1, <2>2, <2>4, <3>2 DEF SlotKnown
      <4>3. LastSince(g, c.attempts + 1, c.start)
        BY <1>2, <4>1, <4>2, Zenon
      <4>. QED BY <3>2, <4>3
    <3>. QED BY <2>2, <3>1, <3>2
  <2>6. \A o \in Key : lockedOut'[o] = IF o = k /\ rl.attempts = MaxAttempts
                                       THEN uptime + Lockout ELSE lockedOut[o]
    BY <1>0, <2>3, <2>4
  <2>7. SlotKnown(rl, g, lockedOut'[k], uptime')
    <3>1. CASE rl.attempts = MaxAttempts
      BY <1>0, <2>2, <2>4, <2>5, <2>6, <3>1 DEF SlotKnown
    <3>2. CASE rl.attempts # MaxAttempts
      BY <2>1, <2>2, <2>5, <2>6, <3>2 DEF SlotKnown, e
    <3>. QED BY <3>1, <3>2
  <2>8. LimitsKnown'
    <3>1. \A o \in Key \ {k} : lockedOut'[o] = lockedOut[o] /\ failures'[o] = failures[o]
      BY <1>3, <2>6
    <3>2. SlotKnown(rl, failures'[k], lockedOut'[k], uptime') /\ Len(failures'[k]) <= MaxAttempts
      BY <1>2, <1>3, <2>7
    <3>. QED BY <2>2, <2>3, <3>1, <3>2, SlotReplaced
  <2>9. limits' \in [Limit -> LimitRecord]
    BY <1>0, <2>2, <2>3
  <2>10. lockedOut' \in [Key -> 0 .. MaxUptime + Lockout]
    BY <1>0, <2>3
  <2>11. rl.attempts = MaxAttempts => Len(g) = MaxAttempts /\ uptime - g[1] <= Window
    <3>1. ASSUME rl.attempts = MaxAttempts
          PROVE  Len(g) = MaxAttempts /\ g[1] >= rl.start /\ g[1] \in Nat
      <4>1. Len(g) \in Nat
        BY <1>2
      <4>2. Len(g) = MaxAttempts
        BY <1>0, <1>2, <2>5, <3>1, <4>1 DEF LastSince
      <4>3. 1 \in Len(g) - rl.attempts + 1 .. Len(g) /\ 1 \in 1 .. Len(g)
        BY <1>0, <3>1, <4>2
      <4>4. g[1] \in 0 .. MaxUptime
        BY <1>2, <4>3, ElementOfSeq
      <4>5. g[1] \in Nat
        BY <1>0, <4>4
      <4>6. \A j \in Len(g) - rl.attempts + 1 .. Len(g) : g[j] >= rl.start
        BY <2>5 DEF LastSince
      <4>7. g[1] >= rl.start
        BY <4>3, <4>6, Zenon
      <4>. QED BY <4>2, <4>5, <4>7
    <3>2. uptime - rl.start <= Window /\ rl.start \in Nat /\ uptime \in Nat /\ Window \in Nat
      BY <1>0, <2>2, <2>4
    <3>. QED BY <3>1, <3>2
  <2>. QED BY <1>3, <2>6, <2>8, <2>9, <2>10, <2>11
<1>. QED BY <1>3, <1>4, <1>5 DEF FailLogin

\* A recorded success clears its key and nobody else.
LEMMA PassRecorded ==
  ASSUME TypeOK, LimitsKnown, NoWrap, NEW k \in Key, lockedOut[k] <= uptime,
         PassLogin(k), uptime' = uptime
  PROVE  /\ LimitsKnown'
         /\ limits' \in [Limit -> LimitRecord]
         /\ failures' \in [Key -> Seq(0 .. MaxUptime)]
<1>0. /\ limits \in [Limit -> LimitRecord] /\ failures \in [Key -> Seq(0 .. MaxUptime)]
      /\ lockedOut \in [Key -> 0 .. MaxUptime + Lockout]
      /\ uptime \in Nat /\ MaxAttempts \in Nat \ {0} /\ lockedOut' = lockedOut
  BY AttemptAssumption DEF TypeOK, LimitRecord, PassLogin
<1>1. <<>> \in Seq(0 .. MaxUptime) /\ Len(<<>>) = 0
  BY EmptySeq
<1>2. /\ failures' \in [Key -> Seq(0 .. MaxUptime)] /\ failures'[k] = <<>>
      /\ \A o \in Key \ {k} : lockedOut'[o] = lockedOut[o] /\ failures'[o] = failures[o]
      /\ Len(failures'[k]) <= MaxAttempts
  BY <1>0, <1>1 DEF PassLogin
<1>3. CASE Acquired(k) = {} /\ UNCHANGED limits
  <2>1. LimitsKnown'
    BY <1>0, <1>2, <1>3, SlotSkipped
  <2>. QED BY <1>0, <1>2, <1>3, <2>1
<1>4. ASSUME NEW i \in Acquired(k), limits' = [limits EXCEPT ![i] = Succeeded(Claimed(i, k))]
      PROVE  LimitsKnown' /\ limits' \in [Limit -> LimitRecord]
  <2>. DEFINE c == Claimed(i, k)
              rl == Succeeded(c)
  <2>1. c \in LimitRecord /\ c.used /\ c.ip = k
    BY ClaimedKnown
  <2>. HIDE DEF c
  <2>2. 0 \in 0 .. MaxAttempts /\ 0 \in Clock /\ now \in Clock /\ now = uptime
    BY <1>0, ClockIsUptime, TimeAssumption DEF Clock
  <2>3. /\ rl \in LimitRecord /\ rl.used /\ rl.ip = k
        /\ rl.attempts = 0 /\ rl.until = 0 /\ rl.start = uptime
    BY <2>1, <2>2 DEF Succeeded, LimitRecord
  <2>4. limits' = [limits EXCEPT ![i] = rl]
    BY <1>4 DEF c
  <2>. HIDE DEF rl
  <2>5. SlotKnown(rl, failures'[k], lockedOut'[k], uptime')
    <3>1. LastSince(<<>>, 0, uptime)
      BY <1>1 DEF LastSince
    <3>. QED BY <1>0, <1>2, <2>3, <3>1 DEF SlotKnown
  <2>6. LimitsKnown'
    BY <1>2, <2>3, <2>4, <2>5, SlotReplaced
  <2>. QED BY <1>0, <2>3, <2>4, <2>6
<1>. QED BY <1>2, <1>3, <1>4 DEF PassLogin

-----------------------------------------------------------------------------
(* The inductive invariant. *)

\* The tables start empty and every history with them.
LEMMA InitLimitInv == Init => LimitInv
<1>. SUFFICES ASSUME Init PROVE LimitInv
  OBVIOUS
<1>1. /\ 0 \in Clock /\ 0 \in 0 .. MaxUptime /\ 0 \in 0 .. MaxUptime + Lockout
      /\ 0 \in 0 .. MaxAttempts /\ Unknown \in Key
  BY TimeAssumption, AttemptAssumption DEF Clock, Key
<1>2. <<>> \in Seq(0 .. MaxUptime) /\ Len(<<>>) = 0
  BY EmptySeq
<1>3. TypeOK
  BY <1>1, <1>2 DEF Init, TypeOK, FreeSession, FreeLimit
<1>4. LimitsKnown
  <2>1. \A i \in Limit : ~limits[i].used
    BY DEF Init, FreeLimit
  <2>2. \A k \in Key : lockedOut[k] <= uptime /\ Len(failures[k]) <= MaxAttempts
    BY <1>2, AttemptAssumption DEF Init
  <2>. QED BY <2>1, <2>2 DEF LimitsKnown, OneSlotPerKey
<1>5. LoginAllowed
  BY DEF Init, LoginAllowed
<1>. QED BY <1>3, <1>4, <1>5 DEF LimitInv

\* The login that finishes is one whose client was let through.
LEMMA FinishingLogin ==
  ASSUME TypeOK, LoginAllowed, FinishLogin
  PROVE  LET k == limit_key(login.client) IN
         /\ k \in Key /\ lockedOut[k] <= uptime /\ login' = Idle /\ uptime' = uptime
         /\ PassLogin(k) \/ FailLogin(k)
BY KeyOfClient DEF TypeOK, LoginAllowed, FinishLogin

\* Time passes for the slots of the limiter as for the lockouts.
LEMMA LimitsAgeWell ==
  ASSUME TypeOK, LimitsKnown, Tick
  PROVE  LimitsKnown'
<1>1. /\ uptime \in Nat /\ uptime' = uptime + 1
      /\ UNCHANGED <<limits, lockedOut, failures>>
  BY DEF TypeOK, Tick, history
<1>2. \A i \in Limit : limits[i].start \in Nat /\ limits[i].ip \in Key
  BY DEF TypeOK, Clock
<1>3. \A k \in Key : lockedOut[k] \in Nat
  BY TimeAssumption DEF TypeOK
<1>4. \A i \in Limit : limits[i].used =>
        SlotKnown(limits[i], failures[limits[i].ip], lockedOut[limits[i].ip], uptime')
  <2>. SUFFICES ASSUME NEW i \in Limit, limits[i].used
                PROVE  SlotKnown(limits[i], failures[limits[i].ip], lockedOut[limits[i].ip], uptime')
    OBVIOUS
  <2>1. SlotKnown(limits[i], failures[limits[i].ip], lockedOut[limits[i].ip], uptime)
    BY DEF LimitsKnown
  <2>2. lockedOut[limits[i].ip] \in Nat
    BY <1>2, <1>3
  <2>. QED BY <1>1, <1>2, <2>1, <2>2 DEF SlotKnown
<1>5. \A k : SlotsOfKey(k)' = SlotsOfKey(k)
  BY <1>1 DEF SlotsOfKey
<1>6. \A k \in Key : SlotsOfKey(k) = {} => lockedOut[k] <= uptime'
  BY <1>1, <1>3 DEF LimitsKnown
<1>. QED BY <1>1, <1>4, <1>5, <1>6 DEF LimitsKnown, OneSlotPerKey

\* Every step keeps the invariant while the counter has not wrapped.
LEMMA StepLimitInv == LimitInv /\ SessionInv' /\ NoWrap /\ [Next]_vars => LimitInv'
<1>. SUFFICES ASSUME TypeOK, LimitsKnown, LoginAllowed, SessionsTyped', NoWrap, [Next]_vars
             PROVE  TypeOK' /\ LimitsKnown' /\ LoginAllowed'
  BY DEF LimitInv, SessionInv
<1>1. ASSUME NEW c \in Client, NEW ok \in BOOLEAN, BeginLogin(c, ok)
      PROVE  TypeOK' /\ LimitsKnown' /\ LoginAllowed'
  <2>0. UNCHANGED <<uptime, sessions, limits, issued, seen, lockedOut, failures>>
        /\ login' = [client |-> c, ok |-> ok]
    BY <1>1 DEF BeginLogin, history
  <2>1. TypeOK'
    BY <2>0 DEF TypeOK
  <2>2. LimitsKnown'
    BY <2>0 DEF LimitsKnown, OneSlotPerKey, SlotsOfKey
  <2>3. LoginAllowed'
    <3>1. limit_key(c) \in Key /\ ~RateLimited(limit_key(c))
      BY <1>1, KeyOfClient DEF BeginLogin
    <3>2. ~(uptime < lockedOut[limit_key(c)])
      BY <3>1, LockoutsKnown DEF LockoutExact
    <3>3. lockedOut[limit_key(c)] \in Nat /\ uptime \in Nat
      BY <3>1, TimeAssumption DEF TypeOK
    <3>4. lockedOut[limit_key(c)] <= uptime
      BY <3>2, <3>3
    <3>. QED BY <2>0, <3>4 DEF LoginAllowed, limit_key
  <2>. QED BY <2>1, <2>2, <2>3
<1>2. ASSUME FinishLogin
      PROVE  TypeOK' /\ LimitsKnown' /\ LoginAllowed'
  <2>. DEFINE k == limit_key(login.client)
  <2>0. /\ k \in Key /\ lockedOut[k] <= uptime /\ login' = Idle /\ uptime' = uptime
        /\ PassLogin(k) \/ FailLogin(k)
    BY <1>2, FinishingLogin
  <2>. HIDE DEF k
  <2>1. LoginAllowed'
    BY <2>0 DEF LoginAllowed
  <2>2. /\ LimitsKnown' /\ limits' \in [Limit -> LimitRecord]
        /\ lockedOut' \in [Key -> 0 .. MaxUptime + Lockout]
        /\ failures' \in [Key -> Seq(0 .. MaxUptime)]
    <3>1. CASE PassLogin(k)
      BY <2>0, <3>1, PassRecorded DEF PassLogin, TypeOK
    <3>2. CASE FailLogin(k)
      BY <2>0, <3>2, FailRecorded
    <3>. QED BY <2>0, <3>1, <3>2
  <2>3. TypeOK'
    BY <2>0, <2>2 DEF TypeOK, SessionsTyped, Sessions, LimitRecord
  <2>. QED BY <2>1, <2>2, <2>3
<1>3. ASSUME NEW t \in Token, Validate(t) \/ Logout(t)
      PROVE  TypeOK' /\ LimitsKnown' /\ LoginAllowed'
  <2>1. UNCHANGED <<uptime, limits, login, lockedOut, failures>>
    BY <1>3 DEF Validate, Logout, history
  <2>2. TypeOK'
    BY <2>1 DEF TypeOK, SessionsTyped, Sessions
  <2>3. LimitsKnown' /\ LoginAllowed'
    BY <2>1 DEF LimitsKnown, OneSlotPerKey, SlotsOfKey, LoginAllowed
  <2>. QED BY <2>2, <2>3
<1>4. ASSUME Tick
      PROVE  TypeOK' /\ LimitsKnown' /\ LoginAllowed'
  <2>0. /\ UNCHANGED <<sessions, limits, login, issued, seen, lockedOut, failures>>
        /\ uptime \in Nat /\ uptime' = uptime + 1 /\ uptime' \in 0 .. MaxUptime
    BY <1>4, TimeAssumption DEF Tick, TypeOK, history
  <2>1. TypeOK'
    BY <2>0 DEF TypeOK
  <2>2. LoginAllowed'
    <3>. SUFFICES ASSUME login # Idle
                  PROVE  lockedOut[limit_key(login.client)] <= uptime'
      BY <2>0 DEF LoginAllowed, limit_key
    <3>1. limit_key(login.client) \in Key
      BY KeyOfClient DEF TypeOK
    <3>2. lockedOut[limit_key(login.client)] \in Nat
      BY <3>1, TimeAssumption DEF TypeOK
    <3>. QED BY <2>0, <3>2 DEF LoginAllowed
  <2>. QED BY <1>4, <2>1, <2>2, LimitsAgeWell
<1>5. CASE UNCHANGED vars
  <2>1. UNCHANGED <<uptime, sessions, limits, login, issued, seen, lockedOut, failures>>
    BY <1>5 DEF vars, history
  <2>. QED BY <2>1 DEF TypeOK, LimitsKnown, OneSlotPerKey, SlotsOfKey, LoginAllowed
<1>. QED BY <1>1, <1>2, <1>3, <1>4, <1>5 DEF Next

\* Every behaviour keeps both invariants while its counter has not wrapped.
THEOREM InductiveInvariant == Spec /\ []NoWrap => [](LimitInv /\ SessionInv)
BY InitLimitInv, StepLimitInv, SessionInvariant, PTL DEF Spec

\* Every variable keeps its type: in particular no slot counts more than MaxAttempts.
THEOREM TypeCorrect == Spec /\ []NoWrap => []TypeOK
<1>1. LimitInv => TypeOK
  BY DEF LimitInv
<1>. QED BY InductiveInvariant, <1>1, PTL

\* A key is turned away exactly while its lockout lasts: neither other clients'
\* attempts nor the reuse of slots ends a lockout early or prolongs it.
THEOREM LockoutAlwaysExact == Spec /\ []NoWrap => []LockoutExact
<1>1. LimitInv /\ NoWrap => LockoutExact
  BY LockoutsKnown DEF LimitInv
<1>. QED BY InductiveInvariant, <1>1, PTL

-----------------------------------------------------------------------------
(* What a step may never do before the wrap. *)

\* Before the wrap every slot is recent and shows the uptime of its last request.
LEMMA RecentBeforeWrap ==
  ASSUME SessionInv, NoWrap
  PROVE  /\ SlotsRecent /\ ValidKnown
         /\ \A i \in Session : sessions[i].used => sessions[i].last = seen[sessions[i].token]
         /\ \A t \in Token : seen[t] \in Nat /\ seen[t] <= uptime /\ seen[t] < ClockMod - 1
<1>1. /\ uptime \in Nat /\ ClockMod \in Nat /\ Lockout \in Nat \ {0} /\ uptime + Lockout < ClockMod
      /\ \A t \in Token : seen[t] \in Nat
  BY TimeAssumption DEF NoWrap, SessionInv, SessionsTyped
<1>2. \A t \in Token : seen[t] <= uptime
  BY DEF SessionInv, SessionsKnown
<1>3. \A x \in 0 .. ClockMod - 1 : x % ClockMod = x
  BY <1>1
<1>4. \A i \in Session : sessions[i].used =>
        sessions[i].token \in Token /\ sessions[i].last = seen[sessions[i].token] % ClockMod
  BY DEF SessionInv, SessionsKnown, SessionsTyped
<1>5. \A t \in Token : /\ seen[t] < ClockMod - 1 /\ seen[t] \in 0 .. ClockMod - 1
                       /\ uptime - seen[t] < ClockMod
  BY <1>1, <1>2
<1>6. SlotsRecent
  BY <1>4, <1>5 DEF SlotsRecent
<1>. QED BY <1>1, <1>2, <1>3, <1>4, <1>5, <1>6, ValidIsFresh

LEMMA RecentBeforeWrapPrimed == SessionInv' /\ NoWrap' => ValidKnown'
<1>1. SessionInv /\ NoWrap => ValidKnown
  BY RecentBeforeWrap
<1>. QED BY <1>1, PTL

\* A login that takes the slot of an accepted token takes the one used longest ago,
\* and only when every slot is live.
LEMMA EvictedIsOldest ==
  ASSUME SessionInv, NoWrap, NEW i \in Allocated, sessions[i].used, Valid(sessions[i].token),
         sessions[i].token \in Token
  PROVE  /\ \A j \in Session : Live(sessions[j])
         /\ \A u \in Token : Valid(u) => seen[sessions[i].token] <= seen[u]
<1>0. /\ SlotsRecent /\ ValidKnown
      /\ \A j \in Session : sessions[j].used => sessions[j].last = seen[sessions[j].token]
      /\ \A t \in Token : seen[t] < ClockMod - 1
  BY RecentBeforeWrap
<1>1. i \in Session
  BY AllocatedSlot
<1>2. Live(sessions[i])
  BY <1>0, <1>1, LiveIsFresh DEF ValidKnown
<1>3. /\ \A j \in Session : Live(sessions[j])
      /\ \A j \in Session :
           sessions[j].last < ClockMod - 1 => sessions[i].last <= sessions[j].last
  BY <1>2, AllocatedSlot
<1>4. ASSUME NEW u \in Token, Valid(u) PROVE seen[sessions[i].token] <= seen[u]
  <2>1. PICK j \in Session : sessions[j].used /\ sessions[j].token = u
    BY <1>0, <1>4 DEF ValidKnown
  <2>. QED BY <1>0, <1>1, <1>3, <2>1
<1>. QED BY <1>3, <1>4

\* A session that is accepted stays so through a step, unless it expires, is logged out
\* or is evicted as the least recently used of a full table.
THEOREM SessionEndsOnlyForAReason == Spec /\ []NoWrap => SessionEndsForAReason
<1>. DEFINE Evicted(t) == /\ FinishLogin
                          /\ \A i \in Session : Live(sessions[i])
                          /\ \A u \in Token : Valid(u) => seen[t] <= seen[u]
<1>1. ASSUME SessionInv, SessionInv', NoWrap, NoWrap', [Next]_vars, NEW t \in Token, Valid(t), ~Valid(t)',
             ~(uptime' - seen[t] > TTL), ~Logout(t)
      PROVE  Evicted(t)
  <2>0. ValidKnown /\ ValidKnown' /\ sessions \in Sessions /\ seen \in [Token -> 0 .. MaxUptime]
    BY <1>1, RecentBeforeWrap, RecentBeforeWrapPrimed DEF SessionInv, SessionsTyped
  <2>1. PICK i \in Session : sessions[i].used /\ sessions[i].token = t
    BY <1>1, <2>0 DEF ValidKnown
  <2>2. t \in issued /\ Holds(t)
    BY <1>1, <2>1 DEF SessionInv, SessionsKnown, Holds
  <2>3. /\ seen'[t] = seen[t] \/ Validate(t)
        /\ uptime \in Nat /\ uptime' \in Nat /\ seen[t] \in Nat
    BY <1>1, <2>2, TokenKept
  <2>4. uptime' - seen'[t] <= TTL
    <3>1. CASE seen'[t] = seen[t]
      BY <1>1, <2>3, <3>1, TimeAssumption
    <3>2. CASE Validate(t)
      <4>1. seen'[t] = uptime /\ uptime' = uptime
        BY <1>1, <2>0, <3>2 DEF Validate
      <4>. QED BY <2>3, <4>1, TimeAssumption
    <3>. QED BY <2>3, <3>1, <3>2
  <2>5. ~Holds(t)'
    BY <1>1, <2>0, <2>4 DEF ValidKnown, Holds
  <2>6. sessions' # sessions
    BY <2>2, <2>5 DEF Holds
  <2>7. ASSUME NEW u \in Token, Validate(u) PROVE FALSE
    BY <1>1, <2>2, <2>5, <2>7, SessionRenewed
  <2>8. ASSUME NEW u \in Token, Logout(u) PROVE FALSE
    BY <1>1, <2>2, <2>5, <2>8, SessionFreed
  <2>9. FinishLogin
    BY <1>1, <2>6, <2>7, <2>8 DEF Next, BeginLogin, Tick, vars
  <2>10. PICK k : PassLogin(k) \/ FailLogin(k)
    BY <2>9 DEF FinishLogin
  <2>11. PICK s \in Allocated, u \in Token \ issued :
           sessions' = [sessions EXCEPT ![s] = [used |-> TRUE, token |-> u, last |-> now]]
    BY <2>6, <2>10 DEF PassLogin, FailLogin
  <2>12. s = i
    BY <2>0, <2>1, <2>2, <2>5, <2>11 DEF Holds, Sessions
  <2>. QED BY <1>1, <2>1, <2>9, <2>12, EvictedIsOldest
<1>2. SessionInv /\ SessionInv' /\ NoWrap /\ NoWrap' /\ [Next]_vars =>
        [ \A t \in Token : Valid(t) /\ ~Valid(t)' =>
            \/ uptime' - seen[t] > TTL
            \/ Logout(t)
            \/ /\ FinishLogin
               /\ \A i \in Session : Live(sessions[i])
               /\ \A u \in Token : Valid(u) => seen[t] <= seen[u] ]_vars
  BY <1>1
<1>. QED BY InductiveInvariant, <1>2, PTL DEF Spec, SessionEndsForAReason

\* Nobody is locked out but by MaxAttempts failures of its own within one window,
\* with no success in between.
THEOREM LockoutAlwaysEarned == Spec /\ []NoWrap => LockoutEarned
<1>1. LimitInv /\ NoWrap /\ [Next]_vars =>
        [ \A k \in Key : lockedOut'[k] # lockedOut[k] =>
            /\ Len(failures'[k]) = MaxAttempts
            /\ uptime - failures'[k][1] <= Window ]_vars
  <2>. SUFFICES ASSUME LimitInv, NoWrap, Next, NEW o \in Key, lockedOut'[o] # lockedOut[o]
               PROVE  Len(failures'[o]) = MaxAttempts /\ uptime - failures'[o][1] <= Window
    OBVIOUS
  <2>0. TypeOK /\ LimitsKnown /\ LoginAllowed
    BY DEF LimitInv
  <2>1. ~FinishLogin => lockedOut' = lockedOut
    BY DEF Next, BeginLogin, Validate, Logout, Tick, history
  <2>2. PICK k \in Key : /\ lockedOut[k] <= uptime /\ uptime' = uptime
                         /\ PassLogin(k) \/ FailLogin(k)
    BY <2>0, <2>1, FinishingLogin
  <2>3. FailLogin(k)
    BY <2>2 DEF PassLogin
  <2>. QED BY <2>0, <2>2, <2>3, FailRecorded
<1>. QED BY InductiveInvariant, <1>1, PTL DEF Spec, LockoutEarned

-----------------------------------------------------------------------------
(* A limiter with a slot for every key. *)

WideRecord == [used : BOOLEAN, ip : Key, start : Clock, attempts : Nat, until : Clock]

\* What the limiter keeps across a wrap: its types but for the bound on attempts, and
\* one slot for a key.
SlotsKeyed ==
  /\ login \in [client : Client, ok : BOOLEAN] \cup {Idle}
  /\ limits \in [Limit -> WideRecord]
  /\ OneSlotPerKey

\* The slot a login works on belongs to its key, and stays so when the outcome is
\* recorded.
LEMMA RecordedUnderKey ==
  ASSUME SessionInv, SlotsKeyed, NEW k \in Key, NEW i \in Acquired(k)
  PROVE  /\ i \in Limit
         /\ \A rl \in {Failed(Claimed(i, k)), Succeeded(Claimed(i, k))} :
              rl \in WideRecord /\ rl.used /\ rl.ip = k
<1>. DEFINE c == Claimed(i, k)
<1>0. /\ now \in Clock /\ 0 \in Clock /\ 0 \in Nat /\ Unknown \in Key
      /\ (now + Lockout) % ClockMod \in Clock
  <2>1. now \in Clock /\ ClockMod \in Nat \ {0} /\ now \in Nat
    BY NowInClock DEF SessionInv, SessionsTyped, Clock
  <2>2. now + Lockout \in Nat
    BY <2>1, TimeAssumption
  <2>3. (now + Lockout) % ClockMod \in Clock /\ 0 \in Clock
    BY <2>1, <2>2, DivisionParts DEF Clock
  <2>. QED BY <2>1, <2>3 DEF Key
<1>1. i \in Limit /\ limits[i] \in WideRecord
  BY AcquiredSlot DEF SlotsKeyed
<1>2. c \in WideRecord /\ c.used /\ c.ip = k
  <2>1. CASE i \in SlotsOfKey(k)
    BY <1>1, <2>1 DEF Claimed, SlotsOfKey
  <2>2. CASE i \notin SlotsOfKey(k)
    BY <1>0, <2>2 DEF Claimed, FreeLimit, WideRecord
  <2>. QED BY <2>1, <2>2
<1>. HIDE DEF c
<1>3. LET rl == Succeeded(c) IN rl \in WideRecord /\ rl.used /\ rl.ip = k
  BY <1>0, <1>2 DEF Succeeded, WideRecord
<1>4. LET rl == Failed(c) IN rl \in WideRecord /\ rl.used /\ rl.ip = k
  <2>. DEFINE w == IF RestartsWindow(c) THEN [c EXCEPT !.start = now, !.attempts = 0] ELSE c
  <2>1. w \in WideRecord /\ w.used /\ w.ip = k /\ w.attempts + 1 \in Nat
    <3>1. w \in WideRecord /\ w.used /\ w.ip = k
      <4>1. CASE RestartsWindow(c)
        BY <1>0, <1>2, <4>1 DEF WideRecord
      <4>2. CASE ~RestartsWindow(c)
        BY <1>2, <4>2
      <4>. QED BY <4>1, <4>2
    <3>. HIDE DEF w
    <3>. QED BY <3>1 DEF WideRecord
  <2>2. Failed(c) = IF w.attempts + 1 >= MaxAttempts
                    THEN [w EXCEPT !.attempts = w.attempts + 1, !.until = (now + Lockout) % ClockMod]
                    ELSE [w EXCEPT !.attempts = w.attempts + 1]
    BY DEF Failed
  <2>. HIDE DEF w
  <2>. DEFINE n == w.attempts + 1
              u == (now + Lockout) % ClockMod
  <2>3. n \in Nat /\ u \in Clock
    BY <1>0, <2>1
  <2>4. Failed(c) \in {[w EXCEPT !.attempts = n, !.until = u], [w EXCEPT !.attempts = n]}
    BY <2>2
  <2>. HIDE DEF n, u
  <2>. QED BY <2>1, <2>3, <2>4 DEF WideRecord
<1>. QED BY <1>1, <1>3, <1>4 DEF c

LEMMA InitSlotsKeyed == Init => SlotsKeyed
<1>1. 0 \in Clock /\ Unknown \in Key
  BY TimeAssumption DEF Clock, Key
<1>. QED BY <1>1 DEF Init, SlotsKeyed, OneSlotPerKey, WideRecord, FreeLimit

LEMMA StepSlotsKeyed == SlotsKeyed /\ SessionInv /\ [Next]_vars => SlotsKeyed'
<1>. SUFFICES ASSUME SlotsKeyed, SessionInv, [Next]_vars PROVE SlotsKeyed'
  OBVIOUS
<1>1. CASE UNCHANGED <<login, limits>>
  BY <1>1 DEF SlotsKeyed, OneSlotPerKey
<1>2. ASSUME NEW c \in Client, NEW ok \in BOOLEAN, BeginLogin(c, ok) PROVE SlotsKeyed'
  BY <1>2 DEF BeginLogin, SlotsKeyed, OneSlotPerKey
<1>3. ASSUME FinishLogin PROVE SlotsKeyed'
  <2>. DEFINE k == limit_key(login.client)
  <2>1. k \in Key /\ login' = Idle /\ (PassLogin(k) \/ FailLogin(k))
    BY <1>3, KeyOfClient DEF FinishLogin, SlotsKeyed
  <2>. HIDE DEF k
  <2>2. CASE limits' = limits
    BY <2>1, <2>2 DEF SlotsKeyed, OneSlotPerKey
  <2>3. ASSUME NEW i \in Acquired(k), NEW rl \in {Failed(Claimed(i, k)), Succeeded(Claimed(i, k))},
               limits' = [limits EXCEPT ![i] = rl]
        PROVE  SlotsKeyed'
    <3>1. i \in Limit /\ rl \in WideRecord /\ rl.used /\ rl.ip = k
      BY <2>1, <2>3, RecordedUnderKey
    <3>2. limits' \in [Limit -> WideRecord]
          /\ \A j \in Limit : limits'[j] = IF j = i THEN rl ELSE limits[j]
      BY <2>3, <3>1 DEF SlotsKeyed
    <3>3. \A j \in Limit : j # i /\ limits[j].used => limits[j].ip # k
      BY AcquiredSlot DEF SlotsKeyed, OneSlotPerKey, SlotsOfKey
    <3>4. OneSlotPerKey'
      BY <3>1, <3>2, <3>3 DEF SlotsKeyed, OneSlotPerKey
    <3>. QED BY <2>1, <3>2, <3>4 DEF SlotsKeyed
  <2>. QED BY <2>1, <2>2, <2>3 DEF PassLogin, FailLogin
<1>4. ASSUME NEW t \in Token, Validate(t) \/ Logout(t) PROVE UNCHANGED <<login, limits>>
  BY <1>4 DEF Validate, Logout
<1>5. Tick \/ UNCHANGED vars => UNCHANGED <<login, limits>>
  BY DEF Tick, vars
<1>. QED BY <1>1, <1>2, <1>3, <1>4, <1>5 DEF Next

\* A key that has no slot while every slot is taken is one more than there are slots.
LEMMA SlotForEveryKey ==
  ASSUME SlotsKeyed, IsFiniteSet(Key), Cardinality(Key) <= LimitSlots, NEW k \in Key
  PROVE  Acquired(k) # {}
<1>. SUFFICES ASSUME Acquired(k) = {} PROVE FALSE
  OBVIOUS
<1>. DEFINE others == Key \ {k}
            holder == [i \in Limit |-> limits[i].ip]
<1>1. SlotsOfKey(k) = {} /\ \A i \in Limit : limits[i].used
  BY OwnSlotAcquired DEF Acquired, Unused
<1>2. \A i \in Limit : limits[i].ip \in others
  BY <1>1 DEF SlotsKeyed, WideRecord, SlotsOfKey
<1>3. holder \in Injection(Limit, others)
  BY <1>1, <1>2 DEF Injection, IsInjective, SlotsKeyed, OneSlotPerKey
<1>4. IsFiniteSet(others) /\ Cardinality(others) = Cardinality(Key) - 1
  BY FS_RemoveElement
<1>5. Cardinality(Limit) <= Cardinality(others)
  BY <1>3, <1>4, FS_Injection
<1>6. Cardinality(Limit) = LimitSlots
  BY FS_Interval, SlotAssumption DEF Limit
<1>. QED BY <1>4, <1>5, <1>6, FS_CardinalityType, SlotAssumption

\* With a slot for every key each outcome of a login finds a slot to be recorded in,
\* however long the device runs.  Hence no session is issued unrecorded: what run
\* MCAuthFull shows takes more keys than slots.
THEOREM NeverSaturated ==
  ASSUME IsFiniteSet(Key), Cardinality(Key) <= LimitSlots
  PROVE  Spec => [](\A k \in Key : Acquired(k) # {})
<1>1. SlotsKeyed => \A k \in Key : Acquired(k) # {}
  BY SlotForEveryKey
<1>. QED BY InitSlotsKeyed, StepSlotsKeyed, SessionInvariant, <1>1, PTL DEF Spec
=============================================================================
