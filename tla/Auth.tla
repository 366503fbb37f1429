-------------------------------- MODULE Auth --------------------------------
(***************************************************************************)
(* auth.c: the session table and the login limiter.  Both tables are       *)
(* small, slots are reused, and every expiry is computed from the 32-bit   *)
(* millisecond counter utils_millis(), which wraps after 49.7 days.        *)
(*                                                                         *)
(* Requests are served by the one HTTP server task.  A login looks at the  *)
(* limiter, then hashes, then takes the lock again to record the outcome,  *)
(* so time may pass in between; every other call is one critical section.  *)
(* Tokens come from the hardware generator and are taken to be fresh.      *)
(***************************************************************************)
EXTENDS Integers, Sequences, FiniteSetsExt

CONSTANTS
  Client,       \* peers that may log in
  Unresolved,   \* those whose address cannot be resolved
  Unknown,      \* the bucket they share ("?unknown")
  Token,        \* session tokens the generator may still produce
  NoToken,      \* the token of a free slot
  Idle,         \* no login in progress
  MaxSessions,  \* NEXUS_MAX_SESSIONS
  LimitSlots,   \* LIMIT_SLOTS
  TTL,          \* NEXUS_SESSION_TTL_S, in clock units as the next three
  Window,       \* NEXUS_LOGIN_WINDOW_S
  Lockout,      \* NEXUS_LOGIN_LOCKOUT_S
  ClockMod,     \* the counter's modulus
  MaxAttempts,  \* NEXUS_LOGIN_MAX_ATTEMPTS
  MaxUptime     \* bound of the model on time

ASSUME SlotAssumption == MaxSessions \in Nat \ {0} /\ LimitSlots \in Nat \ {0}
ASSUME TimeAssumption ==
  /\ TTL \in Nat \ {0} /\ Window \in Nat \ {0} /\ Lockout \in Nat /\ Window < Lockout
  /\ ClockMod \in Nat /\ TTL < ClockMod /\ Window < ClockMod /\ Lockout < ClockMod
  /\ MaxUptime \in Nat
ASSUME AttemptAssumption == MaxAttempts \in Nat \ {0}
ASSUME NameAssumption ==
  Unresolved \subseteq Client /\ Unknown \notin Client /\ NoToken \notin Token

VARIABLES
  uptime,     \* milliseconds since boot, never wrapping
  sessions,   \* s_sessions
  limits,     \* s_limits
  login,      \* the login in progress: client and whether the credentials are right
  issued,     \* history: tokens handed out
  seen,       \* history: uptime of the last request with each token
  lockedOut,  \* history: uptime until which each key is locked out
  failures    \* history: uptimes of each key's latest failures in a row

history == <<issued, seen, lockedOut, failures>>
vars == <<uptime, sessions, limits, login, history>>

Session == 1 .. MaxSessions
Limit == 1 .. LimitSlots
Key == (Client \ Unresolved) \cup {Unknown}
Clock == 0 .. ClockMod - 1

FreeSession == [used |-> FALSE, token |-> NoToken, last |-> 0]
FreeLimit == [used |-> FALSE, ip |-> Unknown, start |-> 0, attempts |-> 0, until |-> 0]

\* utils_millis
now == uptime % ClockMod

Since(t) == (now - t) % ClockMod

-----------------------------------------------------------------------------
(* Lookups. *)

\* limit_key
limit_key(c) == IF c \in Unresolved THEN Unknown ELSE c

session_expired_Never(s) == FALSE  \* mutant
session_expired(s) == Since(s.last) > TTL

Live(s) == s.used /\ ~session_expired(s)

\* The slots a token is accepted by; the loops of auth_validate_session,
\* auth_peek_session and auth_validate_csrf stop at the first.
SlotsOf(token) == {i \in Session : Live(sessions[i]) /\ sessions[i].token = token}
Valid(token) == SlotsOf(token) # {}

\* limit_find_locked
SlotsOfKey(key) == {i \in Limit : limits[i].used /\ limits[i].ip = key}

InLockout(rl) == rl.until # 0 /\ now < rl.until

\* auth_is_rate_limited: only looks, never claims a slot.
RateLimited(key) == \E i \in SlotsOfKey(key) : InLockout(limits[i])

\* limit_acquire_locked: the key's own slot, else the first free one, else the
\* one with the oldest window (the last of them) that serves no lockout.
\* Empty when every slot serves a lockout.
Evictable_Any == Limit  \* mutant: lockouts are evicted like anything else
Evictable == {i \in Limit : ~InLockout(limits[i])}

Unused == {i \in Limit : ~limits[i].used}

Acquired(key) ==
  IF SlotsOfKey(key) # {} THEN {Min(SlotsOfKey(key))}
  ELSE IF Unused # {} THEN {Min(Unused)}
  ELSE LET Oldest == {i \in Evictable : \A j \in Evictable : limits[i].start <= limits[j].start}
       IN IF Oldest = {} THEN {} ELSE {Max(Oldest)}

Claimed(i, key) ==
  IF i \in SlotsOfKey(key) THEN limits[i]
  ELSE [FreeLimit EXCEPT !.used = TRUE, !.ip = key, !.start = now]

\* record_attempt_locked on the slot rl.
RestartsWindow_Never(rl) == FALSE  \* mutant: attempts add up for ever
RestartsWindow(rl) == Since(rl.start) > Window

Failed(rl) ==
  LET w == IF RestartsWindow(rl) THEN [rl EXCEPT !.start = now, !.attempts = 0] ELSE rl
      n == w.attempts + 1
  IN IF n >= MaxAttempts
     THEN [w EXCEPT !.attempts = n, !.until = (now + Lockout) % ClockMod]
     ELSE [w EXCEPT !.attempts = n]

Succeeded(rl) == [rl EXCEPT !.attempts = 0, !.until = 0, !.start = now]

\* alloc_session_locked: the first slot free or expired, else the first of the
\* least recently used.  The search starts from 0xFFFFFFFF and takes only
\* smaller times, so it can come back empty-handed.
Vacant == {i \in Session : ~Live(sessions[i])}
Used_NewestFirst(i, j) == sessions[i].last >= sessions[j].last  \* mutant
UsedBefore(i, j) == sessions[i].last <= sessions[j].last

Allocated ==
  IF Vacant # {} THEN {Min(Vacant)}
  ELSE LET Candidates == {i \in Session : sessions[i].last < ClockMod - 1}
           Oldest == {i \in Candidates : \A j \in Candidates : UsedBefore(i, j)}
       IN IF Oldest = {} THEN {} ELSE {Min(Oldest)}

-----------------------------------------------------------------------------
Init ==
  /\ uptime = 0
  /\ sessions = [i \in Session |-> FreeSession]
  /\ limits = [i \in Limit |-> FreeLimit]
  /\ login = Idle
  /\ issued = {}
  /\ seen = [t \in Token |-> 0]
  /\ lockedOut = [k \in Key |-> 0]
  /\ failures = [k \in Key |-> <<>>]

\* auth_login up to the hash: a client that is locked out is turned away.
BeginLogin(c, ok) ==
  /\ login = Idle
  /\ ~RateLimited(limit_key(c))
  /\ login' = [client |-> c, ok |-> ok]
  /\ UNCHANGED <<uptime, sessions, limits, history>>

LatestFailures(key) ==
  LET s == Append(failures[key], uptime) IN
  IF Len(s) > MaxAttempts THEN Tail(s) ELSE s

FailLogin(key) ==
  /\ \/ Acquired(key) = {} /\ UNCHANGED <<limits, lockedOut>>
     \/ \E i \in Acquired(key) :
          LET rl == Failed(Claimed(i, key)) IN
          /\ limits' = [limits EXCEPT ![i] = rl]
          /\ lockedOut' = IF rl.attempts >= MaxAttempts
                          THEN [lockedOut EXCEPT ![key] = uptime + Lockout] ELSE lockedOut
  /\ failures' = [failures EXCEPT ![key] = LatestFailures(key)]
  /\ UNCHANGED <<sessions, issued, seen>>

\* A session is issued whatever the limiter answered.
PassLogin(key) ==
  /\ \/ Acquired(key) = {} /\ UNCHANGED limits
     \/ \E i \in Acquired(key) : limits' = [limits EXCEPT ![i] = Succeeded(Claimed(i, key))]
  /\ failures' = [failures EXCEPT ![key] = <<>>]
  /\ \/ Allocated = {} /\ UNCHANGED <<sessions, issued, seen>>
     \/ \E i \in Allocated, t \in Token \ issued :
          /\ sessions' = [sessions EXCEPT ![i] = [used |-> TRUE, token |-> t, last |-> now]]
          /\ issued' = issued \cup {t}
          /\ seen' = [seen EXCEPT ![t] = uptime]
  /\ UNCHANGED lockedOut

FinishLogin ==
  /\ login # Idle
  /\ IF login.ok THEN PassLogin(limit_key(login.client)) ELSE FailLogin(limit_key(login.client))
  /\ login' = Idle
  /\ UNCHANGED uptime

\* Mutant: the expiry is slid before it is looked at.
Validate_Expired(t) ==
  /\ login = Idle
  /\ \E i \in Session :
       /\ sessions[i].used /\ sessions[i].token = t
       /\ sessions' = [sessions EXCEPT ![i].last = now]
  /\ seen' = [seen EXCEPT ![t] = uptime]
  /\ UNCHANGED <<uptime, limits, login, issued, lockedOut, failures>>

\* auth_validate_session on a valid token slides its expiry.
Validate(t) ==
  /\ login = Idle
  /\ Valid(t)
  /\ sessions' = [sessions EXCEPT ![Min(SlotsOf(t))].last = now]
  /\ seen' = [seen EXCEPT ![t] = uptime]
  /\ UNCHANGED <<uptime, limits, login, issued, lockedOut, failures>>

\* auth_logout: expired or not.
Logout(t) ==
  /\ login = Idle
  /\ \E i \in Session :
       /\ sessions[i].used /\ sessions[i].token = t
       /\ sessions' = [sessions EXCEPT ![i] = FreeSession]
  /\ UNCHANGED <<uptime, limits, login, history>>

Tick ==
  /\ uptime < MaxUptime
  /\ uptime' = uptime + 1
  /\ UNCHANGED <<sessions, limits, login, history>>

Next ==
  \/ \E c \in Client, ok \in BOOLEAN : BeginLogin(c, ok)
  \/ FinishLogin
  \/ \E t \in Token : Validate(t) \/ Logout(t)
  \/ Tick

Spec == Init /\ [][Next]_vars

-----------------------------------------------------------------------------
(* Properties. *)

\* Every variable keeps its type.
TypeOK ==
  /\ uptime \in 0 .. MaxUptime
  /\ sessions \in [Session -> [used : BOOLEAN, token : Token \cup {NoToken}, last : Clock]]
  /\ limits \in [Limit -> [used : BOOLEAN, ip : Key, start : Clock,
                           attempts : 0 .. MaxAttempts, until : Clock]]
  /\ login \in [client : Client, ok : BOOLEAN] \cup {Idle}
  /\ issued \subseteq Token
  /\ seen \in [Token -> 0 .. MaxUptime]
  /\ lockedOut \in [Key -> 0 .. MaxUptime + Lockout]
  /\ failures \in [Key -> Seq(0 .. MaxUptime)]

\* A token is accepted only if a request used it within the last TTL.
SessionFresh == \A t \in Token : Valid(t) => t \in issued /\ uptime - seen[t] <= TTL

\* A token that was turned away once is turned away for ever.
SessionNotRevived == [][ \A t \in issued : ~Valid(t) => ~Valid(t)' ]_vars

\* A session ends in three ways only: unused for TTL, logged out, or evicted
\* by a login that found every slot live, as the least recently used.
SessionEndsForAReason ==
  [][ \A t \in Token : Valid(t) /\ ~Valid(t)' =>
        \/ uptime' - seen[t] > TTL
        \/ Logout(t)
        \/ /\ FinishLogin
           /\ \A i \in Session : Live(sessions[i])
           /\ \A u \in Token : Valid(u) => seen[t] <= seen[u] ]_vars

\* A key is turned away exactly while its lockout lasts: other clients' logins
\* and slot reuse never end one early, and none outlives its term.
LockoutExact == \A k \in Key : RateLimited(k) <=> uptime < lockedOut[k]

\* A lockout is engaged only by MaxAttempts failures of that key within one
\* login window, with no success in between.
LockoutEarned ==
  [][ \A k \in Key : lockedOut'[k] # lockedOut[k] =>
        /\ Len(failures'[k]) = MaxAttempts
        /\ uptime - failures'[k][1] <= Window ]_vars

\* A client with no slot while every slot serves a lockout counts as limited:
\* its login issues no session.
SaturatedRefused ==
  [][ FinishLogin /\ Acquired(limit_key(login.client)) = {} => issued' = issued ]_vars

=============================================================================
