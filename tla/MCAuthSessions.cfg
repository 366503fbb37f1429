\* Sessions that are used, expire, are logged out and evicted, before the clock wraps.
SPECIFICATION Spec
CONSTANTS
  alice = alice
  bob = bob
  carol = carol
  t1 = t1
  t2 = t2
  t3 = t3
  t4 = t4
  Client <- OneClient
  Unresolved <- Nobody
  Unknown = Unknown
  Token <- FourTokens
  NoToken = NoToken
  Idle = Idle
  MaxSessions = 2
  LimitSlots = 1
  TTL = 2
  Window = 1
  Lockout = 2
  ClockMod = 16
  MaxAttempts = 2
  MaxUptime = 6
INVARIANTS TypeOK SessionFresh
PROPERTIES SessionNotRevived SessionEndsForAReason
SYMMETRY TokenSymmetry
\* The model stops when time and tokens run out.
CHECK_DEADLOCK FALSE
