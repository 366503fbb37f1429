\* Sessions and failed-login limits, before the clock wraps.
SPECIFICATION Spec
CONSTANTS
  alice = alice
  bob = bob
  carol = carol
  t1 = t1
  t2 = t2
  t3 = t3
  t4 = t4
  Client <- ThreeClients
  Unresolved <- LastUnresolved
  Unknown = Unknown
  Token <- ThreeTokens
  NoToken = NoToken
  Idle = Idle
  MaxSessions = 2
  LimitSlots = 2
  TTL = 2
  Window = 1
  Lockout = 2
  ClockMod = 16
  MaxAttempts = 2
  MaxUptime = 5
INVARIANTS SessionFresh LockoutExact
PROPERTIES SessionNotRevived SessionEndsForAReason LockoutEarned
SYMMETRY Symmetry
CONSTRAINT Slices
\* The model stops when time and tokens run out.
CHECK_DEADLOCK FALSE
