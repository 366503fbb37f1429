\* Correct credentials while every limiter slot serves a lockout.
SPECIFICATION Spec
CONSTANTS
  alice = alice
  bob = bob
  carol = carol
  t1 = t1
  t2 = t2
  t3 = t3
  t4 = t4
  Client <- ThreeClients
  Unresolved <- LastUnresolved
  Unknown = Unknown
  Token <- OneToken
  NoToken = NoToken
  Idle = Idle
  MaxSessions = 1
  LimitSlots = 2
  TTL = 1
  Window = 1
  Lockout = 2
  ClockMod = 16
  MaxAttempts = 2
  MaxUptime = 3
PROPERTY SaturatedRefused
SYMMETRY ClientSymmetry
\* The model stops when time and tokens run out.
CHECK_DEADLOCK FALSE
