SPECIFICATION FairSpec
CONSTANTS
  Slots = 2
  Fd = {f1, f2}
  NoFd = NoFd
  Token = {t1, t2}
  NoToken = NoToken
  MaxConns = 3
PROPERTIES OpenSocketIsServed
CHECK_DEADLOCK FALSE
