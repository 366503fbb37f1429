\* Violated once somebody reconfigures; keep one line to see its trace.
SPECIFICATION Spec
CONSTANTS
  home = home
  gone = gone
  Network <- TwoNetworks
  Reachable <- InRange
  NoNetwork = NoNetwork
  RetryMax = 2
  QueueLen = 4
  MaxReconfigs = 1
INVARIANT NeverStranded
INVARIANT ConnectedReportTruthful
INVARIANT FallbackGuarded
PROPERTY OwnDisconnectIgnored
\* With the network settled and no request left, nothing happens any more.
CHECK_DEADLOCK FALSE
