\* Joins, losses, retries and the fallback, with reconfigurations racing them.
SPECIFICATION FairSpec
CONSTANTS
  home = home
  gone = gone
  Network <- TwoNetworks
  Reachable <- InRange
  NoNetwork = NoNetwork
  RetryMax = 8
  QueueLen = 4
  MaxReconfigs = 3
INVARIANTS ConnectedBitTruthful CommandsBounded ReachableIfLeftAlone
PROPERTIES FallbackEarned FallbackReached
\* With the network settled and no request left, nothing happens any more.
CHECK_DEADLOCK FALSE
