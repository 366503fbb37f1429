SPECIFICATION FairSpec
CONSTANTS
  Rate = {20, 50}
  Gateway = {g1, g2}
  OwnGateway = own
  NoGateway = none
  MaxMoves = 4
  MaxSettings = 3
PROPERTY PingFollowsRate
