SPECIFICATION FairSpec
CONSTANTS
  Rate = {20}
  Gateway = {g1, g2}
  OwnGateway = own
  NoGateway = none
  MaxMoves = 3
  MaxSettings = 0
PROPERTY PingsGateway
