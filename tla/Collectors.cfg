\* Any two requests, of two channels and a nick, with a connection lost in between.
SPECIFICATION Spec
CONSTANTS
  Channel = {x, y}
  Nick = {n}
  Token = {1}
  Field = {x, y, 1}
  Server <- MCServer
  MaxConnections = 2
  MaxRequests = 2
  MaxParts = 2
  MaxAways = 1
SYMMETRY MCSymmetry
INVARIANTS RepliesAreExact UserhostsFollowNames
CHECK_DEADLOCK FALSE
