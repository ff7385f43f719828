\* Three nicks and two channels, two servers and two connections.
SPECIFICATION Spec
CONSTANTS
  Nick = {n1, n2, n3}
  Channel = {x, y}
  Profile <- MCProfile
  MaxConnections = 2
  MaxChanges = 4
SYMMETRY MCSymmetry
INVARIANTS NicklistFollows OwnNickIsKnown PrefixesFollowServer
CHECK_DEADLOCK FALSE
