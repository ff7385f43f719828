SPECIFICATION Spec
CONSTANTS
  Clients = {a, b}
  SpareNicks = {x}
  Chan = ch
  Commands = {"privmsg", "notice"}
  Sayings <- MCSayings
  Queries <- MCQueries
  Offers <- MCOffers
  TagLists <- MCTagLists
  Width <- MCWidth
  UserLength = 1
  UserShown = 1
  Hosts = {1, 3}
  FirstHost <- MCFirstHost
  HostDefault = 2
  MaxLength = 26
  MaxSaid = 2
  MaxChanges = 2
SYMMETRY MCSymmetry
CHECK_DEADLOCK FALSE
INVARIANTS
  TextArrives
  EchoIsOwn
  AnsweredOnce
  DataArrives
