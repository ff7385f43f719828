\* Every authentication method, two connections, servers with and without SASL.
SPECIFICATION Spec
CONSTANTS
  Cap = {"cap-notify", "sasl"}
  Requested = {"cap-notify"}
  Offers <- MCOffers
  Options <- MCOptions
  MaxConnections = 1
  MaxNotices = 1

PROPERTY FallsBack
CHECK_DEADLOCK FALSE
