\* Every authentication method, two connections, servers with and without SASL.
SPECIFICATION Spec
CONSTANTS
  Cap = {"cap-notify", "sasl"}
  Requested = {"cap-notify"}
  Offers <- MCOffers
  Options <- MCOptions
  MaxConnections = 2
  MaxNotices = 1
INVARIANTS CapsFollowServer NegotiatesOrderly NeverUnauthenticated
PROPERTY Settles
CHECK_DEADLOCK FALSE
