\* Three calls of connect() by a caller that awaits each, on a runtime that
\* ends the read of a closed connection at once (Deno, Node).
SPECIFICATION Spec
CONSTANTS
  Conn = {c1, c2, c3}
  NoConn = null
  Host = {a, b}
  NoHost = none
  Command = {msg}
  MaxLines = 1
  SerialConnect = TRUE
  PromptClose = TRUE
  SilentErrors = {"connect", "read", "write"}
  OnConnected = {"throw", "disconnect"}
  OnClose = {"throw", "listener", "bytes"}
INVARIANTS OneConnection ConnectionIsRead
PROPERTIES LoopClosesItsOwn NoSilentChange AddressIsServers EndIsNoticed
