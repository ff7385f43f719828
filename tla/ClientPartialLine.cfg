\* A connection ends in the middle of a line and another one is opened.
SPECIFICATION Spec
CONSTANTS
  Conn = {c1, c2}
  NoConn = null
  Host = {a}
  NoHost = none
  Command = {msg}
  MaxLines = 1
  SerialConnect = TRUE
  PromptClose = TRUE
  SilentErrors = {}
  OnConnected = {}
  OnClose = {}
INVARIANT LinesAreWhole
