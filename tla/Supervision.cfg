\* One connect() by the application and one by the plugin: either connection may
\* fail, end, be closed or go silent.
SPECIFICATION SupervisionSpec
CONSTANTS
  Conn = {c1, c2, c3}
  NoConn = null
  Host = {a}
  NoHost = none
  Command = {"error", "welcome"}
  MaxLines = 1
  SerialConnect = TRUE
  PromptClose = TRUE
  SilentErrors = {}
  OnConnected = {"throw", "disconnect"}
  OnClose = {"throw"}
  ListenersDisconnect = FALSE
  Attempts = 2
  Exponential = FALSE
  ApplicationConnects = 1
INVARIANTS GivesUp TimersFollowStarted
PROPERTIES RecoversOrGivesUp TimeoutHitsPinged SilenceIsNoticed
