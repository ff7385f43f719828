\* Every dependency graph of three plugins.
SPECIFICATION LoaderSpec
CONSTANTS
  p1 = p1
  p2 = p2
  p3 = p3
  Plugin <- MCPlugin
  Graphs <- MCGraphs
  Requests <- MCRequests
INVARIANTS DepsFirst LoadsWhatIsNeeded
PROPERTY Terminates
CHECK_DEADLOCK FALSE
