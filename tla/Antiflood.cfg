\* Three messages and one with tags, a delay of two ticks, a connection lost twice.
SPECIFICATION FloodSpec
CONSTANTS
  Task = {m1, m2, m3}
  Concurrency = 1
  Delay = 2
  MaxEnds = 2
  Tagged = {l1}
INVARIANT SlotsExact
PROPERTIES IsFifoServer SpacedInOrder UsesQueue
\* Every message may have been sent.
CHECK_DEADLOCK FALSE
