\* Two events and a multi event of both; two plain listeners and two calls of
\* once(), emissions up to two deep.
SPECIFICATION EmitterSpec
CONSTANTS
  a = a
  b = b
  both = both
  Event = {a, b}
  Nobody = nobody
  Plain = {p, u}
  Wrapper = {w1}
  MaxListeners = 2
  MaxDepth = 2
  Multi <- Both
  Subscription <- Names
INVARIANTS EveryoneHears OnceIsOnce HandledIsNotThrown
