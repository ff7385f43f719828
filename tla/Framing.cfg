\* Data events larger and smaller than the buffer; close() as on Node and as on Bun.
SPECIFICATION FrameSpec
CONSTANTS
  BufferLength = 3
  MaxData = 7
  MaxSent = 8
  Alphabet <- MCAlphabet
  Streams <- MCStreams
INVARIANTS WaitsForNews LinesArrive
PROPERTIES IsByteStream CloseEndsReads ReceivedIsEmitted
CHECK_DEADLOCK FALSE
