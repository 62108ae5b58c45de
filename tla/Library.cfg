\* A ring of three bytes, of which two values tell what came from where; two
\* connections, so that one may replace another; two packages on a connection,
\* and one connection of the decoder breaks.
CONSTANTS
  Size = 3
  Bytes = {0, 1}
  Data <- ShortAndLong
  Lengths <- SomeLengths
  Payloads <- SomePayloads
  PackageMax = 6
  MaxSent = 2
  MaxBreaks = 1
  NoConn = NoConn
  Conns = {c1, c2}
SPECIFICATION LibrarySpec
\* A sender may have no more to send; servers and clients are destroyed once.
CHECK_DEADLOCK FALSE
INVARIANTS TypesOK CopiesFit NothingLost
PROPERTIES AsFifo AsBlocks AllHandedOver ClosesItsOwn DestructorReturns CallsReturn
