SPECIFICATION Spec
CONSTANTS
  NUL = "0"
  NotUtf8 = {"~"}
  NotText = {15}
  MaxI32 = 7
  FirstReserved = 3
  FirstUser = 4
  MaxI64 = 63
  Native <- MCNative
  AsF64 <- MCAsF64
  AsF32 <- MCAsF32
  TicksPerMs = 3
  UuidLen = 3
  IdLen = 2
  MaxDepth = 2
INVARIANT NarrowingRangeChecked
CHECK_DEADLOCK FALSE
