SPECIFICATION Spec
CONSTANTS
  Streams <- MCStreams
  max_msg_len = 30
INVARIANT EveryTrailerVerified
CHECK_DEADLOCK FALSE
