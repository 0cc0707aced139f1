CONSTANTS
  Byte = {"SP", "CR", "LF", "?", "G", "/", "a", "H", "1", "x", "b", "h", "C3", "A9"}
  BUF = 4
  MAX_REQUEST_BYTES = 14
  Requests <- MC_Requests
SPECIFICATION Spec
CHECK_DEADLOCK FALSE
INVARIANT ActsOnWhatWasAsked
INVARIANT ShortRequestIsTaken
INVARIANT BufferIsBounded
