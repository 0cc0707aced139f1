CONSTANTS
  Byte <- MC_Byte
  USIZE_MAX = 255
  MAX_HEADERS = 2
  Bodies <- MC_Bodies
  HeadsFor <- MC_HeadsFor
  SizeLines <- MC_SizeLines
  Oversizes <- MC_Oversizes
  MaxChunks = 2
  MaxWire = 63
SPECIFICATION Spec
CHECK_DEADLOCK FALSE
INVARIANT BodyIsWhatWasSent
INVARIANT HonestBodyIsTaken
