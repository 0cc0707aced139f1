CONSTANTS
  GRANULARITY_SECONDS = 2
  I64_MAX = 7
  NITRO_ROOT_G1 <- MCNitroRoot
  WEBPKI_ROOTS = {"root"}
  PcrArgs <- MCPcrArgs
  Files = {"bundle", "text", "absent"}
  DocumentPcrs <- MCDocumentPcrs
  Skews <- MCSkews
  Leaf <- MCLeaf
  Times = {0, 1, 3, 6, 7}
SPECIFICATION Spec
CHECK_DEADLOCK FALSE
INVARIANT TimesMeetLimits
INVARIANT LimitsSuffice
INVARIANT ImageIsPinned
