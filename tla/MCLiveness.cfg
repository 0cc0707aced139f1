\* Two connections side by side: prove() returns, and lets go of /dev/nsm.
CONSTANTS
  GRANULARITY_SECONDS = 2
  I64_MAX = 100
  NITRO_ROOT_G1 <- MCNitroRoot
  WEBPKI_ROOTS = {"root"}
  MaxTime = 1
  Buckets = {0}
  Prices = {1}
  TlsChains <- OneTlsChain
  AnswerHeads <- AllHeads
  MalformedRows = {}
  MaxRows = 1
  OtherBodies = {}
  Conns = {c1, c2}
  HttpRequests <- GoodRequests
  MockAttestation = FALSE
  NsmDrifts = {0}
  NsmLifetime = 1
  ReleasePcrs <- MCReleasePcrs
  OtherPcrs <- MCOtherPcrs
  MaxRestarts = 1
  MaxSkew = 1
  MaxFutureSkew = 1
  VerifierTimes = {0, 2, 4, 9}
  OnceArgs <- DefaultArgs
  OtherRoot <- MCOtherRoot
  MaxOutside = 0
SPECIFICATION FairSpec
CHECK_DEADLOCK FALSE
INVARIANT NsmFdsAreHeld
PROPERTY ProveReturns
