\* Two connections and truthful answers: recombined bundles, restarts, documents made elsewhere.
CONSTANTS
  GRANULARITY_SECONDS = 2
  I64_MAX = 100
  NITRO_ROOT_G1 <- MCNitroRoot
  WEBPKI_ROOTS = {"root"}
  MaxTime = 3
  Buckets = {0}
  Prices = {1, 2}
  TlsChains <- OneTlsChain
  AnswerHeads <- GoodHeads
  MalformedRows = {}
  MaxRows = 1
  OtherBodies = {}
  Conns = {c1, c2}
  HttpRequests <- GoodRequests
  MockAttestation = FALSE
  NsmDrifts = {0}
  NsmLifetime = 1
  ReleasePcrs <- MCReleasePcrs
  OtherPcrs <- MCOtherPcrs
  MaxRestarts = 1
  MaxSkew = 1
  MaxFutureSkew = 1
  VerifierTimes = {0, 2, 4, 9}
  OnceArgs = {}
  OtherRoot <- MCOtherRoot
  MaxOutside = 0
SPECIFICATION Spec
CHECK_DEADLOCK FALSE
INVARIANT AcceptedWasObserved
INVARIANT AcceptedCandleIsFinal
PROPERTY ImplementsOracle
PROPERTY HistoricalProofsRemainVerifiable
SYMMETRY ConnSymmetry
