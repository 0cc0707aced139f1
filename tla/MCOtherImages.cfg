\* One client, the enclave restarted on another image, and documents made outside the release enclave.
CONSTANTS
  GRANULARITY_SECONDS = 2
  I64_MAX = 100
  NITRO_ROOT_G1 <- MCNitroRoot
  WEBPKI_ROOTS = {"root"}
  MaxTime = 3
  Buckets = {0}
  Prices = {1, 2}
  TlsChains <- OneTlsChain
  AnswerHeads <- GoodHeads
  MalformedRows = {}
  MaxRows = 1
  OtherBodies = {}
  Conns = {c1}
  HttpRequests <- GoodRequests
  MockAttestation = FALSE
  NsmDrifts = {0}
  NsmLifetime = 1
  ReleasePcrs <- MCReleasePcrs
  OtherPcrs <- MCOtherPcrs
  MaxRestarts = 1
  MaxSkew = 1
  MaxFutureSkew = 1
  VerifierTimes = {0, 2, 4, 9}
  OnceArgs = {}
  OtherRoot <- MCOtherRoot
  MaxOutside = 1
SPECIFICATION Spec
CHECK_DEADLOCK FALSE
INVARIANT AcceptedWasObserved
