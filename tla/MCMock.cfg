\* One connection under --mock-attestation, verified with the mock verifier.
CONSTANTS
  GRANULARITY_SECONDS = 2
  I64_MAX = 100
  NITRO_ROOT_G1 <- MCNitroRoot
  WEBPKI_ROOTS = {"root"}
  MaxTime = 4
  Buckets = {0, 2}
  Prices = {1, 2}
  TlsChains <- MCTlsChains
  AnswerHeads <- GoodHeads
  MalformedRows = {}
  MaxRows = 1
  OtherBodies = {}
  Conns = {c1}
  HttpRequests <- AllRequests
  MockAttestation = TRUE
  NsmDrifts = {0, 1}
  NsmLifetime = 1
  ReleasePcrs <- MCReleasePcrs
  OtherPcrs <- MCOtherPcrs
  MaxRestarts = 0
  MaxSkew = 1
  MaxFutureSkew = 1
  VerifierTimes = {0, 1, 2, 3, 4, 5, 6, 9}
  OnceArgs <- AllOnceArgs
  OtherRoot <- MCOtherRoot
  MaxOutside = 0
SPECIFICATION Spec
CHECK_DEADLOCK FALSE
INVARIANT ServedProofVerifies
INVARIANT DefaultProofIsFinal
