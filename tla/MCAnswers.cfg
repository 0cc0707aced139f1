\* One connection, every answer Coinbase may give.
CONSTANTS
  GRANULARITY_SECONDS = 2
  I64_MAX = 100
  NITRO_ROOT_G1 <- MCNitroRoot
  WEBPKI_ROOTS = {"root"}
  MaxTime = 4
  Buckets = {0, 2}
  Prices = {1}
  TlsChains <- MCTlsChains
  AnswerHeads <- AllHeads
  MalformedRows <- AllMalformedRows
  MaxRows = 2
  OtherBodies <- AllOtherBodies
  Conns = {c1}
  HttpRequests <- AllRequests
  MockAttestation = FALSE
  NsmDrifts = {0, 1}
  NsmLifetime = 1
  ReleasePcrs <- MCReleasePcrs
  OtherPcrs <- MCOtherPcrs
  MaxRestarts = 0
  MaxSkew = 1
  MaxFutureSkew = 1
  VerifierTimes = {0, 1, 2, 3, 4, 5, 6, 9}
  OnceArgs <- AllOnceArgs
  OtherRoot <- MCOtherRoot
  MaxOutside = 0
SPECIFICATION Spec
CHECK_DEADLOCK FALSE
INVARIANT TypeOK
INVARIANT ServedProofVerifies
