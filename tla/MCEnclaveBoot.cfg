SPECIFICATION FairSpec
CONSTANTS
  Names <- MC_Names
  MAX_FQDN_BYTES = 4
  MaxLabelBytes = 2
  Retries = 2
  Backlog = 2
  MaxDeaths = 2
  MaxTerminations = 2
  NITRIDING_READY_RETRIES = 3
  RepeatStatuses = {200}
  MaxLosses = 2
INVARIANT TypeOK
INVARIANT NameIsServed
INVARIANT PublicMeansListening
PROPERTY NameArrives
PROPERTY ServiceComesUp
CHECK_DEADLOCK FALSE
