\* Two tests one after the other, up to two failures, two duplicates.
CONSTANTS
  Configs <- MCConfigs
  Fds = 12
  MaxTests = 2
  MaxFailures = 2
  MaxDuplicates = 2
  DefaultBuffer = 1
  MaxBuffer = 3
SPECIFICATION Spec
INVARIANTS
  TypeOK SelectIsValid HelloIsHeard StreamsArePaired LeaksAreFailures
  SocketsAreAsAsked
PROPERTIES SetupEnds
CHECK_DEADLOCK FALSE
