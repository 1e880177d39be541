SPECIFICATION Spec
CONSTANTS
  CommandLines <- MCCommandLines
  Credentials <- MCCredentials
  NotWords <- MCNotWords
  TooLong <- MCTooLong
  UsersFile <- MCUsersFile
  Offsets <- MCOffsets
  MaxClock = 2
  MaxTests = 2
INVARIANTS
  OptionOrderIsIrrelevant
  SettingsAreUsable
  AuthorizationIsExact
CHECK_DEADLOCK FALSE
