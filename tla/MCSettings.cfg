\* Two tests, each with up to two settings of its own.
CONSTANTS
  MaxTests = 2
  MaxChosen = 2
SPECIFICATION Spec
INVARIANTS TypeOK ServerHasRequest ModesAreOpposite SocketServesRequest
CHECK_DEADLOCK FALSE
