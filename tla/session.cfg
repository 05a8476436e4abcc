SPECIFICATION LiveSpec
CONSTANTS
  Names = {1, 2}
  Ids = {1, 2, 3}
  NameOf <- MCNameOf
  Transparent = {2}
  Refused = {}
  Faults = {"cut", "silence", "death", "activation", "stop"}
  MaxEdits = 2
  MaxFaults = 2
INVARIANT SessionTypeOK
INVARIANT EndpointsOwned
INVARIANT VerdictsMatch
INVARIANT ActiveIsBacked
PROPERTY SessionSettles
CHECK_DEADLOCK FALSE
