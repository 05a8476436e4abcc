SPECIFICATION LiveSpec
CONSTANTS
  Names = {1, 2}
  Ids = {1, 2, 3}
  NameOf <- MCNameOf
  Transparent = {}
  Refused = {}
  Faults = {"activation"}
  MaxEdits = 0
  MaxFaults = 1
CHECK_DEADLOCK FALSE
PROPERTIES ServedOrTold
