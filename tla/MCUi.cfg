SPECIFICATION Spec
CONSTANTS
  Devices <- MCDevices
  Moves <- MCMoves
  Keys = {56}
  ps2_mode1_to_hid <- MCTable
  Width = 3
  Height = 2
  MaxEvents = 3
INVARIANTS
  Understood
  PointerFollows
CHECK_DEADLOCK FALSE
