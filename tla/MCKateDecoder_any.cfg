SPECIFICATION ListSpec
CONSTANT
  Packets <- MCPackets
INVARIANTS
  ActiveTogether
  SlotsAreActive
