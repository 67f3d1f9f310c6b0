SPECIFICATION Spec
CONSTANTS
  Slots = {1, 2}
  MaxRecordId = 4
  MaxVersion = 3
  HostUids <- MCHostUids
  Blank <- MCBlank
INVARIANTS
  TypeOK
  IdMapOneToOne
  NoLostEdit
  UidKept
  OneRecordPerId
PROPERTIES
  Converges
CHECK_DEADLOCK FALSE
