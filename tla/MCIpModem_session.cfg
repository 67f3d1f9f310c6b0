SPECIFICATION Spec
CONSTANTS
  right = right
  wrong = wrong
  none = none
  flag = flag
  byte = byte
  Flag = flag
  Bytes <- MCBytes
  Passwords = {right, wrong, none}
  RightPassword = right
  NoPassword = none
  Chunks <- MCChunks
  Prompts = {0, 1, 2}
  MinTries = 3
  MaxTries = 3
  MaxOpens = 2
  MaxFaults = 1
  MaxTimeouts = 1
  MaxData = 2
INVARIANTS
  TypeOK
  SerialData
  TriesSpared
  Framed
