SPECIFICATION Spec
CONSTANTS
  m1 = m1
  m2 = m2
  Modes = {m1, m2}
  DesktopModes = {m1}
  Sockets = {1, 2}
  Tries = 4
  SequenceStart = 254
  RefusesReset = TRUE
  ModeCommands = {}
  ModeAnswers = {}
  MaxCalls = 4
  MaxTimeouts = 2
PROPERTIES
  OpenedAtDevice
