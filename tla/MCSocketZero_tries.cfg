SPECIFICATION Spec
CONSTANTS
  m1 = m1
  m2 = m2
  Modes = {m1}
  DesktopModes = {}
  Sockets = {1, 2}
  Tries = 3
  SequenceStart = 0
  RefusesReset = FALSE
  ModeCommands = {}
  ModeAnswers = {}
  MaxCalls = 6
  MaxTimeouts = 2
INVARIANTS
  TriesGuard
