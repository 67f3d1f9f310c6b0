SPECIFICATION LoaderSpec
CONSTANTS
  m1 = m1
  Modes = {m1}
  DesktopModes = {}
  Loader = m1
  Sockets = {1, 2}
  Tries = 4
  SequenceStart = 254
  RefusesReset = FALSE
  ModeCommands <- LoaderCommands
  ModeAnswers <- LoaderAnswers
  MaxCalls = 7
  MaxTimeouts = 0
  MaxEntries = 2
  MaxPackets = 2
INVARIANTS
  LoaderTypeOK
  TriesGuard
  LoaderAndDeviceAgree
