CONSTANTS
  MAX_RETRY = 3
  TIMEOUT = 2
  CmdSize = 5
  Kinds = {"any", "prompt"}
  MaxText = 2
SPECIFICATION Spec
INVARIANTS TypeOK LineFits CmdModeOnlyInCommand ResultAsHeard OkIsOursIfPrompt
PROPERTIES BootEnds BootConnects
