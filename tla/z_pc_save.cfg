SPECIFICATION Spec
CONSTANTS
  WordMod = 8
  ByteMod = 3
  Banks = 2
  LocalLimit = 1
  Globals <- MCGlobals
  RoutineHeader <- PcRoutines
  Instrs <- PcInstrs
  EvalMax = 0
  FrameMax = 1
  InitialPc = 0
  InitialGlobals <- PcInitialGlobals
  NoSave = NoSave
  Garbage <- MCGarbage
CHECK_DEADLOCK FALSE
INVARIANT InstructionsAgree
PROPERTY Implements
