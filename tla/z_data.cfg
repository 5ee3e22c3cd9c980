SPECIFICATION Spec
CONSTANTS
  WordMod = 4
  ByteMod = 3
  Banks = 1
  LocalLimit = 1
  Globals <- MCGlobals
  RoutineHeader <- MCRoutines
  Instrs <- DataInstrs
  EvalMax = 2
  FrameMax = 1
  InitialPc = 1
  InitialGlobals <- MCInitialGlobals
  NoSave = NoSave
  Garbage <- MCGarbage
CHECK_DEADLOCK FALSE
INVARIANT InstructionsAgree
