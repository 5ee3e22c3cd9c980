SPECIFICATION Spec
CONSTANTS
  WordMod = 4
  ByteMod = 3
  Banks = 1
  LocalLimit = 1
  Globals <- MCGlobals
  RoutineHeader <- MCRoutines
  Instrs <- StepInstrs
  EvalMax = 2
  FrameMax = 2
  InitialPc = 1
  InitialGlobals <- MCInitialGlobals
  NoSave = NoSave
  SaveConfigured = FALSE
  StackDiscipline = TRUE
CHECK_DEADLOCK FALSE
INVARIANT TypeOK
INVARIANT StackAccounting
INVARIANT FramesNested
PROPERTY CallerStackIntact
PROPERTY CallersIntact
