SPECIFICATION Spec
CONSTANTS
  ByteMod = 4
  AddrMod = 8
  Banks = 2
  Window = 4
  Story <- MCStory
  ZmEnd = 3
  WriteBytes = {3}
  MaxBytes = 3
CHECK_DEADLOCK FALSE
INVARIANT WordsAreImage
