SPECIFICATION Spec
CONSTANTS
  AddrMod = 16
  Base <- MCBase
  StackCap = 1
  Stories <- BothStories
  DynSize <- MCDynSize
  Played <- MCPlayed
  Garbage <- MCGarbage
  NoFile = NoFile
INVARIANT ReadsStayInside
PROPERTY SaveIsComplete
PROPERTY RestoreIsExact
