SPECIFICATION Spec
CONSTANTS
  WordMod = 32
  Stories <- MCStories
  LoaderArgs <- MCArgs
  HeaderSize = 4
  GlobalsMin = 1
  StackSize = 3
  FramesSize = 2
  PrefixSize = 5
INVARIANT BlocksApart
INVARIANT LoadedIsWhole
INVARIANT DictInside
CHECK_DEADLOCK FALSE
