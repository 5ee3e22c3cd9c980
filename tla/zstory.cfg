SPECIFICATION Spec
CONSTANTS
  Width = 16
  Pow2 <- Pow2Values
  AddrMod = 256
  StackLimit = 1
  Stories <- StoriesValue
INVARIANT TypeOK
INVARIANT DecodedAsAssembled
INVARIANT TextIsMeasured
INVARIANT PrintsWhatIsWritten
INVARIANT StreamKeepsText
INVARIANT ParsedAsTyped
INVARIANT ObjectsAreMeant
INVARIANT ObjectReadsExact
INVARIANT DivisionExact
INVARIANT PortAgrees
INVARIANT StaysDefined
PROPERTY InputStaysInside
PROPERTY InstructionsEnd
CHECK_DEADLOCK FALSE
