SPECIFICATION Spec
CONSTANTS
  Obj <- MCObjects
  Operands <- MCObjects
  Checked = FALSE
INVARIANT LinksConsistent
INVARIANT NeverLost
PROPERTY SearchEnds
PROPERTY KeepsLists
