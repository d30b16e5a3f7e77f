SPECIFICATION Spec
CONSTANTS
  Chats = {c1, c2, c3}
  NoChat = NoChat
  Projects = {p1, p2}
  NoProject = NoProject
  Deselect = TRUE
  Reassign = TRUE
  Upgraded = TRUE
  MaxChanges = 2
SYMMETRY WriterSymmetry
INVARIANTS
  TypeOK
  SavedInProject
  OpenedInProject
  ProvedInProject
PROPERTIES
  WriterPersists
