SPECIFICATION Spec
CONSTANTS
  Chats = {c1, c2}
  NoChat = NoChat
  Projects = {p1, p2}
  NoProject = NoProject
  Deselect = FALSE
  Reassign = FALSE
  Upgraded = FALSE
  MaxChanges = 0
SYMMETRY WriterSymmetry
INVARIANTS
  WritesGoWhereShown
