SPECIFICATION FilesSpec
CONSTANTS
  Sessions = {s1, s2}
  Names = {w1, w2}
  Absent = absent
  Blank = blank
  MaxEntry = 2
  MaxSaves = 2
  Clients = {c1}
  Server = server
  Versions = {1, 2}
  Size <- MCSize
  NoFile = nofile
  ErrorSize = 1
  Uploads = TRUE
  MaxEvents = 5
SYMMETRY Symmetric
INVARIANTS
  WorkspaceIsSound
  EntryInTurn
  CopyIsWhole
CHECK_DEADLOCK FALSE
