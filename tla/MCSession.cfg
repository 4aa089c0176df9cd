SPECIFICATION Spec
CONSTANTS
  User = {u1, u2}
  TorrentId = {a, b}
  MaxMade = 2
  ResumeOnStartup = TRUE
  None = None
INVARIANTS
  ListedIsRecorded
  AddedIsSaved
  OneRunning
SYMMETRY Symmetry
