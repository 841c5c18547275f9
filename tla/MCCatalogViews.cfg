SPECIFICATION Spec
CONSTANTS
  Sources = {s1}
  Slots = {e1, e2}
  MaxWrites = 2
  MaxJobs = 2
  None = None
  Absent = Absent
SYMMETRY Symmetry
INVARIANTS
  TypeOK
  EditExcludesJobs
  AskedRefreshIsExact
  DownloadedAsAdmitted
PROPERTIES
  RefreshKeepsEdits
  LastGoodKept
