SPECIFICATION Spec
CONSTANTS
  Slots = {s1, s2, s3}
  Handles = {h1, h2}
  None = None
  InitialSize = 4
  GrowBy = 4
  MaximizeRange = 2
  MaxFileSize = 8
  Offsets = {1, 5}
  Lengths = {1, 2}
  Counts = {1, 2}
  AllocMayFail = TRUE
  StoreDiscipline = TRUE
SYMMETRY Symmetry
PROPERTIES
  ImplementsMappedFile
