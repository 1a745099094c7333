SPECIFICATION Spec
CONSTANTS
  c1 = c1
  c2 = c2
  f1 = f1
  f2 = f2
  ChangeSets = {c1, c2}
  Files = {f1, f2}
  FilesOf <- Overlapping
  Absent = Absent
  Old = Old
  Foreign = Foreign
  MaxEdits = 2
  MaxHindered = 1
PROPERTY RestartDurable
