SPECIFICATION Spec
CONSTANTS
  N = 2
  Key = {0, 1, 2}
  Value = {0, 1}
  Absent = Absent
  Fresh = {0, 1}
INVARIANTS
  TypeOK
  LoopVisitsAll
PROPERTY
  ImplementsTable
