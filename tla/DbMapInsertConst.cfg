SPECIFICATION Spec
CONSTANTS
  Key = {k1, k2}
  Value = {v1, v2}
  Fresh = {v1}
  Absent = Absent
PROPERTY
  InsertedIsKept
