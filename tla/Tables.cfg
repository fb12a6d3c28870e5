SPECIFICATION TablesSpec
CONSTANTS
  Key = {k1, k2}
  Value = {v1, v2}
  Fresh = {v1, v2}
  Absent = Absent
  Account = {a1, a2}
  Zero = Zero
  Invalid = Invalid
  Empty = Empty
  Unset = Unset
INVARIANTS
  TypeOK
  CacheTracked
  ContainsIsDurable
PROPERTIES
  ImplementsTable
  OwnerIsCell
  WhiteListIsSet
