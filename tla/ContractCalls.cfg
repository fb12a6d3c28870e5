SPECIFICATION Spec
CONSTANTS
  Contract <- Contracts
  Key <- OwnKeys
  CellOf <- OwnCell
  Value = {0, 1}
  Absent = Absent
  Fresh = {0}
  Delegates <- AToB
  Default = 0
  MaxDepth = 3
INVARIANT
  TypeOK
PROPERTY
  ImplementsCells
