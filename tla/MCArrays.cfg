SPECIFICATION Spec
CONSTANTS
  ints = ints
  nested = nested
  Limit = 4
  Number <- MCNumber
  Variable <- MCVariable
  VariableType <- MCVariableType
  ElementSize <- MCElementSize
  Length <- MCLength
  MaxStack = 3
  MaxArrays = 2
INVARIANTS
  TypeOK
  BlocksBelongToTheirArrays
PROPERTY IsArrayObjects
