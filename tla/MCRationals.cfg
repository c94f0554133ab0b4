SPECIFICATION Spec
CONSTANTS
  Limit <- MCLimit
  Operands <- MCOperands
INVARIANTS
  TypeOK
  ValuesAreExact
  SimpleValuesAreCanonical
  GcdIsGreatest
  ComparisonsAreExact
  UndefinedOnlyWithoutValue
PROPERTY GcdEnds
CHECK_DEADLOCK FALSE
