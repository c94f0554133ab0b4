SPECIFICATION ExecSpec
CONSTANTS
  Effect <- MCEffect
  Statement <- MCStatement
  Program <- MCProgram
INVARIANTS
  TypeOK
  DetachedBlocksAreOwed
  InsertsIntoItsFunction
  GeneratedIRIsValid
  CodeFollowsSource
  AcceptedLambdasWithElseReturn
PROPERTIES GenerationEnds
