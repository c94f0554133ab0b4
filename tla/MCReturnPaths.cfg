SPECIFICATION ExecSpec
CONSTANTS
  Effect <- MCEffect
  Statement <- MCStatement
  Program <- MCProgram
INVARIANT AcceptedLambdasReturn
