SPECIFICATION CompileSpec
CONSTANTS
  Subtrees <- MCSubtrees
  Program <- MCProgram
INVARIANTS
  AcceptedVariablesAreInitialized
