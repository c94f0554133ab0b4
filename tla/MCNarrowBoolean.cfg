SPECIFICATION CompileSpec
CONSTANTS
  Subtrees <- MCSubtrees
  Program <- MCBooleans
INVARIANTS
  VerificationSucceeds
