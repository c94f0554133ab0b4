SPECIFICATION CompileSpec
CONSTANTS
  Subtrees <- MCSubtrees
  Program <- MCProgram
INVARIANTS
  AcceptsExactlyTheWellTyped
  NamesMeanTheNearestDeclaration
  ReferencesHaveTheirEntrysType
  CrashesOnlyBehindErrors
  UninitializedOnlyBehindLoops
  FailuresHaveTheirCause
  VariablesHaveTheirAllocas
  ValuesHaveTheirTypes
