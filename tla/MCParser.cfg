CONSTANT Tokens <- MCTokens
SPECIFICATION ParserSpec
INVARIANTS
  ErrorsHaveTheirOwnTokens
  TreesAreDerived
  ProgramsAreAccepted
PROPERTY ParsingEnds
