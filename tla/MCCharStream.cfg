SPECIFICATION Spec
CONSTANTS
  Char <- MCChar
  Whitespace <- MCWhitespace
  Newline <- MCNewline
  File <- MCFile
INVARIANT TypeOK
PROPERTY IsPushbackStream
