SPECIFICATION Spec
CONSTANTS
  Letter <- MCLetter
  Digit <- MCDigit
  Char <- MCChar
  Whitespace <- MCWhitespace
  Newline <- MCNewline
  File <- MCFile
  KeywordType <- MCKeywordType
  kMaxIdentifierLength = 3
  OutOfRange <- MCOutOfRange
  MaxBuffer = 7
INVARIANTS
  TokensAreTheText
  NothingIsDropped
  LongestMatch
PROPERTY ScanningEnds
