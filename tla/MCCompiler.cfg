SPECIFICATION Spec
CONSTANTS
  Path <- MCPath
  Option <- MCOption
  Argument <- MCArgument
  CommandLine <- MCCommandLine
  ReplaceExtension <- MCReplaceExtension
  HasDirectory <- MCHasDirectory
  MaxLogged = 10
INVARIANTS
  TypeOK
  NoOutputFromErrors
  ErrorsAreSummarized
  FailuresKeepFiles
  OutputIsTheOneNamed
