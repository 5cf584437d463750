CONSTANTS
  Word <- AllWords
  Digits <- AllDigits
  Quoted <- AllQuoted
  Files <- AllFiles
  Char <- AllChars
  Spelling <- AllSpelled
  Number <- AllNumbers
  Uris <- AllUris
SPECIFICATION Spec
CHECK_DEADLOCK FALSE
INVARIANTS
  TypeOK
  AcceptsWellFormed
  ParsedAsWritten
  ServesTheConfiguration
  RoutedByComponents
