CONSTANTS
  Word <- AllWords
  Digits <- AllDigits
  Quoted <- AllQuoted
  Files <- LongFiles
  Char <- AllChars
  Spelling <- AllSpelled
  Number <- AllNumbers
  Uris <- AllUris
SPECIFICATION Spec
CHECK_DEADLOCK FALSE
INVARIANT
  RegisteredHandlersServe
