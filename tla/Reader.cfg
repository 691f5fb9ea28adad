SPECIFICATION Spec
CONSTANTS
  Names <- MCNames
  Numerals <- MCNumerals
  Globals <- MCGlobals
  Library <- MCLibrary
  Texts <- MCTexts
  MaxCharacters = 4
  MaxPieces = 4
  MaxLines = 2
CHECK_DEADLOCK FALSE
INVARIANTS TypeOK EveryCharacterRead LongestLexeme TreesHoldText JumpsInLoops GoodTextsEnd
PROPERTIES GoodLinesParsed LinesAdvance
