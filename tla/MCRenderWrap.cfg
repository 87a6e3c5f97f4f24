SPECIFICATION FairSpec
CONSTANTS
  ARABIC_SHAPER_RANGE = {}
  Texts <- MixedTexts
  Lines <- MixedLines
  \* two Hebrew letters, a mark, two numerals, a Latin letter, "("
  Runes = {1488, 1489, 1425, 49, 50, 120, 40}
  MaxLen = 4
  LongRunes = {1488, 1489, 49, 50, 120, 40}
  \* Hebrew letter, zero-width mark, numeral, Latin letter, space, U+10000
  EdgeRunes = {1488, 1425, 49, 120, 32, 65536}
INVARIANTS
  TypeOK
  OnlyTheLine
  LtrLettersStay
  TextUntouched
  RedrawStable
  CleanLineRestored
  CleanLineVisual
PROPERTY
  DrawCompletes
