SPECIFICATION Spec
CONSTANTS
  ARABIC_SHAPER_RANGE = {}
  Texts <- MCTexts
  Lines <- WholeLine
  \* Hebrew letter, two numerals, Latin letter, space
  Runes = {1488, 49, 50, 120, 32}
  MaxLen = 5
  LongRunes = {}
  EdgeRunes = {}
INVARIANTS
  NumeralsLaidOutLtr
