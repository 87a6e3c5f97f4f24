SPECIFICATION DrawSpec
CONSTANTS
  ARABIC_SHAPER_RANGE <- MCShaperRange
  ARABIC_SHAPER_LUT <- MCShaperLut
  ARABIC_LIGATURE_LUT <- MCLigatureLut
  DualJoining <- MCDualJoining
  RightJoining <- MCRightJoining
  JoinCausing <- MCJoinCausing
  Texts <- MCTexts
  Lines <- OneLine
  Platforms = {"aplite", "basalt"}
  \* alef, lam, 1, space
  Runes = {1575, 1604, 49, 32}
  MaxLen = 5
INVARIANT
  LigatureInPlace
