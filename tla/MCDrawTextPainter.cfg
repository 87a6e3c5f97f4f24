SPECIFICATION DrawSpec
CONSTANTS
  ARABIC_SHAPER_RANGE <- MCShaperRange
  ARABIC_SHAPER_LUT <- MCShaperLut
  ARABIC_LIGATURE_LUT <- MCLigatureLut
  DualJoining <- MCDualJoining
  RightJoining <- MCRightJoining
  JoinCausing <- MCJoinCausing
  Texts <- MCSoundTexts
  Lines <- TwoLines
  Platforms = {"aplite", "basalt"}
  \* alef, lam, fathatan (a mark), x, 1, space
  Runes = {1575, 1604, 1611, 120, 49, 32}
  MaxLen = 3
PROPERTY
  ImplementsPainter
