SPECIFICATION MeasureSpec
CONSTANTS
  ARABIC_SHAPER_RANGE <- MCShaperRange
  ARABIC_SHAPER_LUT <- MCShaperLut
  ARABIC_LIGATURE_LUT <- MCLigatureLut
  Texts <- MCTexts
  Platforms = {"aplite", "basalt"}
  DualJoining <- MCDualJoining
  RightJoining <- MCRightJoining
  JoinCausing <- MCJoinCausing
  \* hamza, alef, kaf, kashida, fathatan (a mark), lam, space
  Runes = {1569, 1575, 1603, 1600, 1611, 1604, 32}
  MaxLen = 3
INVARIANT
  MarksDropped
