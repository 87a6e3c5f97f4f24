SPECIFICATION DrawFairSpec
CONSTANTS
  ARABIC_SHAPER_RANGE <- MCShaperRange
  ARABIC_SHAPER_LUT <- MCShaperLut
  ARABIC_LIGATURE_LUT <- MCLigatureLut
  DualJoining <- MCDualJoining
  RightJoining <- MCRightJoining
  JoinCausing <- MCJoinCausing
  Texts <- MCTexts
  Lines <- TwoLines
  Platforms = {"aplite", "basalt"}
  \* alef, lam (their ligature leaves a mark), x, e with an acute accent (of two
  \* bytes, as the shaper expects them), 1
  Runes = {1575, 1604, 120, 233, 49}
  MaxLen = 3
INVARIANTS
  DrawTypeOK
  AlignmentStable
  LettersSurvive
PROPERTY
  DrawsComplete
