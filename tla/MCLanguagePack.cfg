SPECIFICATION PackSpec
CONSTANTS
  Images <- MCImages
  Resources <- MCResources
  Alphabets <- MCAlphabets
  ScratchRanges <- MCScratchRanges
  Cmap <- MCCmap
  Dimensions <- MCDimensions
  ZERO_WIDTH_CODEPOINTS <- MCZeroWidth
  MAX_GLYPHS = 4
  HASHTABLE_DIRECTORY_SIZE = 3
  OFFSET_TABLE_MAX_SIZE = 8
  SHORT = 131
INVARIANTS
  LargestTable
  ComposedFontsWhole
  FormsShown
  OffsetsFit
  ResourcesReadBack
CHECK_DEADLOCK FALSE
