SPECIFICATION Utf8Spec
CONSTANTS
  InitialRunes <- MCRunes
  \* x, beh, shekel sign, U+1F600, U+10000: one to four bytes
  Runes = {120, 1576, 8362, 128512, 65536}
  MaxLen = 4
  \* the ends of the two-byte range, and beh again
  NewCodepts = {128, 1576, 2047}
INVARIANTS
  BytesEncodeRunes
  SpanKept
  ReadsRunes
