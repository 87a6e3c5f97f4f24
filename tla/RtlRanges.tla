----------------------------- MODULE RtlRanges -----------------------------
(***************************************************************************)
(* The character classes of runtime/rtl_ranges.c: sets of the 16-bit code  *)
(* points read_utf8 returns.  A range is half open, as in the RANGE macro  *)
(* of runtime/range.h.                                                     *)
(***************************************************************************)
EXTENDS Naturals

CONSTANT
  ARABIC_SHAPER_RANGE  \* the scratch code points fonts/text_shaper.py handed out

RANGE(start, end) == start .. end - 1

\* scratch_codepoint_ranges of fonts/text_shaper.py: blocks of other scripts,
\* which hold no punctuation, no diacritic and no numeral.
ASSUME ShaperRangeAssumption ==
  ARABIC_SHAPER_RANGE \subseteq RANGE(\h700, \h750) \union RANGE(\h780, \h800)

\* The table from which fonts/compose.py generates is_zero_width.
ZERO_WIDTH ==
  UNION { RANGE(\h591, \h5C0), RANGE(\h5C1, \h5C3), RANGE(\h5C4, \h5C6),
          RANGE(\h5C7, \h5C8), RANGE(\h610, \h61B), RANGE(\h64B, \h660),
          RANGE(\h6D6, \h6DC), RANGE(\h6DF, \h6E9), RANGE(\h6EA, \h6EE),
          RANGE(\h8B6, \h8FF) }

is_zero_width(cp) == cp \in ZERO_WIDTH

\* ZERO_WIDTH_CODEPOINTS[0]: what the shaper leaves in the first half of a
\* ligature.  Note that it is both zero-width and in the Hebrew block.
ZERO_WIDTH_CODEPT == \h591

\* Mutant: the fake code points of the shaper are left out.
RTL_unshaped ==
  UNION { RANGE(\h60E, \h660), RANGE(\h66D, \h700), RANGE(\h750, \h780),
          RANGE(\h590, \h600) }

\* Arabic up to the numerals, the rest of Arabic, Arabic Extended, Hebrew,
\* and the fake code points of the shaper, which runs before the RTL routine.
RTL ==
  UNION { RANGE(\h60E, \h660), RANGE(\h66D, \h700), RANGE(\h750, \h780),
          RANGE(\h590, \h600), ARABIC_SHAPER_RANGE }

is_rtl(cp) == cp \in RTL

\* Latin punctuation, Arabic punctuation, invisible characters.
NEUTRAL ==
  UNION { RANGE(\h20, \h23), RANGE(\h26, \h30), RANGE(\h3A, \h41),
          RANGE(\h5B, \h61), RANGE(\h7B, \hA2), RANGE(\hA6, \hA7),
          RANGE(\hA8, \hB0), RANGE(\hB7, \hBF), RANGE(\h600, \h60E),
          ZERO_WIDTH }

is_neutral(cp) == cp \in NEUTRAL

\* European and Indic numerals.
WEAK_LTR == RANGE(\h30, \h3A) \cup RANGE(\h660, \h66D)

is_weak_ltr(cp) == cp \in WEAK_LTR

=============================================================================
