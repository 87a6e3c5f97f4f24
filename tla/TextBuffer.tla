----------------------------- MODULE TextBuffer -----------------------------
(***************************************************************************)
(* The text buffer of an application, which the shaper and the RTL routine *)
(* rewrite in place.  It is a sequence of runes (Unicode scalar values); a *)
(* pointer into it is the index of a rune and NULL is 0.  The NUL byte     *)
(* follows the last rune.                                                  *)
(***************************************************************************)
EXTENDS RtlRanges, Sequences

CONSTANT
  Texts    \* the buffers an application may pass to the patched functions

\* No rune of a NUL-terminated string is NUL.
ASSUME TextsAssumption ==
  Texts \subseteq Seq(Nat) /\ \A t \in Texts : \A i \in DOMAIN t : t[i] # 0

VARIABLES
  text,
  orig     \* history: the buffer as the application wrote it

NULL == 0

uint16 == { n \in Nat : n < 65536 }

\* read_utf8 returns a uint16_t: a rune above U+FFFF is truncated.
codept(rune) == rune % 65536

\* Runes encoded in two bytes, the only ones write_utf8 can replace.
TwoBytes == RANGE(\h80, \h800)

\* Diacritics, and the runes the shaper leaves before a ligature.
Mark(r) == is_zero_width(codept(r))

=============================================================================
