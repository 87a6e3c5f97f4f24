------------------------------- MODULE MCUtf8 -------------------------------
(* Small instances of Utf8 for TLC. *)
EXTENDS Utf8, SequencesExt

CONSTANTS Runes, MaxLen

MCRunes == BoundedSeq(Runes, MaxLen) \ { << >> }

=============================================================================
