----------------------------- MODULE MCTextSets -----------------------------
(* The texts of up to MaxLen of the given runes, for TLC. *)
EXTENDS Integers

CONSTANTS Runes, MaxLen

OfLength(n) == IF n <= MaxLen THEN [1 .. n -> Runes] ELSE {}

\* A union of few sets, in each of which TLC looks a text up without listing it.
MCTexts ==
  OfLength(0) \union OfLength(1) \union OfLength(2) \union OfLength(3) \union OfLength(4)
    \union OfLength(5)

ASSUME LengthAssumption == MaxLen \in 0 .. 5

=============================================================================
