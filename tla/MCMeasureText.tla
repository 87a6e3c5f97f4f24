--------------------------- MODULE MCMeasureText ---------------------------
(* Small instances of MeasureText for TLC. *)
EXTENDS MeasureText, MCShaperTables, MCTextSets

\* Texts of letters that share glyphs, too.
SharedRunes == {ALEF, KAF, KEHEH, 32}
Shared(n) == [1 .. n -> SharedRunes]
MCMeasureTexts == MCTexts \union Shared(1) \union Shared(2) \union Shared(3)

\* The small tables are such as the theorems are about.
ASSUME TablesReadBack == FormsReadBack /\ JoiningClassesAgree

=============================================================================
