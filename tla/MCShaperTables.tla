--------------------------- MODULE MCShaperTables ---------------------------
(* A small alphabet, with the tables pack_lut builds for it. *)
EXTENDS ShaperLut

HAMZA == \h621
ALEF == \h627
KASHIDA == \h640
KAF == \h643
LAM == \h644
KEHEH == \h6A9

\* The glyphs of an ordinary font: kaf and lam have four forms, alef and the
\* ligature two, hamza and kashida one.  Keheh shares two of its forms with kaf.
Forms ==
  << [ch |-> <<HAMZA>>, glyphs |-> <<1, 1, 1, 1>>],
     [ch |-> <<ALEF>>, glyphs |-> <<2, 2, 3, 3>>],
     [ch |-> <<KASHIDA>>, glyphs |-> <<8, 8, 8, 8>>],
     [ch |-> <<KAF>>, glyphs |-> <<4, 5, 6, 7>>],
     [ch |-> <<LAM>>, glyphs |-> <<9, 10, 11, 12>>],
     [ch |-> <<LAM, ALEF>>, glyphs |-> <<13, 13, 14, 14>>],
     [ch |-> <<KEHEH>>, glyphs |-> <<15, 5, 6, 16>>] >>

Tables == pack_lut(scratch_codepoint_ranges, Forms)

\* The tables written out, as text_shaper_lut.c has them.
LAM_ALEF == \h70C
Row(ch, first, i, m, f) ==
  [true |-> ch, isolated |-> first, initial |-> i, medial |-> m, final |-> f]

MCShaperLut ==
  << Row(HAMZA, \h700, 0, 0, 0), Row(ALEF, \h701, 0, 1, 1), Row(KASHIDA, \h703, 0, 0, 0),
     Row(KAF, \h704, 1, 2, 3), Row(LAM, \h708, 1, 2, 3), Row(LAM_ALEF, \h70D, 0, 1, 1),
     Row(KEHEH, \h70F, -10, -9, 1) >>
MCLigatureLut == << [pattern |-> <<LAM, ALEF>>, codept |-> LAM_ALEF] >>
MCShaperRange == \h700 .. \h710

\* They are what pack_lut and contiguous_ranges compute.
ASSUME TablesPacked ==
  /\ Tables.ok /\ Tables.lut = MCShaperLut /\ Tables.ligs = MCLigatureLut
  /\ LET ranges == contiguous_ranges(ToSet(Tables.dirtied))
     IN  MCShaperRange = UNION { ranges[i][1] .. ranges[i][2] : i \in DOMAIN ranges }

MCDualJoining == {KAF, LAM, KEHEH}
MCRightJoining == {ALEF, LAM_ALEF}
MCJoinCausing == {KASHIDA}

=============================================================================
