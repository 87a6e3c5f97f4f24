--------------------------- MODULE MCLanguagePack ---------------------------
(* A small instance of LanguagePack for TLC. *)
EXTENDS LanguagePack

Regular == <<"GOTHIC", "14">>
Bold == <<"GOTHIC", "14", "BOLD">>

\* Words of three kinds, in every image up to this length: two pointers to names,
\* one of which is an id of a missing resource, and one that is none.
MaxWords == 9
Words == { [name |-> Regular, id |-> 1], [name |-> Bold, id |-> 9], [name |-> NoName, id |-> 2] }

\* An image with a font of each kind, and the stray pointer of another table.
Item(name, id) == << [name |-> name, id |-> 0], [name |-> NoName, id |-> id] >>
Whole(names) ==
  Item(<<"FOO">>, 1) \o [i \in 1 .. 3 |-> [name |-> NoName, id |-> 0]]
    \o FlattenSeq([i \in DOMAIN names |-> Item(names[i][1], names[i][2])])
    \o [i \in 1 .. 3 |-> [name |-> NoName, id |-> 0]]

MCImages ==
  (UNION { [1 .. n -> Words] : n \in 1 .. MaxWords })
  \union { Whole(<< <<Regular, 1>>, <<Bold, 2>>, <<<<"BITHAM", "34", "MEDIUM", "NUMBERS">>, 1>>,
                    <<<<"DROID", "SERIF", "28", "BOLD">>, 4>>, <<<<"FONT", "FALLBACK", "INTERNAL">>, 9>>,
                    <<<<"GOTHIC", "36">>, 1>> >>),
           Whole(<< <<<<"GOTHIC", "28", "BOLD">>, 3>>, <<<<"ROBOTO", "CONDENSED", "21">>, 2>> >>),
           Whole(<< <<<<"FONT", "FALLBACK">>, 1>>, <<Regular, 1>> >>) }

\* Glyph 0 of a typeface marks a missing character; 3 is narrow, 5 is wide, 12 blank.
MCDimensions ==
  [g \in 0 .. 12 |-> CASE g = 3 -> <<2, 12>> [] g = 5 -> <<8, 9>> [] g = 12 -> <<0, 0>>
                       [] OTHER -> <<5, 6>>]
MCCmap == (\h41 :> 1) @@ (\h5d0 :> 8) @@ (\h5d1 :> 9) @@ (\h2026 :> 10)

Stock(name, w, h) == [id |-> <<name, 0>>, width |-> w, height |-> h]

\* Two ordinary fonts with an Aleph of their own and blanks, a compressed one, and one
\* with a full hash chain.  With the members of the first alphabet, the data of the
\* first is one byte below the limit, that of the fourth slightly above.
Latin == (\h41 :> Stock("A", 6, 7)) @@ (\h5d0 :> Stock("aleph", 6, 7)) @@ (\h3000 :> Stock("space", 0, 0))
MCResources ==
  (1 :> [compressed |-> FALSE, entries |-> Latin])
  @@ (2 :> [compressed |-> TRUE,
            entries |-> (\h41 :> Stock("A", 6, 20)) @@ (\h42 :> Stock("B", 6, 7))])
  @@ (3 :> [compressed |-> FALSE,
            entries |-> [c \in { 3 * i : i \in 30 .. 33 } |-> Stock("A", 6, 7)]])
  @@ (4 :> [compressed |-> FALSE, entries |-> Latin @@ (\h2009 :> Stock("thin", 0, 0))])

ALEF == \h627
BEH == \h628
Letter(ch, glyphs) == [ch |-> ch, glyphs |-> glyphs]
One == [codept |-> \h661, glyph |-> 11]

\* Letters that share glyphs, and a ligature; a digit that takes a letter's glyph;
\* deltas too large; too many glyphs.
MCAlphabets ==
  { [forms |-> << Letter(<<ALEF>>, <<1, 2, 3, 4>>), Letter(<<BEH>>, <<5, 2, 3, 5>>),
                  Letter(<<ALEF, BEH>>, <<6, 6, 7, 7>>) >>,
     supplement |-> <<One>>],
    [forms |-> << Letter(<<ALEF>>, <<1, 1, 11, 11>>) >>, supplement |-> <<One>>],
    [forms |-> << Letter(<<ALEF>>, <<1, 2, 3, 4>>), Letter(<<BEH>>, <<1, 5, 6, 7>>) >>,
     supplement |-> << >>],
    [forms |-> << Letter(<<ALEF>>, <<1, 2, 3, 4>>), Letter(<<BEH>>, <<5, 6, 7, 8>>),
                  Letter(<<ALEF, BEH>>, <<9, 10, 11, 12>>) >>,
     supplement |-> << >>] }

MCScratchRanges == << <<\h700, \h706>>, <<\h780, \h784>> >>
MCZeroWidth == {\h5BF, \h64B}

=============================================================================
