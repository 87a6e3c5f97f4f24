-------------------------------- MODULE Pfo ---------------------------------
(***************************************************************************)
(* Font files.  fontgen.py writes them, fonts/pfo_merge.py reads, merges   *)
(* and writes them, the watch looks glyphs up in them: a hash directory    *)
(* leads to a chain of pairs <<code point, offset>>, the offset into the   *)
(* glyph data.                                                             *)
(*                                                                         *)
(* A glyph is [id, width, height]; in compressed fonts the field "height"  *)
(* counts RLE4 units.  The bytes of its data are the cells <<glyph, 1>>,   *)
(* <<glyph, 2>>, ..., of which the first two are its dimensions.           *)
(***************************************************************************)
EXTENDS Integers, Sequences, SequencesExt, FiniteSetsExt, TLC

CONSTANTS
  HASHTABLE_DIRECTORY_SIZE,  \* 255
  OFFSET_TABLE_MAX_SIZE,     \* 128
  SHORT                      \* the largest number of 16 bits

GLYPH_HEADER == 5

\* A function on 1 .. n written out as the sequence it is, so that TLC computes
\* each element once.
Listed(f) == SubSeq(f, 1, Len(f))

glyph_table_start == [k \in 1 .. 4 |-> <<[id |-> <<"none", 0>>, width |-> 0, height |-> 0], k>>]

ceil(n, d) == (n + d - 1) \div d
whole_words(n) == 4 * ceil(n, 4)

\* fontgen.py: bitmaps of w * h bits, or two RLE4 units to a byte.
data_size(g, compressed) ==
  whole_words(IF compressed THEN ceil(g.height, 2) ELSE ceil(g.width * g.height, 8))
glyph_bits(g, compressed) ==
  Listed([k \in 1 .. GLYPH_HEADER + data_size(g, compressed) |-> <<g, k>>])

DataLength(glyphs) == FoldLeft(LAMBDA n, g : n + Len(g.data), 0, glyphs)
Offset(glyphs, i) == Len(glyph_table_start) + DataLength(SubSeq(glyphs, 1, i - 1))

\* sorted(): the keys are distinct.
SortedBy(S, key(_)) ==
  Listed([i \in 1 .. Cardinality(S) |->
            CHOOSE x \in S : Cardinality({ y \in S : key(y) < key(x) }) = i - 1])

\* The directory and the chains of glyphs that are laid out in this order.
bins == 1 .. HASHTABLE_DIRECTORY_SIZE
hasher(cpt) == 1 + (cpt % HASHTABLE_DIRECTORY_SIZE)
pairs(glyphs) ==
  UNION { { <<cpt, Offset(glyphs, i)>> : cpt \in glyphs[i].codepoints } : i \in DOMAIN glyphs }
file(glyphs, compressed, short) ==
  LET all == pairs(glyphs)
      chains == Listed([bin \in bins |->
                  SortedBy({ p \in all : hasher(p[1]) = bin }, LAMBDA p : p[1])])
  IN  [compressed |-> compressed, short |-> short,
       directory |-> Listed([bin \in bins |->
         [size |-> Len(chains[bin]), offset |-> Len(FlattenSeq(SubSeq(chains, 1, bin - 1)))]]),
       chains |-> FlattenSeq(chains),
       data |-> glyph_table_start \o FlattenSeq([i \in DOMAIN glyphs |-> glyphs[i].data])]

\* build_tables of fontgen.py, for a function from code points to glyphs.  The order
\* of the glyphs is of no consequence: their offsets are looked up.
build_tables(entries, compressed) ==
  LET glyphs == SortedBy({ [codepoints |-> { d \in DOMAIN entries : entries[d] = entries[c] },
                            data |-> glyph_bits(entries[c], compressed)] : c \in DOMAIN entries },
                         LAMBDA g : Min(g.codepoints))
  IN  file(glyphs, compressed, Len(glyph_table_start) + DataLength(glyphs) <= SHORT)

-----------------------------------------------------------------------------
(* pfo_merge.py.  A font is [compressed, glyphs], a glyph there is         *)
(* [codepoints, data].                                                     *)

items(pfo) ==
  UNION { { pfo.chains[pfo.directory[bin].offset + i] : i \in 1 .. pfo.directory[bin].size }
          : bin \in bins }

\* The length of the data follows from the dimensions.
read_glyph(pfo, offset) ==
  LET w == pfo.data[offset + 1][1].width
      h == pfo.data[offset + 2][1].height
  IN  SubSeq(pfo.data, offset + 1,
             Min({offset + GLYPH_HEADER + whole_words(ceil(h * w, 8)), Len(pfo.data)}))

font_read(pfo) ==
  [compressed |-> pfo.compressed,
   glyphs |-> { [codepoints |-> { p[1] : p \in { q \in items(pfo) : q[2] = offset } },
                 data |-> read_glyph(pfo, offset)]
                : offset \in { p[2] : p \in items(pfo) } }]

Codepoints(font) == UNION { g.codepoints : g \in font.glyphs }

\* Mutant: the first font wins.
merge_keeping(font_1, font_2) ==
  [font_1 EXCEPT !.glyphs = @ \union
     { g \in { [h EXCEPT !.codepoints = @ \ Codepoints(font_1)] : h \in font_2.glyphs } :
         g.codepoints # {} }]

\* The second font wins; a glyph without code points is dropped.
merge_fonts(font_1, font_2) ==
  [font_1 EXCEPT !.glyphs = font_2.glyphs \union
     { g \in { [h EXCEPT !.codepoints = @ \ Codepoints(font_2)] : h \in @ } : g.codepoints # {} }]

\* Mutant: the limit is that of the last offset.
fits_short_last(length) == length < SHORT + GLYPH_HEADER

fits_short(length) == length < SHORT

\* The glyphs are sorted by their first code points; which of its code points
\* comes first in a glyph depends on the order of a dictionary.
firsts(font) ==
  FoldSet(LAMBDA g, fs : { (g :> c) @@ f : f \in fs, c \in g.codepoints }, {<< >>}, font.glyphs)
orders(font) ==
  { SortedBy(font.glyphs, LAMBDA g : first[g]) : first \in firsts(font) }

font_write(font, order) == file(order, font.compressed, fits_short(DataLength(order)))

\* The exceptions of font_write: its assertion, and that of struct.pack.
raised(pfo) ==
  IF pfo.short /\ \E p \in items(pfo) : p[2] > SHORT THEN "offset"
  ELSE IF \E bin \in bins : pfo.directory[bin].size >= OFFSET_TABLE_MAX_SIZE THEN "chain"
  ELSE "none"

-----------------------------------------------------------------------------
(* The watch.                                                              *)

\* What the watch finds for a code point: the chain its hash leads to.
offsets_of(pfo, cpt) ==
  LET dir == pfo.directory[hasher(cpt)]
  IN  { p[2] : p \in { q \in { pfo.chains[dir.offset + i] : i \in 1 .. dir.size } : q[1] = cpt } }

\* It shows this glyph, and finds all of its data.
Shows(pfo, cpt, g) ==
  \E offset \in offsets_of(pfo, cpt) :
    LET bytes == glyph_bits(g, pfo.compressed)
    IN  offset + Len(bytes) <= Len(pfo.data)
          /\ SubSeq(pfo.data, offset + 1, offset + Len(bytes)) = bytes

=============================================================================
