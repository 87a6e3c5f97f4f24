---------------------------- MODULE LanguagePack ----------------------------
(***************************************************************************)
(* How a language pack is made of a firmware image: find_system_fonts.py   *)
(* finds the names of its fonts and copies them, compose.py merges each    *)
(* with Arabic and Hebrew glyphs at the code points text_shaper.py gives   *)
(* them, generate_langpack of generator.py chooses the files and           *)
(* pack_resources lays them out.                                           *)
(*                                                                         *)
(* A name is the sequence of its parts, << "GOTHIC", "14", "BOLD" >>.      *)
(* Sizes of type, thresholds and shifts only change the pictures.          *)
(***************************************************************************)
EXTENDS FontTable, Pfo, ShaperLut

CONSTANTS
  Resources,              \* the unpacked resources, id -> [compressed, entries]
  Alphabets,              \* what hb-shape may answer: [forms, supplement]
  ScratchRanges,          \* scratch_codepoint_ranges
  Cmap,                   \* the characters of the typefaces, code point -> glyph index
  Dimensions,             \* glyph index -> <<width, height>>
  ZERO_WIDTH_CODEPOINTS,
  MAX_GLYPHS              \* 256

VARIABLES
  step,           \* "scan", "compose", "packed", or "failed"
  failure,        \* the exception that ended the run
  system_fonts,   \* the fonts copied by find_system_fonts.py, name -> resource
  to_compose,     \* names compose.py has yet to take
  shaper_result,  \* {} or {what text_shaper.py wrote}
  composed,       \* the files compose.py has written, name -> file
  langpack        \* the resource pack, << >> before it is written

pack_vars ==
  <<table_vars, step, failure, system_fonts, to_compose, shaper_result, composed, langpack>>

HEBREW_CODEPT_LIST == {\h5c0, \h5c3, \h5c6, \h20aa} \union \h5d0 .. \h5f4
WILDCARD_CODEPOINT == \h25AF
ELLIPSIS_CODEPOINT == \h2026

\* Otherwise a member would have two entries for one code point.
ASSUME PackAssumption ==
  /\ ZERO_WIDTH_CODEPOINTS \intersect (HEBREW_CODEPT_LIST \union {WILDCARD_CODEPOINT}) = {}
  /\ WILDCARD_CODEPOINT \notin DOMAIN Cmap

Fail(cause) == step' = "failed" /\ failure' = cause

-----------------------------------------------------------------------------
(* find_system_fonts.py *)

Scan ==
  /\ step = "scan" /\ ScanWord
  /\ UNCHANGED <<step, failure, system_fonts, to_compose, shaper_result, composed, langpack>>

\* One name is in the other.
Matches(name, pattern) ==
  \E i \in 0 .. Len(name) - Len(pattern) : SubSeq(name, i + 1, i + Len(pattern)) = pattern

copied == { n \in DOMAIN final_table : ~Matches(n, <<"FALLBACK", "INTERNAL">>) }

\* The table is complete; the fonts are copied, if all of them are there.
CopyFonts ==
  /\ step = "scan" /\ scanned = Len(words)
  /\ IF \A n \in copied : final_table[n] \in DOMAIN Resources
     THEN /\ step' = "compose" /\ UNCHANGED failure
          /\ system_fonts' = [n \in copied |-> final_table[n]]
     ELSE Fail("resource") /\ UNCHANGED system_fonts
  /\ to_compose' = copied
  /\ words' = << >> /\ scanned' = 0 /\ since_last' = 0
  /\ work_table' = NoTable /\ final_table' = NoTable /\ same_table' = FALSE
  /\ UNCHANGED <<shaper_result, composed, langpack>>

-----------------------------------------------------------------------------
(* compose.py: names and templates *)

blacklisted(name) == \E part \in {"NUMBERS", "SUBSET", "EMOJI"} : Matches(name, <<part>>)

Numerals == {"09", "14", "18", "21", "24", "28", "30", "34", "36", "42", "49"}

\* <<size, variant>>: the last two parts in either order, or the last of two.
\* The file name has one part more, the resource id.
split(name) ==
  LET n == Len(name)
  IN  IF n > 2 THEN <<name[n - 1], name[n]>> ELSE <<name[n], "None">>
swapped(name) ==
  IF split(name)[1] \in Numerals THEN split(name) ELSE <<split(name)[2], split(name)[1]>>

\* int() of neither part, or += of None.
unreadable(name) ==
  \/ swapped(name)[1] \notin Numerals
  \/ Matches(name, <<"SERIF">>) /\ swapped(name)[2] = "None"

template_key(name) ==
  IF Matches(name, <<"SERIF">>) THEN <<swapped(name)[1], swapped(name)[2], "SERIF">> ELSE swapped(name)

\* The typeface of both members of a template.
TEMPLATES ==
  [ key \in {"09", "14", "18", "24", "28"} \X {"None"} |-> "Tahoma" ]
  @@ [ key \in {"14", "18", "24", "28", "42"} \X {"BOLD"} |-> "Tahoma Bold" ]
  @@ (<<"21", "CONDENSED">> :> "Tahoma") @@ (<<"42", "LIGHT">> :> "Tahoma")
  @@ (<<"30", "BLACK">> :> "Tahoma Bold")
  @@ (<<"28", "BOLD", "SERIF">> :> "Times New Roman Bold")

has_template(name) == ~unreadable(name) /\ template_key(name) \in DOMAIN TEMPLATES
typeface(name) == TEMPLATES[template_key(name)]
\* The templates with a member that fix_ijam.py works on; of size 24, for some
\* size_shift_key.
fixes_ijam(name) ==
  template_key(name) \in {<<"14", "BOLD">>, <<"18", "BOLD">>, <<"21", "CONDENSED">>,
                          <<"24", "None">>, <<"24", "BOLD">>}
compressed_font(name) == Resources[system_fonts[name]].compressed

-----------------------------------------------------------------------------
(* text_shaper.py: the map from code points to glyphs *)

\* An unshaped character takes its glyph away from a scratch code point.
supplement_selected_glyphs(tables, supplement) ==
  LET selected == [g \in { p[1] : p \in ToSet(tables.selected_glyphs) } |-> CodeptOf(tables, g)]
  IN  FoldLeft(LAMBDA sel, s : (s.glyph :> s.codept) @@ sel, selected, supplement)

selected_codepts(selected) ==
  [c \in { selected[g] : g \in DOMAIN selected } |-> CHOOSE g \in DOMAIN selected : selected[g] = c]

text_shaper(alphabet) ==
  LET tables == pack_lut(ScratchRanges, alphabet.forms)
  IN  [ok |-> tables.ok, lut |-> tables.lut, alphabet |-> alphabet,
       map |-> IF tables.ok
               THEN selected_codepts(supplement_selected_glyphs(tables, alphabet.supplement))
               ELSE << >>]

\* It runs for the first Arabic member only.
shaper_results == IF shaper_result # {} THEN shaper_result ELSE { text_shaper(a) : a \in Alphabets }

-----------------------------------------------------------------------------
(* compose.py: the members, and what becomes of a font *)

drawn(face, gindex) ==
  [id |-> <<face, gindex>>, width |-> Dimensions[gindex][1], height |-> Dimensions[gindex][2]]
zero_width_glyph == [id |-> <<"zwg", 0>>, width |-> 0, height |-> 0]

always(face) ==
  (WILDCARD_CODEPOINT :> drawn(face, 0)) @@ [c \in ZERO_WIDTH_CODEPOINTS |-> zero_width_glyph]

arabic_member(face, map) == always(face) @@ [c \in DOMAIN map |-> drawn(face, map[c])]

\* The characters are taken in order until there are more than MAX_GLYPHS.
in_subset == { c \in DOMAIN Cmap : c \in HEBREW_CODEPT_LIST \union {ELLIPSIS_CODEPOINT} }
hebrew_member(face) ==
  LET before(c) == Cardinality(DOMAIN always(face)) + Cardinality({ d \in in_subset : d < c })
  IN  always(face) @@ [c \in { d \in in_subset : before(d) <= MAX_GLYPHS } |-> drawn(face, Cmap[c])]

members(name, shaper) ==
  << Resources[system_fonts[name]].entries,
     arabic_member(typeface(name), shaper.map), hebrew_member(typeface(name)) >>

merged(name, shaper) ==
  LET read(entries) == font_read(build_tables(entries, compressed_font(name)))
      m == members(name, shaper)
  IN  merge_fonts(merge_fonts(read(m[1]), read(m[2])), read(m[3]))

Taken(name) == to_compose' = to_compose \ {name}
Proceed == UNCHANGED <<step, failure>>

\* Nothing is written for the font.
SkipFont(name) ==
  /\ blacklisted(name) \/ (~unreadable(name) /\ ~has_template(name))
  /\ Proceed /\ UNCHANGED <<shaper_result, composed>>

BadName(name) ==
  /\ ~blacklisted(name) /\ unreadable(name)
  /\ Fail("name") /\ UNCHANGED <<shaper_result, composed>>

ComposeFont(name) ==
  /\ ~blacklisted(name) /\ has_template(name)
  /\ \E shaper \in shaper_results :
       /\ shaper_result' = {shaper}
       /\ \/ ~shaper.ok /\ Fail("shaper") /\ UNCHANGED composed
          \/ shaper.ok /\ fixes_ijam(name) /\ Fail("ijam") /\ UNCHANGED composed
          \* fontgen.py fails for a member: the font is left out.
          \/ shaper.ok /\ Proceed /\ UNCHANGED composed
          \/ /\ shaper.ok
             /\ LET font == merged(name, shaper)
                IN  \E order \in orders(font) :
                      LET pfo == font_write(font, order)
                      IN  \/ raised(pfo) # "none" /\ Fail(raised(pfo)) /\ UNCHANGED composed
                          \/ /\ raised(pfo) = "none" /\ Proceed
                             /\ composed' = (name :> pfo) @@ composed

TakeFont ==
  /\ step = "compose"
  /\ \E name \in to_compose :
       Taken(name) /\ (SkipFont(name) \/ BadName(name) \/ ComposeFont(name))
  /\ UNCHANGED <<table_vars, system_fonts, langpack>>

-----------------------------------------------------------------------------
(* generator.py *)

\* The bytes of a file: all of its tables as one, and its data.
bytes_of(pfo) == << <<[pfo EXCEPT !.data = << >>], 0>> >> \o pfo.data
mo_file == << <<[kind |-> "mo"], 0>> >>

font_seq ==
  << <<"GOTHIC", "14">>, <<"GOTHIC", "14", "BOLD">>, <<"GOTHIC", "18">>, <<"GOTHIC", "18", "BOLD">>,
     <<"GOTHIC", "24">>, <<"GOTHIC", "24", "BOLD">>, <<"GOTHIC", "28">>, <<"GOTHIC", "28", "BOLD">>,
     <<"BITHAM", "30", "BLACK">>, <<"BITHAM", "42", "BOLD">>, <<"BITHAM", "42", "LIGHT">>,
     <<"BITHAM", "42", "MEDIUM", "NUMBERS">>, <<"BITHAM", "34", "MEDIUM", "NUMBERS">>,
     <<"BITHAM", "34", "LIGHT", "SUBSET">>, <<"BITHAM", "18", "LIGHT", "SUBSET">>,
     <<"ROBOTO", "CONDENSED", "21">>, <<"ROBOTO", "BOLD", "SUBSET", "49">>,
     <<"DROID", "SERIF", "28", "BOLD">> >>

\* glob of "*pattern*" over a directory listing.
glob(listing, pattern) == SelectSeq(listing, LAMBDA name : Matches(name, pattern))

\* The contents of the resources 1, 2, ... of the pack.
resmap(listing) ==
  << mo_file >> \o
  [i \in DOMAIN font_seq |->
     LET new_pfo_match == glob(listing, font_seq[i])
     IN  IF new_pfo_match = << >> THEN << >> ELSE bytes_of(composed[new_pfo_match[1]])]

\* Mutant: data of the same length is taken for the same.
same_size(a, b) == Len(a) = Len(b)

same_data(a, b) == a = b

\* Equal data is stored once; the data is kept in the table as data_offset_map.
pack_resource(pack, data) ==
  LET known == { e \in ToSet(pack.table) : same_data(e.data, data) }
      offset == IF known # {} THEN (CHOOSE e \in known : TRUE).offset ELSE Len(pack.resource_data)
  IN  [table |-> Append(pack.table, [data |-> data, offset |-> offset]),
       resource_data |-> IF known = {} THEN pack.resource_data \o data ELSE pack.resource_data]

pack_resources(contents) ==
  LET pack == FoldLeft(pack_resource, [table |-> << >>, resource_data |-> << >>], contents)
  IN  [table |-> [i \in DOMAIN contents |->
                    [resid |-> i, offset |-> pack.table[i].offset, size |-> Len(contents[i])]],
       resource_data |-> pack.resource_data]

generate_langpack ==
  /\ step = "compose" /\ to_compose = {}
  /\ \E listing \in SetToSeqs(DOMAIN composed) : langpack' = pack_resources(resmap(listing))
  /\ step' = "packed"
  /\ UNCHANGED <<table_vars, failure, system_fonts, to_compose, shaper_result, composed>>

PackInit ==
  /\ TableInit
  /\ step = "scan" /\ failure = "none"
  /\ system_fonts = << >> /\ to_compose = {} /\ shaper_result = {}
  /\ composed = << >> /\ langpack = << >>

PackNext == Scan \/ CopyFonts \/ TakeFont \/ generate_langpack

PackSpec == PackInit /\ [][PackNext]_pack_vars

-----------------------------------------------------------------------------
(* Properties *)

\* font_read finds as many bytes of the glyph as there are; fontgen.py's RLE4
\* glyphs that are less than 4 pixels wide have more than the product of their
\* fields says.
ReadWhole(g, compressed) == whole_words(ceil(g.width * g.height, 8)) >= data_size(g, compressed)

Entries(name, shaper) ==
  LET m == members(name, shaper) IN m[3] @@ (m[2] @@ m[1])

\* In a composed font, whatever the layout and the lengths of its hash chains, the
\* watch finds for each code point one glyph, that of the last member that has it,
\* with all of its data; and nothing for other code points.
ComposedFontsWhole ==
  \A name \in DOMAIN composed, shaper \in shaper_result :
    LET pfo == composed[name]
        expected == Entries(name, shaper)
    IN  /\ { p[1] : p \in items(pfo) } = DOMAIN expected
        /\ \A c \in DOMAIN expected :
             /\ Cardinality(offsets_of(pfo, c)) = 1
             /\ ReadWhole(expected[c], pfo.compressed) => Shows(pfo, c, expected[c])

\* Every form the runtime can compute from a row of the table, the isolated code
\* point plus a delta, is shown in every composed font as the glyph of that form,
\* for letters that share glyphs and for deltas over both scratch ranges too; only
\* glyphs the unshaped characters claim are excepted.
FormsShown ==
  \A name \in DOMAIN composed, shaper \in shaper_result :
    \A i \in DOMAIN shaper.alphabet.forms :
      LET row == shaper.lut[i]
          codepts == <<row.isolated, row.isolated + row.initial, row.isolated + row.medial,
                       row.isolated + row.final>>
      IN  \A k \in 1 .. 4 :
            LET g == drawn(typeface(name), shaper.alphabet.forms[i].glyphs[k])
            IN  (/\ \A s \in ToSet(shaper.alphabet.supplement) : s.glyph # g.id[2]
                 /\ ReadWhole(g, composed[name].compressed))
                => Shows(composed[name], codepts[k], g)

\* font_write never finds an offset that does not fit its 16 bits: it decides on the
\* length of the data, without the word at its start and before the last glyph ends.
OffsetsFit == failure # "offset"

unpacked(i) ==
  SubSeq(langpack.resource_data, langpack.table[i].offset + 1,
         langpack.table[i].offset + langpack.table[i].size)

\* Although equal resources share their data and fonts may be missing, each
\* resource of the pack reads back as one of the composed fonts that were asked for
\* by its number, and is empty only if there is none: a font that was left out
\* moves no other.
ResourcesReadBack ==
  step = "packed" =>
    /\ unpacked(1) = mo_file
    /\ \A i \in DOMAIN font_seq :
         LET found == { n \in DOMAIN composed : Matches(n, font_seq[i]) }
         IN  IF found = {} THEN unpacked(i + 1) = << >>
             ELSE \E n \in found : unpacked(i + 1) = bytes_of(composed[n])

=============================================================================
