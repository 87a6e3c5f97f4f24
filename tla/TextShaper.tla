----------------------------- MODULE TextShaper -----------------------------
(***************************************************************************)
(* runtime/text_shaper.c: shape_text replaces the letters of a buffer by   *)
(* scratch code points for their contextual forms and ligatures,           *)
(* unshape_text undoes it.  Both rewrite the buffer in place: a write goes *)
(* to two bytes, so it must hit a rune of two bytes.                       *)
(*                                                                         *)
(* shape_text's do-while loop is the state machine below: one action per   *)
(* branch of its body.  Its ligature_span is 0 whenever an iteration       *)
(* begins (it is set and counted down within one), so it is no variable.   *)
(***************************************************************************)
EXTENDS TextBuffer, Integers

CONSTANTS
  ARABIC_SHAPER_LUT,    \* sequence of [true, isolated, initial, medial, final];
                        \* the last three are signed deltas to isolated
  ARABIC_LIGATURE_LUT   \* sequence of [pattern : <<codept, codept>>, codept]

int8 == -128 .. 127

\* The code points of the four forms of a LUT entry.
FormCodepts(e) ==
  {e.isolated, e.isolated + e.initial, e.isolated + e.medial, e.isolated + e.final}
LigatureCodepts == { ARABIC_LIGATURE_LUT[i].codept : i \in DOMAIN ARABIC_LIGATURE_LUT }

\* What pack_lut guarantees: forms and ligatures have scratch code points, and no code
\* point is both a ligature and a form; letters are not scratch code points; each
\* ligature has a code point of its own, and an entry for it.  In the fonts, no ligature
\* shares a glyph with a letter.
ASSUME LutAssumption ==
  /\ ARABIC_SHAPER_RANGE \subseteq TwoBytes /\ ZERO_WIDTH_CODEPT \notin ARABIC_SHAPER_RANGE
  /\ ARABIC_SHAPER_LUT \in
       Seq([true : (TwoBytes \ ARABIC_SHAPER_RANGE) \union LigatureCodepts,
            isolated : ARABIC_SHAPER_RANGE, initial : int8, medial : int8, final : int8])
  /\ ARABIC_LIGATURE_LUT \in
       Seq([pattern : (TwoBytes \ ARABIC_SHAPER_RANGE) \X (TwoBytes \ ARABIC_SHAPER_RANGE),
            codept : ARABIC_SHAPER_RANGE])
  /\ \A i \in DOMAIN ARABIC_SHAPER_LUT :
       FormCodepts(ARABIC_SHAPER_LUT[i]) \subseteq ARABIC_SHAPER_RANGE \ LigatureCodepts
  /\ \A i, j \in DOMAIN ARABIC_SHAPER_LUT :
       FormCodepts(ARABIC_SHAPER_LUT[i]) \intersect FormCodepts(ARABIC_SHAPER_LUT[j]) # {} =>
         (ARABIC_SHAPER_LUT[i].true \in LigatureCodepts
            <=> ARABIC_SHAPER_LUT[j].true \in LigatureCodepts)
  /\ \A i, j \in DOMAIN ARABIC_LIGATURE_LUT :
       ARABIC_LIGATURE_LUT[i].codept = ARABIC_LIGATURE_LUT[j].codept => i = j
  /\ LigatureCodepts \subseteq { ARABIC_SHAPER_LUT[i].true : i \in DOMAIN ARABIC_SHAPER_LUT }

\* A right-to-left letter.
RtlLetter(cp) == is_rtl(cp) /\ ~is_neutral(cp) /\ ~is_weak_ltr(cp)

\* The alphabet fonts/text_shaper.py is given: letters, none of them punctuation, a
\* diacritic or a numeral.  Those of the ligatures are in it, and no letter both ends
\* a ligature and begins one.
ASSUME ScriptAssumption ==
  /\ \A i \in DOMAIN ARABIC_SHAPER_LUT :
       ARABIC_SHAPER_LUT[i].true \notin LigatureCodepts => RtlLetter(ARABIC_SHAPER_LUT[i].true)
  /\ \A i \in DOMAIN ARABIC_LIGATURE_LUT : \A k \in 1 .. 2 :
       /\ RtlLetter(ARABIC_LIGATURE_LUT[i].pattern[k])
       /\ \E j \in DOMAIN ARABIC_SHAPER_LUT :
            ARABIC_SHAPER_LUT[j].true = ARABIC_LIGATURE_LUT[i].pattern[k]
  /\ \A i, j \in DOMAIN ARABIC_LIGATURE_LUT :
       ARABIC_LIGATURE_LUT[i].pattern[2] # ARABIC_LIGATURE_LUT[j].pattern[1]

VARIABLES
  shaper_pc,                \* "idle", "shape" or "unshape": the loop that runs
  ptr,                      \* next rune to read (iter in unshape_text)
  next_rune_ptr,            \* next_codept_ptr of shape_text
  codept_next,              \* codept_buffer[NEXT_CODEPT]
  next_lut_entry,           \* index of its LUT entry, or NULL
  late_finalize_ptr,
  late_finalize_lut_entry,
  state,                    \* STATE_INITIAL or STATE_MEDIAL
  intact                    \* history: every write so far hit a two-byte rune, and
                            \*   text is what the buffer holds

shaper_locals == <<shaper_pc, ptr, next_rune_ptr, codept_next, next_lut_entry,
                   late_finalize_ptr, late_finalize_lut_entry, state, intact>>

Entry(i) == ARABIC_SHAPER_LUT[i]
First(S) == CHOOSE i \in S : \A j \in S : i <= j

\* The index of the entry, or NULL.  The range test of the code,
\* codept < 0x600 && codept > 0x6ff, is never true.
find_lut_entry_by_codept(cp) ==
  LET hits == { i \in DOMAIN ARABIC_SHAPER_LUT : Entry(i).true = cp }
  IN  IF hits = {} THEN NULL ELSE First(hits)

\* Mutant: final forms are not looked up.
find_base_not_final(cp) ==
  LET hits == { i \in DOMAIN ARABIC_SHAPER_LUT :
                  cp - Entry(i).isolated \in {0, Entry(i).initial, Entry(i).medial} }
  IN  IF hits = {} THEN 0 ELSE Entry(First(hits)).true

\* The letter one of whose forms is cp; the first one if several share a glyph.
find_base_codept_by_shaped(cp) ==
  LET hits == { i \in DOMAIN ARABIC_SHAPER_LUT :
                  cp - Entry(i).isolated \in
                    {0, Entry(i).initial, Entry(i).medial, Entry(i).final} }
  IN  IF hits = {} THEN 0 ELSE Entry(First(hits)).true

find_ligature_by_codepts(pattern) ==
  LET hits == { i \in DOMAIN ARABIC_LIGATURE_LUT : ARABIC_LIGATURE_LUT[i].pattern = pattern }
  IN  IF hits = {} THEN 0 ELSE ARABIC_LIGATURE_LUT[First(hits)].codept

\* write_utf8 writes the two bytes of cp at p, whatever is there.  Over a rune
\* of two bytes that replaces the rune.  Anywhere else (y and x before a
\* ligature, say) it tears runes apart: intact turns FALSE for good, and the
\* buffer is not followed any further.  What the model then has in text is not
\* what the buffer holds, so every property about the buffer asks for intact,
\* states it, or is about texts it is shown for.
write_utf8(t, p, cp) ==
  IF p \in DOMAIN t /\ t[p] \in TwoBytes THEN [t EXCEPT ![p] = cp] ELSE t
writable(t, p) == p \in DOMAIN t /\ t[p] \in TwoBytes

-----------------------------------------------------------------------------
ShapeCall ==
  /\ shaper_pc = "idle"
  /\ shaper_pc' = "shape"
  /\ ptr' = 1
  /\ next_rune_ptr' = NULL      \* uninitialised in the code, and not used
  /\ codept_next' = 0
  /\ next_lut_entry' = NULL
  /\ late_finalize_ptr' = NULL
  /\ late_finalize_lut_entry' = NULL
  /\ state' = "STATE_INITIAL"
  /\ UNCHANGED <<text, intact>>

\* The locals of one iteration.
this_rune_ptr == next_rune_ptr
codept_this == codept_next
this_lut_entry == next_lut_entry
unread == ptr \in DOMAIN text
lig_codept ==
  IF unread THEN find_ligature_by_codepts(<<codept_this, codept(text[ptr])>>) ELSE 0
read_codept ==
  IF ~unread THEN 0 ELSE IF lig_codept # 0 THEN lig_codept ELSE codept(text[ptr])
read_lut_entry == IF unread THEN find_lut_entry_by_codept(read_codept) ELSE NULL

\* Mutant: the look-ahead pointer is left behind at the end of the text.
ReadForwardPastEnd ==
  /\ shaper_pc = "shape"
  /\ ptr' = IF unread THEN ptr + 1 ELSE ptr
  /\ next_rune_ptr' = ptr
  /\ codept_next' = read_codept
  /\ next_lut_entry' = read_lut_entry
  /\ shaper_pc' = IF codept_this # 0 \/ read_codept # 0 THEN "shape" ELSE "idle"

\* Mutant: read_utf8 does not advance its caller's pointer.
ReadForwardInPlace ==
  /\ shaper_pc = "shape"
  /\ UNCHANGED ptr
  /\ next_rune_ptr' = IF unread THEN ptr ELSE NULL
  /\ codept_next' = read_codept
  /\ next_lut_entry' = read_lut_entry
  /\ shaper_pc' = IF codept_this # 0 \/ read_codept # 0 THEN "shape" ELSE "idle"

\* The read-ahead at the top of the body and the test at its bottom.
ReadForward ==
  /\ shaper_pc = "shape"
  /\ ptr' = IF unread THEN ptr + 1 ELSE ptr
  /\ next_rune_ptr' = IF unread THEN ptr ELSE NULL
  /\ codept_next' = read_codept
  /\ next_lut_entry' = read_lut_entry
  /\ shaper_pc' = IF codept_this # 0 \/ read_codept # 0 THEN "shape" ELSE "idle"

Write(p, cp) ==
  /\ text' = write_utf8(text, p, cp)
  /\ intact' = (intact /\ writable(text, p))

ligates == lig_codept # 0
marks == ~ligates /\ is_zero_width(codept_this)
shapes == ~ligates /\ ~marks /\ this_lut_entry # NULL

\* Mutant: without the exception for kashida.
finishes_kashida ==
  \/ read_lut_entry = NULL /\ ~is_zero_width(read_codept)
  \/ Entry(this_lut_entry).medial = Entry(this_lut_entry).final

\* Final or isolated form: an unshapable rune is next, or there is no medial
\* form (it equals the final one, and both differ from the isolated form).
finishes ==
  \/ read_lut_entry = NULL /\ ~is_zero_width(read_codept)
  \/ /\ Entry(this_lut_entry).medial = Entry(this_lut_entry).final
     /\ Entry(this_lut_entry).final # 0

\* Mutant: the first letter of the ligature is not blanked.
LigateLeavingFirst ==
  /\ ReadForward
  /\ ligates
  /\ UNCHANGED <<text, intact, late_finalize_ptr, late_finalize_lut_entry, state>>

Ligate ==
  /\ ReadForward
  /\ ligates
  /\ Write(this_rune_ptr, ZERO_WIDTH_CODEPT)
  /\ UNCHANGED <<late_finalize_ptr, late_finalize_lut_entry, state>>

SkipMark ==
  /\ ReadForward
  /\ marks
  /\ UNCHANGED <<text, late_finalize_ptr, late_finalize_lut_entry, state, intact>>

ShapeLast ==
  /\ ReadForward
  /\ shapes /\ finishes
  /\ LET e == Entry(this_lut_entry)
     IN  Write(this_rune_ptr,
               IF state = "STATE_INITIAL" THEN e.isolated ELSE e.isolated + e.final)
  /\ late_finalize_ptr' = NULL
  /\ state' = "STATE_INITIAL"
  /\ UNCHANGED late_finalize_lut_entry

ShapeJoined ==
  /\ ReadForward
  /\ shapes /\ ~finishes
  /\ LET e == Entry(this_lut_entry)
     IN  Write(this_rune_ptr,
               e.isolated + (IF state = "STATE_INITIAL" THEN e.initial ELSE e.medial))
  /\ late_finalize_ptr' = this_rune_ptr
  /\ late_finalize_lut_entry' = this_lut_entry
  /\ state' = "STATE_MEDIAL"

\* Not a shapable rune: close the word if diacritics hid its end.
EndWord ==
  /\ ReadForward
  /\ ~ligates /\ ~marks /\ ~shapes
  /\ IF late_finalize_ptr # NULL
     THEN LET e == Entry(late_finalize_lut_entry)
          IN  Write(late_finalize_ptr,
                    IF state = "STATE_INITIAL" THEN e.isolated ELSE e.isolated + e.final)
     ELSE UNCHANGED <<text, intact>>
  /\ late_finalize_ptr' = NULL
  /\ state' = "STATE_INITIAL"
  /\ UNCHANGED late_finalize_lut_entry

ShapeIterate == Ligate \/ SkipMark \/ ShapeLast \/ ShapeJoined \/ EndWord

-----------------------------------------------------------------------------
UnshapeCall ==
  /\ shaper_pc = "idle"
  /\ shaper_pc' = "unshape"
  /\ ptr' = 1
  /\ UNCHANGED <<text, next_rune_ptr, codept_next, next_lut_entry,
                 late_finalize_ptr, late_finalize_lut_entry, state, intact>>

unshape_locals == <<next_rune_ptr, codept_next, next_lut_entry,
                    late_finalize_ptr, late_finalize_lut_entry, state>>

old_codept ==
  IF codept(text[ptr]) \in ARABIC_SHAPER_RANGE
  THEN find_base_codept_by_shaped(codept(text[ptr])) ELSE 0
old_ligature == { i \in DOMAIN ARABIC_LIGATURE_LUT : ARABIC_LIGATURE_LUT[i].codept = old_codept }

LeaveRune ==
  /\ shaper_pc = "unshape" /\ unread
  /\ old_codept = 0
  /\ ptr' = ptr + 1
  /\ UNCHANGED <<text, shaper_pc, unshape_locals, intact>>

RestoreRune ==
  /\ shaper_pc = "unshape" /\ unread
  /\ old_codept # 0 /\ old_ligature = {}
  /\ Write(ptr, old_codept)
  /\ ptr' = ptr + 1
  /\ UNCHANGED <<shaper_pc, unshape_locals>>

\* Mutant: the pattern starts one rune too early.
expand_ligature_early ==
  /\ shaper_pc = "unshape" /\ unread
  /\ old_codept # 0 /\ old_ligature # {}
  /\ LET p == ARABIC_LIGATURE_LUT[First(old_ligature)].pattern
     IN  text' = write_utf8(write_utf8(text, ptr - 2, p[1]), ptr - 1, p[2])
  /\ intact' = (intact /\ writable(text, ptr - 2) /\ writable(text, ptr - 1))
  /\ ptr' = ptr + 1
  /\ UNCHANGED <<shaper_pc, unshape_locals>>

\* Mutant: the pointer is not advanced from the first letter to the second.
expand_ligature_in_place ==
  /\ shaper_pc = "unshape" /\ unread
  /\ old_codept # 0 /\ old_ligature # {}
  /\ LET p == ARABIC_LIGATURE_LUT[First(old_ligature)].pattern
     IN  text' = write_utf8(write_utf8(text, ptr - 1, p[1]), ptr - 1, p[2])
  /\ intact' = (intact /\ writable(text, ptr - 1))
  /\ ptr' = ptr + 1
  /\ UNCHANGED <<shaper_pc, unshape_locals>>

\* expand_ligature writes the pattern over the rune before the ligature,
\* which it takes to be the two-byte rune the shaper left there.
expand_ligature ==
  /\ shaper_pc = "unshape" /\ unread
  /\ old_codept # 0 /\ old_ligature # {}
  /\ LET p == ARABIC_LIGATURE_LUT[First(old_ligature)].pattern
     IN  text' = write_utf8(write_utf8(text, ptr - 1, p[1]), ptr, p[2])
  /\ intact' = (intact /\ writable(text, ptr - 1) /\ writable(text, ptr))
  /\ ptr' = ptr + 1
  /\ UNCHANGED <<shaper_pc, unshape_locals>>

UnshapeReturn ==
  /\ shaper_pc = "unshape" /\ ~unread
  /\ shaper_pc' = "idle"
  /\ UNCHANGED <<text, ptr, unshape_locals, intact>>

UnshapeIterate == LeaveRune \/ RestoreRune \/ expand_ligature \/ UnshapeReturn

ShaperInit ==
  /\ shaper_pc = "idle" /\ ptr = NULL /\ next_rune_ptr = NULL /\ codept_next = 0
  /\ next_lut_entry = NULL /\ late_finalize_ptr = NULL
  /\ late_finalize_lut_entry = NULL /\ state = "STATE_INITIAL" /\ intact = TRUE

=============================================================================
