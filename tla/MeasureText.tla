---------------------------- MODULE MeasureText ----------------------------
(***************************************************************************)
(* graphics_text_layout_get_content_size(_with_attributes)_patch: measure  *)
(* a buffer, any number of times.  The patch shapes the buffer, lets the   *)
(* firmware measure it, and unshapes it.  The C version (patch.c) leaves   *)
(* the buffer shaped when the overflow mode is the cookie 0xE5; the        *)
(* assembly version of platforms without TEXT_UNSHAPE (patch.S) always     *)
(* does.                                                                   *)
(***************************************************************************)
EXTENDS TextShaper

CONSTANTS
  Platforms,        \* the platforms the patch is built for
  DualJoining,      \* Unicode joining classes of the letters in the LUT, for
  RightJoining,     \*   the properties; ligatures are listed by their "true"
  JoinCausing       \*   code point


VARIABLES
  platform,     \* the one this build is for
  measure_pc,   \* "idle", "shape", "passthru", "unshape"
  overflow_mode,
  measured      \* history: the buffers the firmware has measured

measure_vars == <<platform, measure_pc, overflow_mode, orig, measured>>
all_measure_vars == <<text, shaper_locals, measure_vars>>

COOKIE == \hE5

\* PLATFORM_UNSHAPE_MAP of patch.py.
TEXT_UNSHAPE == platform # "aplite"

MeasureInit ==
  /\ ShaperInit
  /\ text \in Texts
  /\ orig = text
  /\ platform \in Platforms
  /\ measure_pc = "idle"
  /\ overflow_mode = 0
  /\ measured = {}

Measure(mode) ==
  /\ measure_pc = "idle"
  /\ ShapeCall
  /\ measure_pc' = "shape"
  /\ overflow_mode' = mode
  /\ UNCHANGED <<platform, orig, measured>>

ShapeStep ==
  /\ measure_pc = "shape"
  /\ ShapeIterate
  /\ measure_pc' = IF shaper_pc' = "idle" THEN "passthru" ELSE "shape"
  /\ UNCHANGED <<platform, overflow_mode, orig, measured>>

\* PASSTHRU and the test of the cookie.
keeps_shape == ~TEXT_UNSHAPE \/ overflow_mode = COOKIE

PassthruAndKeep ==
  /\ measure_pc = "passthru" /\ keeps_shape
  /\ measured' = measured \cup {text}
  /\ measure_pc' = "idle"
  /\ UNCHANGED <<text, shaper_locals, platform, overflow_mode, orig>>

PassthruAndUnshape ==
  /\ measure_pc = "passthru" /\ ~keeps_shape
  /\ measured' = measured \cup {text}
  /\ UnshapeCall
  /\ measure_pc' = "unshape"
  /\ UNCHANGED <<platform, overflow_mode, orig>>

UnshapeStep ==
  /\ measure_pc = "unshape"
  /\ UnshapeIterate
  /\ measure_pc' = IF shaper_pc' = "idle" THEN "idle" ELSE "unshape"
  /\ UNCHANGED <<platform, overflow_mode, orig, measured>>

MeasureNext == \/ \E mode \in {0, COOKIE} : Measure(mode)
        \/ ShapeStep \/ PassthruAndKeep \/ PassthruAndUnshape \/ UnshapeStep

MeasureSpec == MeasureInit /\ [][MeasureNext]_all_measure_vars

\* A call is straight-line code on the caller's thread.
MeasureFairSpec == MeasureSpec /\ WF_all_measure_vars(MeasureNext /\ measure_pc # "idle")

-----------------------------------------------------------------------------
(* The reference: cursive joining as Unicode defines it, on the whole text.*)

\* The text with ligatures: the first letter becomes a mark, the second the
\* ligature's code point.
LigatureAt(t, i) ==
  IF i \in DOMAIN t /\ i + 1 \in DOMAIN t
  THEN find_ligature_by_codepts(<<codept(t[i]), codept(t[i + 1])>>) ELSE 0
Ligated(t) ==
  [i \in DOMAIN t |-> IF LigatureAt(t, i) # 0 THEN ZERO_WIDTH_CODEPT
                      ELSE IF LigatureAt(t, i - 1) # 0 THEN LigatureAt(t, i - 1)
                      ELSE t[i]]

JoinsBefore == DualJoining \cup RightJoining \cup JoinCausing
JoinsAfter == DualJoining \cup JoinCausing

\* The runes on either side of i, marks left out.
BaseBefore(u, i) == { j \in 1 .. i - 1 : ~Mark(u[j]) /\ \A k \in j + 1 .. i - 1 : Mark(u[k]) }
BaseAfter(u, i) == { j \in i + 1 .. Len(u) : ~Mark(u[j]) /\ \A k \in i + 1 .. j - 1 : Mark(u[k]) }

Joined(t) ==
  LET u == Ligated(t)
      before(i) == u[i] \in JoinsBefore /\ \E j \in BaseBefore(u, i) : u[j] \in JoinsAfter
      after(i) == u[i] \in JoinsAfter /\ \E j \in BaseAfter(u, i) : u[j] \in JoinsBefore
  IN  [i \in DOMAIN u |->
         IF find_lut_entry_by_codept(u[i]) = NULL \/ Mark(u[i]) THEN u[i]
         ELSE LET e == Entry(find_lut_entry_by_codept(u[i]))
              IN  e.isolated + (IF before(i) THEN IF after(i) THEN e.medial ELSE e.final
                                ELSE IF after(i) THEN e.initial ELSE 0)]

\* Every shapable letter of the text has one of the joining classes above.  Hamza
\* has none: with one glyph for all forms it is taken for a kashida, and the letter
\* after it is shaped as if joined (runtime/text_shaper.c:151).
AllJoin(t) ==
  \A i \in DOMAIN t : find_lut_entry_by_codept(codept(t[i])) # NULL => t[i] \in JoinsBefore

\* A letter that could join is followed by diacritics that end the word.
MarksEndWord(t) ==
  \E i \in DOMAIN t : /\ t[i] \in JoinsAfter
                      /\ i + 1 \in DOMAIN t /\ Mark(t[i + 1])
                      /\ \A j \in BaseAfter(t, i) : t[j] \notin JoinsBefore

\* The code points of the forms of a letter.
FormsOf(cp) ==
  UNION { FormCodepts(Entry(i)) : i \in {j \in DOMAIN ARABIC_SHAPER_LUT : Entry(j).true = cp} }

\* Text that can be told from shaped text.
Unshaped(t) == \A i \in DOMAIN t : codept(t[i]) \notin ARABIC_SHAPER_RANGE
ShareForm(a, b) == FormsOf(a) \intersect FormsOf(b) # {}
Bmp(t) == \A i \in DOMAIN t : t[i] < 65536

-----------------------------------------------------------------------------
(* What the proofs ask of the tables; TLC evaluates it on the small ones.  *)

\* A letter that joins only to the letter before it, as shape_text recognises it.
NoMedial(e) == e.medial = e.final /\ e.final # 0

\* The code point f is in g the form, or the forms, that it is in e.
SameForm(e, g, f) ==
  /\ e.isolated = f => g.isolated = f
  /\ e.isolated + e.initial = f => g.isolated + g.initial = f
  /\ e.isolated + e.medial = f => g.isolated + g.medial = f
  /\ e.isolated + e.final = f => g.isolated + g.final = f

LigatureLetters ==
  UNION { { ARABIC_LIGATURE_LUT[i].pattern[1], ARABIC_LIGATURE_LUT[i].pattern[2] } :
            i \in DOMAIN ARABIC_LIGATURE_LUT }

\* Letters share a glyph only with letters that join alike, for the same form, and the
\* letters of the ligatures are not among those unshape_text writes for another.
FormsReadBack ==
  \A i \in DOMAIN ARABIC_SHAPER_LUT : \A f \in FormCodepts(Entry(i)) :
    LET cp == find_base_codept_by_shaped(f)
        e == Entry(find_lut_entry_by_codept(cp))
    IN  /\ SameForm(Entry(i), e, f) /\ (NoMedial(Entry(i)) <=> NoMedial(e))
        /\ cp \in LigatureLetters \union LigatureCodepts => cp = Entry(i).true

\* The joining classes are those of letters in the LUT, the ligatures join as lam-alef
\* does, and the forms of a letter tell whether it joins to the letter after it.
JoiningClassesAgree ==
  /\ LigatureCodepts \subseteq RightJoining
  /\ JoinsBefore \subseteq { Entry(i).true : i \in DOMAIN ARABIC_SHAPER_LUT }
  /\ RightJoining \intersect JoinsAfter = {}
  /\ \A i \in DOMAIN ARABIC_SHAPER_LUT : Entry(i).true \in JoinsBefore =>
       (NoMedial(Entry(i)) <=> Entry(i).true \in RightJoining)

-----------------------------------------------------------------------------
\* Every variable holds a value of its kind.  (Of the buffer after a rune has
\* been torn apart this says nothing: see write_utf8.)
MeasureTypeOK ==
  /\ orig \in Texts
  /\ text \in [DOMAIN orig -> Nat]
  /\ platform \in Platforms
  /\ measure_pc \in {"idle", "shape", "passthru", "unshape"}
  /\ shaper_pc \in {"idle", "shape", "unshape"}
  /\ measure_pc \in {"shape", "unshape"} => shaper_pc = measure_pc
  /\ ptr \in 0 .. Len(orig) + 1
  /\ next_rune_ptr \in 0 .. Len(orig)
  /\ codept_next \in uint16
  /\ next_lut_entry \in 0 .. Len(ARABIC_SHAPER_LUT)
  /\ late_finalize_ptr \in 0 .. Len(orig)
  /\ late_finalize_lut_entry \in 0 .. Len(ARABIC_SHAPER_LUT)
  /\ state \in {"STATE_INITIAL", "STATE_MEDIAL"}
  /\ intact \in BOOLEAN
  /\ overflow_mode \in {0, COOKIE}

\* The shaper never tears a rune apart, whatever it meets between its
\* read-ahead, the late finalization and the ligatures it expands backwards.
WritesHitRunes == Bmp(orig) /\ Unshaped(orig) => intact

\* The firmware measures cursive text joined as Unicode says.
MeasuresJoined ==
  (measure_pc = "passthru" /\ AllJoin(orig) /\ Unshaped(orig) /\ Bmp(orig)
     /\ ~MarksEndWord(orig))
    => text = Joined(orig)

\* A measurement does not depend on the earlier ones, nor on whether they
\* left the buffer shaped.
MeasureStable == Unshaped(orig) /\ Bmp(orig) => \A m1, m2 \in measured : m1 = m2

\* After a call without the cookie the application has its text back, also
\* when an earlier call had left it shaped; but for letters that share a glyph,
\* which unshape_text cannot tell apart.
TextGivenBack ==
  (/\ measure_pc = "idle" /\ measured # {} /\ ~keeps_shape
   /\ Unshaped(orig) /\ Bmp(orig))
    => \A i \in DOMAIN orig : text[i] = orig[i] \/ ShareForm(text[i], orig[i])

\* Every measurement ends, as long as the buffer is followed.
MeasureCompletes == measure_pc # "idle" ~> measure_pc = "idle" \/ ~intact

-----------------------------------------------------------------------------
(* What the repository says, and the code does not do.                     *)

\* fonts/compose.py:30: diacritics are dropped from rendering, being zero-width:
\* the letters take the forms they have without them.
MarksDropped ==
  (measure_pc = "passthru" /\ AllJoin(orig) /\ Unshaped(orig) /\ Bmp(orig))
    => text = Joined(orig)

=============================================================================
