--------------------------- MODULE DrawTextProofs ---------------------------
(***************************************************************************)
(* For all tables, texts and lines, and all sequences of draws and         *)
(* measurements on one buffer: the routines that rewrite the buffer never  *)
(* run at the same time, and all their pointers stay in bounds; and as     *)
(* long as no rune has been torn apart, no left-to-right letter is moved   *)
(* or overwritten, and the alignment is that of the text the application   *)
(* wrote.  rtl_apply is given a buffer that the shaper, and its own        *)
(* earlier runs, have left in an arbitrary state: the proof rests on       *)
(* RtlInv, which does not mention the application's text.                  *)
(***************************************************************************)
EXTENDS DrawText, RenderWrapProofs, MeasureTextProofs

\* Which of the routines runs, and what only the draw functions use.
OneRoutine ==
  /\ draw_pc \in {"idle", "shape", "align", "layout", "unshape"}
  /\ draw_pc \in {"shape", "unshape"} => shaper_pc = draw_pc
  /\ draw_pc \in {"align", "layout"} => shaper_pc = "idle"
  /\ wrap_pc \in {"idle", "step1", "rtl1", "handler", "step2", "rtl2"}
  /\ wrap_pc \in {"rtl1", "rtl2"} <=> rtl_pc # "idle"
  /\ wrap_pc # "idle" => draw_pc = "layout"
  /\ measure_pc # "idle" => draw_pc = "idle"
DrawArguments ==
  /\ asked \in GTextAlignment /\ alignment \in GTextAlignment
  /\ laid_out \in 1 .. Len(orig) + 2
  /\ in_ram \in BOOLEAN

DrawInv == RtlInv /\ ShaperType /\ CallType /\ OneRoutine /\ DrawArguments

LEMMA DrawInvType == DrawInv => DrawTypeOK
<1> SUFFICES ASSUME DrawInv PROVE DrawTypeOK
  OBVIOUS
<1>1. MeasureTypeOK
  BY TypeSplit DEF DrawInv
<1>2. TypeOK
  BY <1>1, Shape DEF DrawInv, RtlInv, RtlType, CallType, OneRoutine, DrawArguments, TypeOK
<1> QED BY <1>1, <1>2 DEF DrawInv, OneRoutine, DrawArguments, DrawTypeOK

\* A step of the shaper, whoever called it.
LEMMA ShaperStepDraws ==
  ASSUME DrawInv, rtl_pc = "idle",
         UNCHANGED <<rtl_locals, wrap_vars>>,
         \/ ShapeCall \/ UnshapeCall
         \/ shaper_pc = "shape" /\ ShapeIterate
         \/ shaper_pc = "unshape" /\ UnshapeIterate
  PROVE  RtlInv' /\ ShaperType'
<1>1. orig' = orig
  BY DEF wrap_vars
<1>2. ShaperType'
  BY <1>1, ShaperStepSafe DEF DrawInv
<1>3. text' \in [1 .. Len(orig) -> Nat]
  BY <1>1, <1>2 DEF ShaperType
<1>4. RtlInv'
  BY <1>3 DEF DrawInv, RtlInv, RtlType, Pointers, SpanHoldsNoLetter, rtl_locals, wrap_vars
<1> QED BY <1>2, <1>4

\* A step of rtl_apply.
LEMMA MovesKeepShaper ==
  ASSUME DrawInv, Moves, UNCHANGED <<orig, shaper_locals>>
  PROVE  ShaperType'
<1>1. text' \in [1 .. Len(orig) -> Nat]
  BY DEF Moves, Rearranged
<1> QED BY <1>1 DEF DrawInv, ShaperType, shaper_locals

-----------------------------------------------------------------------------
(* One lemma per group of actions.                                         *)

LEMMA DrawInit_Inv == DrawInit => DrawInv
<1> SUFFICES ASSUME DrawInit PROVE DrawInv
  OBVIOUS
<1>1. ShaperType /\ CallType /\ text = orig
  BY MeasureInit_Inv DEF DrawInit, MeasureInv, MeasureInit
<1>2. RtlInv
  <2>1. /\ Len(orig) \in Nat /\ orig \in Seq(Nat) /\ text \in [1 .. Len(orig) -> Nat]
    BY <1>1, TextFacts DEF ShaperType
  <2>2. /\ line_start = 1 /\ line_limit = 1 /\ rtl_pc = "idle" /\ line_end = 0 /\ iter_ptr = 0
        /\ next_codept_ptr = 0 /\ rtl_span_start = 0 /\ weak_ltr_span_start = 0
        /\ did_transform = FALSE
    BY DEF DrawInit, RtlInit, NULL
  <2>3. 1 \in 1 .. Len(orig) + 1 /\ 0 \in 0 .. Len(orig) /\ 0 \in 0 .. Len(orig) + 1
    BY <2>1
  <2>4. RtlType
    BY <2>1, <2>2, <2>3 DEF RtlType
  <2> QED BY <2>2, <2>4 DEF RtlInv, Pointers, SpanHoldsNoLetter
<1>3. OneRoutine
  BY DEF DrawInit, RtlInit, MeasureInit, ShaperInit, OneRoutine
<1>4. DrawArguments
  BY <1>1, TextFacts DEF DrawInit, DrawArguments, GTextAlignment
<1> QED BY <1>1, <1>2, <1>3, <1>4 DEF DrawInv

\* The call of graphics_draw_text, its shaping and its unshaping.
LEMMA ShaperStepsDraw ==
  ASSUME DrawInv, (\E a \in GTextAlignment : DrawCall(a)) \/ DrawShapeStep \/ DrawUnshapeStep
  PROVE  DrawInv'
<1>1. UNCHANGED <<rtl_locals, wrap_vars, measure_vars>>
  BY DEF DrawCall, DrawShapeStep, DrawUnshapeStep
<1>2. /\ \/ ShapeCall
         \/ shaper_pc = "shape" /\ ShapeIterate
         \/ shaper_pc = "unshape" /\ UnshapeIterate
      /\ rtl_pc = "idle" /\ measure_pc = "idle"
  BY DEF DrawInv, OneRoutine, CallType, DrawCall, DrawShapeStep, DrawUnshapeStep
<1>3. RtlInv' /\ ShaperType'
  BY <1>1, <1>2, ShaperStepDraws
<1>4. CallType'
  BY <1>1, <1>2 DEF DrawInv, CallType, measure_vars
<1>5. OneRoutine'
  <2>1. CASE \E a \in GTextAlignment : DrawCall(a)
    BY <1>1, <2>1 DEF DrawInv, OneRoutine, DrawCall, ShapeCall, rtl_locals, wrap_vars, measure_vars
  <2>2. CASE DrawShapeStep
    <3>1. shaper_pc' \in {"shape", "idle"}
      BY <1>1, <2>2, ShapeIterateType DEF DrawInv, DrawShapeStep, wrap_vars
    <3> QED BY <1>1, <1>2, <2>2, <3>1
            DEF DrawInv, OneRoutine, DrawShapeStep, rtl_locals, wrap_vars, measure_vars
  <2>3. CASE DrawUnshapeStep
    <3>1. shaper_pc' \in {"unshape", "idle"}
      BY <1>1, <2>3, UnshapeIterateType DEF DrawInv, DrawUnshapeStep, wrap_vars
    <3> QED BY <1>1, <1>2, <2>3, <3>1
            DEF DrawInv, OneRoutine, DrawUnshapeStep, rtl_locals, wrap_vars, measure_vars
  <2> QED BY <2>1, <2>2, <2>3
<1>6. DrawArguments'
  BY <1>1 DEF DrawInv, DrawArguments, DrawCall, DrawShapeStep, DrawUnshapeStep, wrap_vars
<1> QED BY <1>3, <1>4, <1>5, <1>6 DEF DrawInv

\* The alignment, the layout of a line, and the return without unshaping: the
\* buffer and the shaper stay as they are.
LEMMA LayoutStepsDraw ==
  ASSUME DrawInv, gdt_alignment_step \/ LayoutLine \/ DrawReturn
  PROVE  DrawInv'
<1>1. UNCHANGED <<text, orig, rtl_locals, shaper_locals, measure_vars, in_ram>>
  BY DEF gdt_alignment_step, LayoutLine, DrawReturn, LayoutReturn, wrap_vars
<1>2. ShaperType' /\ CallType'
  BY <1>1 DEF DrawInv, ShaperType, CallType, shaper_locals, measure_vars
<1>3. /\ orig \in Texts /\ Len(orig) \in Nat
  BY Shape DEF DrawInv, CallType
<1>4. CASE gdt_alignment_step
  <2>1. OneRoutine' /\ DrawArguments'
    BY <1>1, <1>3, <1>4 DEF gdt_alignment_step, DrawInv, OneRoutine, DrawArguments, aligned,
           GTextAlignment, rtl_locals, wrap_vars, measure_vars, shaper_locals
  <2>2. RtlInv'
    BY <1>1, <1>4 DEF gdt_alignment_step, DrawInv, RtlInv, RtlType, Pointers, SpanHoldsNoLetter,
           in_span, span_seen, rtl_locals, wrap_vars
  <2> QED BY <1>2, <2>1, <2>2 DEF DrawInv
<1>5. CASE LayoutLine
  <2>1. rtl_pc = "idle" /\ rtl_pc' = "idle"
    BY <1>1, <1>5 DEF LayoutLine, DrawInv, OneRoutine, rtl_locals
  <2>2. PICK l \in Lines(orig) :
          /\ line_start' = l[1] /\ line_limit' = l[2]
          /\ laid_out' = IF l[1] < l[2] THEN l[2] ELSE l[2] + 1
    BY <1>5 DEF LayoutLine
  <2>3. l[1] \in 1 .. Len(orig) + 1 /\ l[2] \in l[1] .. Len(orig) + 1
    BY <1>3, LinesAssumption
  <2>4. RtlInv'
    BY <1>1, <2>1, <2>2, <2>3 DEF DrawInv, RtlInv, RtlType, Pointers, SpanHoldsNoLetter, rtl_locals
  <2>5. laid_out' \in 1 .. Len(orig) + 2
    BY <1>3, <2>2, <2>3
  <2>6. OneRoutine' /\ DrawArguments'
    BY <1>1, <1>5, <2>1, <2>5 DEF LayoutLine, DrawInv, OneRoutine, DrawArguments, shaper_locals,
           measure_vars
  <2> QED BY <1>2, <2>4, <2>6 DEF DrawInv
<1>6. CASE DrawReturn
  <2>1. /\ rtl_pc = "idle" /\ rtl_pc' = "idle" /\ line_start' = 1 /\ line_limit' = 1
        /\ draw_pc = "layout" /\ draw_pc' = "idle" /\ wrap_pc' = "idle"
        /\ laid_out' = 1 /\ asked' = "Left" /\ alignment' = "Left"
    BY <1>1, <1>6 DEF DrawReturn, LayoutReturn, DrawInv, OneRoutine, rtl_locals
  <2>2. RtlInv'
    BY <1>1, <1>3, <2>1 DEF DrawInv, RtlInv, RtlType, Pointers, SpanHoldsNoLetter, rtl_locals
  <2>3. OneRoutine' /\ DrawArguments'
    BY <1>1, <1>3, <2>1 DEF DrawInv, OneRoutine, DrawArguments, GTextAlignment, shaper_locals,
           measure_vars
  <2> QED BY <1>2, <2>2, <2>3 DEF DrawInv
<1> QED BY <1>4, <1>5, <1>6

\* The end of graphics_draw_text where the buffer is unshaped.
LEMMA UnshapeDraws ==
  ASSUME DrawInv, graphics_draw_text_unshape
  PROVE  DrawInv'
<1>1. /\ orig' = orig /\ UNCHANGED <<rtl_locals, measure_vars, in_ram>> /\ UnshapeCall
      /\ rtl_pc = "idle" /\ rtl_pc' = "idle" /\ line_start' = 1 /\ line_limit' = 1
      /\ draw_pc = "layout" /\ draw_pc' = "unshape" /\ wrap_pc' = "idle" /\ measure_pc = "idle"
      /\ laid_out' = 1 /\ asked' = "Left" /\ alignment' = "Left"
      /\ text' = text /\ shaper_pc' = "unshape"
  BY DEF graphics_draw_text_unshape, LayoutReturn, DrawInv, OneRoutine, rtl_locals, UnshapeCall
<1>2. ShaperType'
  BY <1>1, ShaperStepSafe DEF DrawInv
<1>3. Len(orig) \in Nat
  BY Shape DEF DrawInv
<1>4. RtlInv'
  BY <1>1, <1>3 DEF DrawInv, RtlInv, RtlType, Pointers, SpanHoldsNoLetter, rtl_locals
<1>5. OneRoutine' /\ DrawArguments'
  BY <1>1, <1>3 DEF DrawInv, OneRoutine, DrawArguments, GTextAlignment, measure_vars
<1>6. CallType'
  BY <1>1 DEF DrawInv, CallType, measure_vars
<1> QED BY <1>2, <1>4, <1>5, <1>6 DEF DrawInv

\* The stub around the render handler.
LEMMA RenderDraws ==
  ASSUME DrawInv, RenderLine
  PROVE  DrawInv'
<1>1. /\ draw_pc = "layout" /\ UNCHANGED <<shaper_locals, measure_vars, draw_vars>>
      /\ orig' = orig
      /\ render_rtl_step \/ SkipStep \/ RtlStep \/ EndStep \/ RenderHandler
  BY DEF RenderLine, measure_vars
<1>2. CallType' /\ DrawArguments'
  BY <1>1 DEF DrawInv, CallType, DrawArguments, shaper_locals, measure_vars, draw_vars,
         render_rtl_step, SkipStep, RtlStep, EndStep, RenderHandler, wrap_vars
<1>3. /\ wrap_pc' \in {"idle", "step1", "rtl1", "handler", "step2", "rtl2"}
      /\ wrap_pc' \in {"rtl1", "rtl2"} <=> rtl_pc' # "idle"
  BY <1>1 DEF DrawInv, OneRoutine, render_rtl_step, RtlCall, SkipStep, RtlStep, RtlIterate,
         OpenSpan, ContinueSpan, CloseSpan, PassOver, ReadAhead, EndStep, RtlReturn,
         RenderHandler, wrap_vars, rtl_locals
<1>4. OneRoutine'
  BY <1>1, <1>3 DEF DrawInv, OneRoutine, shaper_locals, measure_vars, draw_vars
<1>5. CASE render_rtl_step
  <2>1. RtlInv' /\ text' = text
    BY <1>5, CallKeepsRtl DEF DrawInv
  <2> QED BY <1>1, <1>2, <1>4, <2>1 DEF DrawInv, ShaperType, shaper_locals
<1>6. CASE RtlStep
  <2>1. RtlInv' /\ Moves
    BY <1>6, RtlIterateKeeps DEF DrawInv, RtlStep
  <2> QED BY <1>1, <1>2, <1>4, <2>1, MovesKeepShaper DEF DrawInv
<1>7. CASE EndStep
  <2>1. RtlInv' /\ Moves
    BY <1>7, ReturnKeeps DEF DrawInv, EndStep
  <2> QED BY <1>1, <1>2, <1>4, <2>1, MovesKeepShaper DEF DrawInv
<1>8. CASE SkipStep \/ RenderHandler
  <2>1. text' = text /\ UNCHANGED <<rtl_locals, line_start, line_limit, in_ram>>
    BY <1>8 DEF SkipStep, RenderHandler
  <2>2. RtlInv'
    BY <1>1, <2>1 DEF DrawInv, RtlInv, RtlType, Pointers, SpanHoldsNoLetter, in_span, span_seen,
           rtl_locals
  <2> QED BY <1>1, <1>2, <1>4, <2>1, <2>2 DEF DrawInv, ShaperType, shaper_locals
<1> QED BY <1>1, <1>5, <1>6, <1>7, <1>8

\* A step of a measurement.
LEMMA MeasureDraws ==
  ASSUME DrawInv, MeasureStep
  PROVE  DrawInv'
<1>1. /\ draw_pc = "idle" /\ MeasureNext /\ UNCHANGED <<rtl_locals, wrap_vars, draw_vars>>
      /\ rtl_pc = "idle" /\ orig' = orig
  BY DEF MeasureStep, DrawInv, OneRoutine, wrap_vars
<1>2. ShaperType' /\ CallType'
  BY <1>1, MeasureNextSafe DEF DrawInv
<1>3. OneRoutine' /\ DrawArguments'
  BY <1>1 DEF DrawInv, OneRoutine, DrawArguments, rtl_locals, wrap_vars, draw_vars
<1>4. CASE PassthruAndKeep
  <2>1. text' = text
    BY <1>4 DEF PassthruAndKeep
  <2>2. RtlInv'
    BY <1>1, <2>1 DEF DrawInv, RtlInv, RtlType, Pointers, SpanHoldsNoLetter,
           in_span, span_seen, rtl_locals, wrap_vars
  <2> QED BY <1>2, <1>3, <2>2 DEF DrawInv
<1>5. CASE ~PassthruAndKeep
  <2>1. \/ ShapeCall \/ UnshapeCall
        \/ shaper_pc = "shape" /\ ShapeIterate
        \/ shaper_pc = "unshape" /\ UnshapeIterate
    BY <1>1, <1>5 DEF MeasureNext, Measure, ShapeStep, PassthruAndUnshape, UnshapeStep, DrawInv,
           CallType
  <2>2. RtlInv'
    BY <1>1, <2>1, ShaperStepDraws
  <2> QED BY <1>2, <1>3, <2>2 DEF DrawInv
<1> QED BY <1>4, <1>5

LEMMA DrawNext_Inv == DrawInv /\ [DrawNext]_all_vars => DrawInv'
<1> SUFFICES ASSUME DrawInv, [DrawNext]_all_vars PROVE DrawInv'
  OBVIOUS
<1>1. CASE UNCHANGED all_vars
  <2>1. UNCHANGED <<text, rtl_locals, wrap_vars, shaper_locals, measure_vars, draw_vars>>
    BY <1>1 DEF all_vars
  <2>2. RtlInv'
    BY <2>1 DEF DrawInv, RtlInv, RtlType, Pointers, SpanHoldsNoLetter, in_span, span_seen,
           rtl_locals, wrap_vars
  <2>3. ShaperType'
    BY <2>1 DEF DrawInv, ShaperType, shaper_locals, wrap_vars
  <2>4. CallType'
    BY <2>1 DEF DrawInv, CallType, shaper_locals, measure_vars
  <2>5. OneRoutine'
    BY <2>1 DEF DrawInv, OneRoutine, rtl_locals, wrap_vars, shaper_locals, measure_vars, draw_vars
  <2>6. DrawArguments'
    BY <2>1 DEF DrawInv, DrawArguments, wrap_vars, draw_vars
  <2> QED BY <2>2, <2>3, <2>4, <2>5, <2>6 DEF DrawInv
<1>2. CASE DrawNext
  BY <1>2, ShaperStepsDraw, LayoutStepsDraw, UnshapeDraws, RenderDraws, MeasureDraws DEF DrawNext
<1> QED BY <1>1, <1>2

LEMMA DrawInvariance == DrawSpec => []DrawInv
<1> QED BY DrawInit_Inv, DrawNext_Inv, PTL DEF DrawSpec

-----------------------------------------------------------------------------
\* Whatever an application draws and measures, only one of the routines works
\* on its buffer at a time, and every pointer stays within it.
THEOREM DrawTypeCorrect == DrawSpec => []DrawTypeOK
<1> QED BY DrawInvType, DrawInvariance, PTL

-----------------------------------------------------------------------------
(* The letters, and the alignment.  gdt_alignment_step looks for the first *)
(* right-to-left letter that no left-to-right letter precedes, in a buffer *)
(* that has been shaped, reordered and unshaped any number of times.       *)
(* Reordering stays between two left-to-right letters, and the shaper      *)
(* replaces right-to-left letters; but expand_ligature writes over the     *)
(* rune before a ligature without looking at it.  What has to be shown is  *)
(* that this rune is never a left-to-right letter, wherever rtl_apply has  *)
(* put the ligature.                                                       *)

\* What the runes of the buffer are: no NUL, and not the code point the ligature
\* table has for a ligature, which only shape_text sees.
Rune == uint16 \ ({0} \union LigatureCodepts)

LEMMA ScratchLetters == \A cp \in ARABIC_SHAPER_RANGE : RtlLetter(cp)
<1> SUFFICES ASSUME NEW cp \in ARABIC_SHAPER_RANGE PROVE RtlLetter(cp)
  OBVIOUS
<1>1. cp \in Int /\ 1792 <= cp /\ cp <= 2047
  BY ShaperRangeAssumption, SMT DEF RANGE
<1>2. cp \in RTL
  BY DEF RTL
<1>3. cp \notin ZERO_WIDTH
  BY <1>1, SMT DEF ZERO_WIDTH, RANGE
<1>4. cp \notin NEUTRAL
  BY <1>1, <1>3, SMT DEF NEUTRAL, RANGE
<1>5. cp \notin WEAK_LTR
  BY <1>1, SMT DEF WEAK_LTR, RANGE
<1> QED BY <1>2, <1>4, <1>5 DEF RtlLetter, is_rtl, is_neutral, is_weak_ltr

\* The classes of the runes rtl_apply and gdt_alignment_step read.
LEMMA RuneFacts ==
  /\ Rune \subseteq Nat /\ \A r \in Rune : codept(r) = r
  /\ \A r \in Rune : LtrLetter(r) <=> ~is_rtl(r) /\ ~is_neutral(r) /\ ~is_weak_ltr(r)
  /\ TwoBytes \ LigatureCodepts \subseteq Rune
BY CodeptFacts, RangeFacts DEF Rune, LtrLetter, StrongLtr

LEMMA FormsAreLetters ==
  ASSUME NEW r, LigatureForm(r)
  PROVE  r \in ARABIC_SHAPER_RANGE /\ RtlLetter(r) /\ is_rtl(r)
<1>1. r \in ARABIC_SHAPER_RANGE
  BY LettersAreNoForms
<1> QED BY <1>1, ScratchLetters DEF RtlLetter

\* A bracket stays one; the other runes are not changed.
LEMMA SwapClasses ==
  ASSUME NEW r \in Rune
  PROVE  /\ swapped(r) \in Rune
         /\ swapped(r) # r => \A b \in {r, swapped(r)} :
              is_neutral(b) /\ ~is_rtl(b) /\ ~RtlLetter(b) /\ b \notin ARABIC_SHAPER_RANGE
<1> DEFINE Brackets == {\h7B, \h7D, \h5B, \h5D, \h28, \h29, \h3C, \h3E}
<1>1. DOMAIN RTL_SWAPS = 1 .. 8 /\ \A i \in 1 .. 8 : RTL_SWAPS[i] \in Brackets
  BY DEF RTL_SWAPS
<1>2. \A i \in 1 .. 8 : (IF i % 2 = 1 THEN i + 1 ELSE i - 1) \in 1 .. 8
  OBVIOUS
<1>3. swapped(r) = r \/ (r \in Brackets /\ swapped(r) \in Brackets)
  BY <1>1, <1>2 DEF swapped
<1>4. ASSUME NEW b \in Brackets
      PROVE  b \in Rune /\ is_neutral(b) /\ b \notin ARABIC_SHAPER_RANGE /\ ~is_rtl(b)
  <2>1. b \in Nat /\ b <= 125 /\ b # 0
    BY <1>4
  <2>2. b \in Rune /\ b \notin TwoBytes
    <3>1. b \in uint16 /\ b # 0 /\ b \notin TwoBytes
      BY <2>1 DEF uint16, TwoBytes, RANGE
    <3> QED BY <3>1, RangeFacts, LigatureFacts DEF Rune
  <2>3. b \in RANGE(\h26, \h30) \cup RANGE(\h3A, \h41) \cup RANGE(\h5B, \h61) \cup RANGE(\h7B, \hA2)
    BY <1>4 DEF RANGE
  <2>4. is_neutral(b)
    BY <2>3 DEF NEUTRAL, is_neutral
  <2>5. b \notin ARABIC_SHAPER_RANGE
    BY <2>2, RangeFacts
  <2>6. ~is_rtl(b)
    BY <2>1, <2>5, SMT DEF is_rtl, RTL, RANGE
  <2> QED BY <2>2, <2>4, <2>5, <2>6
<1> HIDE DEF Brackets
<1> QED BY <1>3, <1>4 DEF RtlLetter

LEMMA SpaceFacts == SPACE \in Rune /\ ~is_rtl(SPACE) /\ ~LigatureForm(SPACE)
<1>1. SPACE = 32 /\ SPACE \in uint16 /\ SPACE \notin TwoBytes
  BY DEF SPACE, uint16, TwoBytes, RANGE
<1>2. SPACE \notin ARABIC_SHAPER_RANGE /\ SPACE \in Rune
  BY <1>1, RangeFacts, LigatureFacts DEF Rune
<1>3. ~is_rtl(SPACE)
  BY <1>1, <1>2, SMT DEF is_rtl, RTL, RANGE
<1> QED BY <1>1, <1>2, <1>3, LettersAreNoForms

(***************************************************************************)
(* Texts that differ in one stretch without left-to-right letters.         *)
(***************************************************************************)

\* The buffers t and u differ in a .. b - 1 only: neither has a left-to-right
\* letter there, and if one has an RTL rune or letter there, so has the other.
SameStretch(t, u, a, b) ==
  /\ \A i \in DOMAIN t \ (a .. b - 1) : u[i] = t[i]
  /\ \A i \in a .. b - 1 : ~LtrLetter(t[i]) /\ ~LtrLetter(u[i])
  /\ (\E i \in a .. b - 1 : is_rtl(t[i])) <=> (\E i \in a .. b - 1 : is_rtl(u[i]))
  /\ (\E i \in a .. b - 1 : RtlLetter(t[i])) <=> (\E i \in a .. b - 1 : RtlLetter(u[i]))

\* The RTL rune at j is between the same left-to-right letters as i.
Linked(t, j, i) ==
  /\ is_rtl(t[j])
  /\ \A k \in DOMAIN t : (j <= k /\ k <= i) \/ (i <= k /\ k <= j) => ~LtrLetter(t[k])

\* Such a rune stands before i; or, where rtl_apply has reversed the line
\* lo .. hi - 1, behind i in that line or before the line.
Follows(t, i) == \E j \in DOMAIN t : j < i /\ Linked(t, j, i)
Precedes(t, i, lo, hi) ==
  \E j \in DOMAIN t : (j < lo \/ (i < j /\ j < hi)) /\ Linked(t, j, i)

\* The test of gdt_alignment_step, on the letters alone.
RtlStart(t) ==
  \E i \in DOMAIN t : RtlLetter(t[i]) /\ \A j \in DOMAIN t : j < i => ~LtrLetter(t[j])

LEMMA StartsAreRtlStarts ==
  ASSUME NEW n \in Nat, NEW t \in [1 .. n -> Rune]
  PROVE  starts_rtl(t) <=> RtlStart(t)
<1>1. \A i \in 1 .. n : /\ codept(t[i]) = t[i]
                        /\ Opinionated(t[i]) <=> ~is_neutral(t[i]) /\ ~is_weak_ltr(t[i])
                        /\ LtrLetter(t[i]) <=> Opinionated(t[i]) /\ ~is_rtl(t[i])
                        /\ RtlLetter(t[i]) <=> Opinionated(t[i]) /\ is_rtl(t[i])
  BY RuneFacts DEF Opinionated, RtlLetter
<1>2. ASSUME starts_rtl(t) PROVE RtlStart(t)
  <2>1. PICK i \in 1 .. n : /\ RtlLetter(t[i])
                            /\ \A j \in 1 .. i - 1 : ~Opinionated(t[j])
    BY <1>1, <1>2 DEF starts_rtl
  <2>2. \A j \in 1 .. n : j < i => ~LtrLetter(t[j])
    BY <1>1, <2>1
  <2> QED BY <2>1, <2>2 DEF RtlStart
<1>3. ASSUME RtlStart(t) PROVE starts_rtl(t)
  <2> DEFINE S == { i \in 1 .. n : RtlLetter(t[i]) }
  <2>1. PICK p \in 1 .. n : RtlLetter(t[p]) /\ \A j \in 1 .. n : j < p => ~LtrLetter(t[j])
    BY <1>3 DEF RtlStart
  <2>2. S \subseteq Nat /\ p \in S
    BY <2>1
  <2>3. PICK i \in S : \A k \in S : i <= k
    BY <2>2, LeastNat
  <2>4. i \in 1 .. n /\ i <= p
    BY <2>2, <2>3
  <2>5. ASSUME NEW j \in 1 .. i - 1 PROVE ~Opinionated(t[j])
    <3>1. j \in 1 .. n /\ j < p /\ ~(i <= j)
      BY <2>4
    <3>2. ~RtlLetter(t[j]) /\ ~LtrLetter(t[j])
      BY <2>1, <2>3, <3>1
    <3> QED BY <1>1, <3>1, <3>2
  <2> QED BY <1>1, <2>3, <2>4, <2>5 DEF starts_rtl
<1> QED BY <1>2, <1>3

\* Left-to-right letters are in the same places.
LEMMA StretchLetters ==
  ASSUME NEW n \in Nat, NEW t, NEW u, DOMAIN t = 1 .. n,
         NEW a \in 1 .. n + 1, NEW b \in 0 .. n + 1, SameStretch(t, u, a, b)
  PROVE  \A i \in 1 .. n : LtrLetter(u[i]) <=> LtrLetter(t[i])
BY DEF SameStretch

LEMMA StretchBack ==
  ASSUME NEW t, NEW u, DOMAIN t = DOMAIN u, NEW a, NEW b, SameStretch(t, u, a, b)
  PROVE  SameStretch(u, t, a, b)
BY DEF SameStretch

LEMMA StretchStartOneWay ==
  ASSUME NEW n \in Nat, NEW t, NEW u, DOMAIN t = 1 .. n, DOMAIN u = 1 .. n,
         NEW a \in 1 .. n + 1, NEW b \in 0 .. n + 1, SameStretch(t, u, a, b), RtlStart(t)
  PROVE  RtlStart(u)
<1>1. PICK i \in 1 .. n : RtlLetter(t[i]) /\ \A j \in 1 .. n : j < i => ~LtrLetter(t[j])
  BY DEF RtlStart
<1>2. CASE i \notin a .. b - 1
  <2>1. u[i] = t[i]
    BY <1>2 DEF SameStretch
  <2> QED BY <1>1, <2>1, StretchLetters DEF RtlStart
<1>3. CASE i \in a .. b - 1
  <2>1. PICK k \in a .. b - 1 : RtlLetter(u[k])
    BY <1>1, <1>3 DEF SameStretch
  <2>2. k \in 1 .. n
    OBVIOUS
  <2>3. ASSUME NEW j \in 1 .. n, j < k PROVE ~LtrLetter(u[j])
    <3>1. CASE j \in a .. b - 1
      BY <3>1 DEF SameStretch
    <3>2. CASE j \notin a .. b - 1
      <4>1. j < i
        BY <1>3, <2>3, <3>2
      <4> QED BY <1>1, <4>1, StretchLetters
    <3> QED BY <3>1, <3>2
  <2> QED BY <2>1, <2>2, <2>3 DEF RtlStart
<1> QED BY <1>2, <1>3

\* The alignment does not change.
LEMMA StretchStart ==
  ASSUME NEW n \in Nat, NEW t, NEW u, DOMAIN t = 1 .. n, DOMAIN u = 1 .. n,
         NEW a \in 1 .. n + 1, NEW b \in 0 .. n + 1, SameStretch(t, u, a, b)
  PROVE  RtlStart(u) <=> RtlStart(t)
BY StretchStartOneWay, StretchBack

\* What an RTL rune at j does for the rune at i outside the stretch, one does
\* after the change, at j or, as j does, in the stretch.
LEMMA StretchLinked ==
  ASSUME NEW n \in Nat, NEW t, NEW u, DOMAIN t = 1 .. n, DOMAIN u = 1 .. n,
         NEW a \in 1 .. n + 1, NEW b \in 0 .. n + 1, SameStretch(t, u, a, b),
         NEW i \in (1 .. n) \ (a .. b - 1), NEW j \in 1 .. n, Linked(t, j, i)
  PROVE  \E k \in 1 .. n : /\ Linked(u, k, i)
                           /\ k = j \/ (j \in a .. b - 1 /\ k \in a .. b - 1)
<1>1. is_rtl(t[j]) /\ \A k \in 1 .. n : (j <= k /\ k <= i) \/ (i <= k /\ k <= j) => ~LtrLetter(t[k])
  BY DEF Linked
<1>2. CASE j \notin a .. b - 1
  <2>1. u[j] = t[j]
    BY <1>2 DEF SameStretch
  <2> QED BY <1>1, <2>1, StretchLetters DEF Linked
<1>3. CASE j \in a .. b - 1
  <2>1. PICK k \in a .. b - 1 : is_rtl(u[k])
    BY <1>1, <1>3 DEF SameStretch
  <2>2. k \in 1 .. n
    OBVIOUS
  <2>3. ASSUME NEW m \in 1 .. n, (k <= m /\ m <= i) \/ (i <= m /\ m <= k)
        PROVE  ~LtrLetter(u[m])
    <3>1. CASE m \in a .. b - 1
      BY <3>1 DEF SameStretch
    <3>2. CASE m \notin a .. b - 1
      <4>1. (j <= m /\ m <= i) \/ (i <= m /\ m <= j)
        BY <1>3, <2>3, <3>2
      <4> QED BY <1>1, <4>1, StretchLetters
    <3> QED BY <3>1, <3>2
  <2> QED BY <1>3, <2>1, <2>2, <2>3 DEF Linked
<1> QED BY <1>2, <1>3

LEMMA StretchFollows ==
  ASSUME NEW n \in Nat, NEW t, NEW u, DOMAIN t = 1 .. n, DOMAIN u = 1 .. n,
         NEW a \in 1 .. n + 1, NEW b \in 0 .. n + 1, SameStretch(t, u, a, b),
         NEW i \in (1 .. n) \ (a .. b - 1), Follows(t, i)
  PROVE  Follows(u, i)
<1>1. PICK j \in 1 .. n : j < i /\ Linked(t, j, i)
  BY DEF Follows
<1>2. PICK k \in 1 .. n : Linked(u, k, i) /\ (k = j \/ (j \in a .. b - 1 /\ k \in a .. b - 1))
  BY <1>1, StretchLinked
<1>3. k < i
  BY <1>1, <1>2
<1> QED BY <1>2, <1>3 DEF Follows

LEMMA StretchPrecedes ==
  ASSUME NEW n \in Nat, NEW t, NEW u, DOMAIN t = 1 .. n, DOMAIN u = 1 .. n,
         NEW a \in 1 .. n + 1, NEW b \in 0 .. n + 1, SameStretch(t, u, a, b),
         NEW lo \in 1 .. a, NEW hi \in b .. n + 1,
         NEW i \in (1 .. n) \ (a .. b - 1), Precedes(t, i, lo, hi)
  PROVE  Precedes(u, i, lo, hi)
<1>1. PICK j \in 1 .. n : (j < lo \/ (i < j /\ j < hi)) /\ Linked(t, j, i)
  BY DEF Precedes
<1>2. PICK k \in 1 .. n : Linked(u, k, i) /\ (k = j \/ (j \in a .. b - 1 /\ k \in a .. b - 1))
  BY <1>1, StretchLinked
<1>3. k < lo \/ (i < k /\ k < hi)
  BY <1>1, <1>2
<1> QED BY <1>2, <1>3 DEF Precedes

(***************************************************************************)
(* What rtl_apply does to ligatures.                                       *)
(***************************************************************************)

\* reverse_span is a change of this kind.
LEMMA ReverseStretch ==
  ASSUME NEW n \in Nat, NEW t \in [1 .. n -> Rune],
         NEW a \in 1 .. n + 1, NEW b \in 0 .. n + 1, \A i \in a .. b - 1 : ~LtrLetter(t[i])
  PROVE  /\ reverse_span(t, a, b) \in [1 .. n -> Rune]
         /\ \A i \in a .. b - 1 : /\ a + b - 1 - i \in a .. b - 1 /\ i \in 1 .. n
                                  /\ reverse_span(t, a, b)[i] = t[a + b - 1 - i]
         /\ SameStretch(t, reverse_span(t, a, b), a, b)
<1> DEFINE u == reverse_span(t, a, b)
           R(i) == a + b - 1 - i
<1>1. \A i \in a .. b - 1 : R(i) \in a .. b - 1 /\ R(R(i)) = i /\ i \in 1 .. n
  OBVIOUS
<1>2. /\ DOMAIN u = 1 .. n
      /\ \A i \in a .. b - 1 : u[i] = t[R(i)]
      /\ \A i \in (1 .. n) \ (a .. b - 1) : u[i] = t[i]
  BY DEF reverse_span
<1>3. u = [i \in 1 .. n |-> u[i]]
  BY DEF reverse_span
<1> HIDE DEF u, R
<1>4. \A i \in 1 .. n : u[i] \in Rune
  BY <1>1, <1>2
<1>5. u \in [1 .. n -> Rune]
  BY <1>3, <1>4
<1>6. \A i \in a .. b - 1 : t[i] = u[R(i)]
  BY <1>1, <1>2
<1>7. SameStretch(t, u, a, b)
  BY <1>1, <1>2, <1>6 DEF SameStretch
<1> QED BY <1>1, <1>2, <1>5, <1>7 DEF u, R

\* A ligature at i: behind an RTL rune, or, in the part M of the line that
\* rtl_apply has reversed, before one.
Anchored(t, i, M) ==
  IF i \in M THEN Precedes(t, i, line_start, line_limit) ELSE Follows(t, i)

WellPlaced(t, M) ==
  /\ t \in [1 .. Len(orig) -> Rune]
  /\ \A i \in 1 .. Len(orig) : LigatureForm(t[i]) => Anchored(t, i, M)
  /\ RtlStart(t) <=> RtlStart(orig)

\* A change in the line that moves no ligature.
LEMMA StretchPlaced ==
  ASSUME RtlInv, NEW M, NEW t, WellPlaced(t, M),
         NEW u \in [1 .. Len(orig) -> Rune],
         NEW a \in line_start .. Len(orig) + 1, NEW b \in 0 .. line_limit,
         SameStretch(t, u, a, b), \A i \in a .. b - 1 : ~LigatureForm(u[i])
  PROVE  WellPlaced(u, M)
<1> DEFINE n == Len(orig)
<1>1. /\ n \in Nat /\ a \in 1 .. n + 1 /\ b \in 0 .. n + 1
      /\ line_start \in 1 .. a /\ line_limit \in b .. n + 1
  BY Shape
<1>2. DOMAIN t = 1 .. n /\ DOMAIN u = 1 .. n
  BY DEF WellPlaced
<1> HIDE DEF n
<1>3. RtlStart(u) <=> RtlStart(orig)
  BY <1>1, <1>2, StretchStart DEF WellPlaced
<1>4. ASSUME NEW i \in 1 .. n, LigatureForm(u[i]) PROVE Anchored(u, i, M)
  <2>1. i \in (1 .. n) \ (a .. b - 1) /\ u[i] = t[i]
    BY <1>2, <1>4 DEF SameStretch
  <2>2. Anchored(t, i, M)
    BY <1>4, <2>1 DEF WellPlaced, n
  <2>3. CASE i \in M
    BY <1>1, <1>2, <2>1, <2>2, <2>3, StretchPrecedes DEF Anchored
  <2>4. CASE i \notin M
    BY <1>1, <1>2, <2>1, <2>2, <2>4, StretchFollows DEF Anchored
  <2> QED BY <2>3, <2>4
<1> QED BY <1>3, <1>4 DEF WellPlaced, n

\* In the line, every RTL rune before p is cut off from p by a letter; and
\* every one from e on is cut off from the runes before e.
NoneBefore(t, p) ==
  \A j \in line_start .. p - 1 : is_rtl(t[j]) => \E k \in j .. p : LtrLetter(t[k])
NoneFrom(t, e) ==
  \A j \in e .. line_limit - 1 : is_rtl(t[j]) => \E k \in e .. j : LtrLetter(t[k])

\* Arithmetic of the mirrored positions.
LEMMA MirrorFacts ==
  ASSUME NEW s \in Nat, NEW e \in Nat, NEW i \in s .. e - 1
  PROVE  /\ s + e - 1 - i \in s .. e - 1
         /\ s + e - 1 - i # s => i < e - 1
         /\ e - 1 \in s .. e - 1 /\ s + e - 1 - (e - 1) = s
         /\ \A j \in s .. e - 1 : s + e - 1 - i < j => s + e - 1 - j < i
         /\ \A j \in s .. e - 1 : s + e - 1 - (s + e - 1 - j) = j
OBVIOUS

\* A span that holds all RTL runes of the line between two left-to-right
\* letters is reversed: its first RTL rune becomes the last.
LEMMA MirrorPlaced ==
  ASSUME RtlInv, NEW M, NEW M1, NEW t, WellPlaced(t, M),
         NEW s \in line_start .. Len(orig), NEW e \in s + 1 .. line_limit,
         \A i \in s .. e - 1 : ~LtrLetter(t[i]),
         is_rtl(t[s]), NoneBefore(t, s), NoneFrom(t, e),
         \/ \A i \in s .. e - 1 : i \notin M /\ i \in M1
         \/ \A i \in s .. e - 1 : i \in M /\ i \notin M1,
         \A i \in (1 .. Len(orig)) \ (s .. e - 1) : LigatureForm(t[i]) => (i \in M1 <=> i \in M)
  PROVE  WellPlaced(reverse_span(t, s, e), M1)
<1> DEFINE n == Len(orig)
           u == reverse_span(t, s, e)
           R(i) == s + e - 1 - i
           Block == s .. e - 1
<1>1. /\ n \in Nat /\ s \in 1 .. n + 1 /\ e \in 0 .. n + 1 /\ s \in Nat /\ e \in Nat
      /\ line_start \in 1 .. s /\ line_limit \in e .. n + 1 /\ s \in Block
      /\ Block \subseteq 1 .. n
  BY Shape
<1>2. t \in [1 .. n -> Rune] /\ DOMAIN t = 1 .. n
  BY DEF WellPlaced
<1>3. /\ u \in [1 .. n -> Rune] /\ DOMAIN u = 1 .. n
      /\ \A i \in Block : u[i] = t[R(i)]
      /\ SameStretch(t, u, s, e)
  <2> HIDE DEF n
  <2>1. \A i \in s .. e - 1 : ~LtrLetter(t[i])
    OBVIOUS
  <2>2. SameStretch(t, u, s, e)
    BY <1>1, <1>2, <2>1, ReverseStretch
  <2>3. u \in [1 .. n -> Rune]
    BY <1>1, <1>2, <2>1, ReverseStretch
  <2>4. \A i \in s .. e - 1 : u[i] = t[s + e - 1 - i]
    BY <1>1, <1>2 DEF reverse_span
  <2> HIDE DEF u
  <2> QED BY <2>2, <2>3, <2>4
<1>4. /\ \A i \in (1 .. n) \ Block : u[i] = t[i]
      /\ \A i \in Block : ~LtrLetter(t[i]) /\ ~LtrLetter(u[i])
  BY <1>2, <1>3 DEF SameStretch
<1>5. ASSUME NEW i \in Block
      PROVE  /\ R(i) \in Block /\ (R(i) # s => i < e - 1)
             /\ e - 1 \in Block /\ R(e - 1) = s
             /\ \A j \in Block : R(i) < j => R(j) < i
             /\ \A j \in Block : R(R(j)) = j
  BY <1>1, MirrorFacts
<1> HIDE DEF u, R, n
<1>6. RtlStart(u) <=> RtlStart(orig)
  BY <1>1, <1>2, <1>3, StretchStart DEF WellPlaced
<1>7. ASSUME NEW i \in (1 .. n) \ Block, LigatureForm(u[i]) PROVE Anchored(u, i, M1)
  <2>1. u[i] = t[i] /\ (i \in M1 <=> i \in M)
    BY <1>4, <1>7 DEF n
  <2>2. Anchored(t, i, M)
    BY <1>7, <2>1 DEF WellPlaced, n
  <2>3. CASE i \in M
    BY <1>1, <1>2, <1>3, <2>1, <2>2, <2>3, StretchPrecedes DEF Anchored
  <2>4. CASE i \notin M
    BY <1>1, <1>2, <1>3, <2>1, <2>2, <2>4, StretchFollows DEF Anchored
  <2> QED BY <2>3, <2>4
<1>8. ASSUME NEW i \in Block, NEW j \in 1 .. n, j < line_start, Linked(t, j, R(i))
      PROVE  Linked(u, j, i)
  <2>1. is_rtl(u[j])
    BY <1>1, <1>4, <1>8 DEF Linked
  <2>2. ASSUME NEW m \in 1 .. n, (j <= m /\ m <= i) \/ (i <= m /\ m <= j) PROVE ~LtrLetter(u[m])
    <3>1. CASE m \in Block
      BY <1>4, <3>1
    <3>2. CASE m \notin Block
      <4>1. R(i) \in Block
        BY <1>5
      <4>2. j <= m /\ m <= R(i)
        BY <1>1, <1>8, <2>2, <3>2, <4>1
      <4> QED BY <1>2, <1>4, <1>8, <3>2, <4>2 DEF Linked
    <3> QED BY <3>1, <3>2
  <2> QED BY <1>3, <2>1, <2>2 DEF Linked
<1>9. ASSUME NEW i \in Block, NEW j \in Block, is_rtl(u[j])
      PROVE  Linked(u, j, i)
  <2>1. \A m \in 1 .. n : (j <= m /\ m <= i) \/ (i <= m /\ m <= j) => m \in Block
    BY <1>1
  <2> QED BY <1>3, <1>4, <1>9, <2>1 DEF Linked
<1>10. ASSUME NEW i \in Block, LigatureForm(u[i]) PROVE Anchored(u, i, M1)
  <2>1. R(i) \in Block /\ LigatureForm(t[R(i)]) /\ R(i) \in 1 .. n
    BY <1>1, <1>3, <1>5, <1>10
  <2>2. Anchored(t, R(i), M)
    BY <2>1 DEF WellPlaced, n
  <2>3. CASE \A k \in Block : k \notin M /\ k \in M1
    <3>1. PICK j \in 1 .. n : j < R(i) /\ Linked(t, j, R(i))
      BY <1>2, <2>1, <2>2, <2>3 DEF Anchored, Follows
    <3>2. CASE R(i) = s
      <4>1. j < line_start
        <5>1. SUFFICES ASSUME j >= line_start PROVE FALSE
          BY <1>1
        <5>2. j \in line_start .. s - 1 /\ is_rtl(t[j])
          BY <1>1, <3>1, <3>2, <5>1 DEF Linked
        <5>3. PICK k \in j .. s : LtrLetter(t[k])
          BY <5>2 DEF NoneBefore
        <5>4. k \in 1 .. n /\ j <= k /\ k <= R(i)
          BY <1>1, <3>2
        <5> QED BY <1>2, <3>1, <5>3, <5>4 DEF Linked
      <4> QED BY <1>3, <1>8, <2>3, <3>1, <4>1 DEF Anchored, Precedes
    <3>3. CASE R(i) # s
      <4>1. e - 1 \in Block /\ i < e - 1 /\ e - 1 < line_limit /\ e - 1 \in 1 .. n
        BY <1>1, <1>5, <3>3
      <4>2. is_rtl(u[e - 1])
        BY <1>3, <1>5, <4>1
      <4>3. Linked(u, e - 1, i)
        BY <1>9, <4>1, <4>2
      <4> QED BY <1>3, <2>3, <4>1, <4>3 DEF Anchored, Precedes
    <3> QED BY <3>2, <3>3
  <2>4. CASE \A k \in Block : k \in M /\ k \notin M1
    <3>1. PICK j \in 1 .. n : /\ j < line_start \/ (R(i) < j /\ j < line_limit)
                              /\ Linked(t, j, R(i))
      BY <1>2, <2>1, <2>2, <2>4 DEF Anchored, Precedes
    <3>2. CASE j < line_start
      <4>1. j < i
        BY <1>1, <3>2
      <4> QED BY <1>3, <1>8, <2>4, <3>1, <3>2, <4>1 DEF Anchored, Follows
    <3>3. CASE ~(j < line_start)
      <4>1. j \in Block
        <5>1. SUFFICES ASSUME j >= e PROVE FALSE
          BY <1>1, <2>1, <3>1, <3>3
        <5>2. j \in e .. line_limit - 1 /\ is_rtl(t[j])
          BY <1>1, <3>1, <3>3, <5>1 DEF Linked
        <5>3. PICK k \in e .. j : LtrLetter(t[k])
          BY <5>2 DEF NoneFrom
        <5>4. k \in 1 .. n /\ R(i) <= k /\ k <= j
          BY <1>1, <2>1
        <5> QED BY <1>2, <3>1, <5>3, <5>4 DEF Linked
      <4>2. R(j) \in Block /\ R(j) < i /\ R(R(j)) = j /\ R(j) \in 1 .. n
        BY <1>1, <1>5, <3>1, <3>3, <4>1
      <4>3. is_rtl(u[R(j)])
        BY <1>3, <3>1, <4>2 DEF Linked
      <4>4. Linked(u, R(j), i)
        BY <1>9, <4>2, <4>3
      <4> QED BY <1>3, <2>4, <4>2, <4>4 DEF Anchored, Follows
    <3> QED BY <3>2, <3>3
  <2> QED BY <2>3, <2>4
<1>11. \A i \in 1 .. n : LigatureForm(u[i]) => Anchored(u, i, M1)
  BY <1>7, <1>10
<1> QED BY <1>3, <1>6, <1>11 DEF WellPlaced, u, n

-----------------------------------------------------------------------------
(* The passes of rtl_apply, in terms of its pointers.                      *)

\* Where the line has been reversed: up to here by the first pass, from here
\* on no longer after the second.
frontier ==
  IF in_span THEN rtl_span_start ELSE IF rtl_pc = "loop" THEN next_codept_ptr ELSE line_limit
mirrored ==
  { i \in line_start .. line_limit - 1 : \/ wrap_pc \in {"handler", "step2"}
                                         \/ wrap_pc = "rtl1" /\ i < frontier
                                         \/ wrap_pc = "rtl2" /\ i >= frontier }

\* The last rune the loop has dealt with.
last_seen == IF rtl_pc = "loop" THEN next_codept_ptr - 1 ELSE iter_ptr - 1

\* A span opens at the first RTL rune after a letter, a run of numerals holds
\* no letters at all, and no rune of the line ends the loop early.
PassInv ==
  rtl_pc # "idle" =>
    /\ in_span => is_rtl(text[rtl_span_start]) /\ NoneBefore(text, rtl_span_start)
    /\ rtl_pc = "loop" /\ ~in_span => NoneBefore(text, next_codept_ptr)
    /\ weak_ltr_span_start # NULL =>
         /\ rtl_span_start < weak_ltr_span_start
         /\ \A i \in weak_ltr_span_start .. last_seen : is_weak_ltr(text[i]) \/ is_neutral(text[i])
    /\ \A i \in line_end .. line_limit - 1 : text[i] = SPACE
    /\ rtl_pc = "exit" => iter_ptr >= line_end

Placed == WellPlaced(text, mirrored) /\ PassInv

\* What the loop reads.
LEMMA LoopRunes ==
  ASSUME RtlInv, Placed, rtl_pc = "loop"
  PROVE  /\ text \in [1 .. Len(orig) -> Rune]
         /\ this_codept_ptr \in 1 .. Len(orig) /\ this_codept = text[this_codept_ptr]
         /\ next_codept = 0 <=> ~more
         /\ more => /\ iter_ptr \in 1 .. Len(orig) /\ iter_ptr < line_end
                    /\ next_codept = text[iter_ptr]
         /\ ~more => iter_ptr >= line_end
<1>1. text \in [1 .. Len(orig) -> Rune]
  BY DEF Placed, WellPlaced
<1>2. /\ this_codept_ptr \in 1 .. Len(orig) /\ iter_ptr = this_codept_ptr + 1
      /\ line_end \in 1 .. Len(orig) + 1
  BY LoopFacts, Shape
<1>3. this_codept = text[this_codept_ptr]
  BY <1>1, <1>2, RuneFacts DEF this_codept
<1>4. 0 \notin Rune
  BY DEF Rune
<1>5. more => iter_ptr \in 1 .. Len(orig) /\ iter_ptr < line_end
  BY <1>1 DEF more
<1>6. more => next_codept = text[iter_ptr] /\ next_codept # 0
  BY <1>1, <1>4, <1>5, RuneFacts DEF next_codept
<1>7. ~more => next_codept = 0 /\ iter_ptr >= line_end
  BY <1>1, <1>2, Shape DEF more, next_codept
<1> QED BY <1>1, <1>2, <1>3, <1>5, <1>6, <1>7

\* Reversing a run of numerals moves no ligature.
LEMMA NumeralsPlaced ==
  ASSUME RtlInv, NEW M, WellPlaced(text, M),
         NEW w \in line_start .. Len(orig) + 1, NEW e \in 0 .. line_limit,
         \A i \in w .. e - 1 : is_weak_ltr(text[i]) \/ is_neutral(text[i])
  PROVE  WellPlaced(reverse_span(text, w, e), M)
<1> DEFINE n == Len(orig)
           u == reverse_span(text, w, e)
<1>1. n \in Nat /\ w \in 1 .. n + 1 /\ e \in 0 .. n + 1 /\ w .. e - 1 \subseteq 1 .. n
  BY Shape
<1>2. text \in [1 .. n -> Rune]
  BY DEF WellPlaced
<1> HIDE DEF n
<1>3. \A i \in w .. e - 1 : ~LtrLetter(text[i]) /\ ~LigatureForm(text[i])
  BY <1>1, <1>2, RuneFacts, FormsAreLetters DEF RtlLetter
<1>4. u \in [1 .. n -> Rune] /\ SameStretch(text, u, w, e)
  BY <1>1, <1>2, <1>3, ReverseStretch
<1>5. \A i \in w .. e - 1 : ~LigatureForm(u[i])
  <2>1. \A i \in w .. e - 1 : w + e - 1 - i \in w .. e - 1 /\ u[i] = text[w + e - 1 - i]
    BY <1>1, <1>2 DEF reverse_span
  <2> HIDE DEF u
  <2> QED BY <1>3, <2>1
<1> HIDE DEF u
<1>6. u \in [1 .. Len(orig) -> Rune]
  BY <1>4 DEF n
<1>7. WellPlaced(u, M)
  BY <1>4, <1>5, <1>6, StretchPlaced
<1> QED BY <1>7 DEF u

\* The numerals at the end of which the loop stands.
LEMMA WeakRun ==
  ASSUME RtlInv, Placed, rtl_pc = "loop", in_span
  PROVE  /\ weak_after # NULL =>
              /\ text_after_weak = text
              /\ rtl_span_start < weak_after /\ weak_after <= this_codept_ptr
              /\ \A i \in weak_after .. this_codept_ptr : is_weak_ltr(text[i]) \/ is_neutral(text[i])
         /\ WellPlaced(text_after_weak, mirrored)
         /\ \A i \in 1 .. Len(orig) : i <= rtl_span_start \/ i >= this_codept_ptr =>
              text_after_weak[i] = text[i]
         /\ \A i \in rtl_span_start .. this_codept_ptr - 1 : ~LtrLetter(text_after_weak[i])
<1> DEFINE this == this_codept_ptr
           w == weak_ltr_span_start
<1>1. /\ this \in line_start .. Len(orig) /\ rtl_span_start \in line_start .. this - 1
      /\ this + 1 <= line_end /\ line_end \in line_start .. line_limit
      /\ w \in Nat /\ (w # NULL => w \in rtl_span_start .. this - 1)
      /\ line_start \in Nat /\ rtl_span_start \in Nat /\ this \in Nat
  <2>1. line_end \in line_start .. line_limit
    BY DEF RtlInv, Pointers
  <2> QED BY <2>1, LoopFacts, Shape
<1>2. this_codept = text[this] /\ text \in [1 .. Len(orig) -> Rune]
  BY LoopRunes
<1>3. w # NULL => /\ rtl_span_start < w
                  /\ \A i \in w .. this - 1 : is_weak_ltr(text[i]) \/ is_neutral(text[i])
  BY DEF Placed, PassInv, last_seen, this_codept_ptr
<1>4. \A i \in rtl_span_start .. this - 1 : ~LtrLetter(text_after_weak[i])
  BY AfterWeak DEF Rearranged
<1>5. ASSUME weak_after # NULL
      PROVE  /\ text_after_weak = text
             /\ rtl_span_start < weak_after /\ weak_after <= this
             /\ \A i \in weak_after .. this : is_weak_ltr(text[i]) \/ is_neutral(text[i])
  <2>1. CASE w = NULL
    <3>1. weak_after = this /\ is_weak_ltr(text[this]) /\ text_after_weak = text
      BY <1>2, <1>5, <2>1 DEF weak_after, weak_in_span, text_after_weak, ends_weak_span
    <3> QED BY <1>1, <3>1
  <2>2. CASE w # NULL
    <3>1. /\ weak_after = w /\ text_after_weak = text
          /\ is_weak_ltr(text[this]) \/ is_neutral(text[this])
      BY <1>2, <1>5, <2>2 DEF weak_after, text_after_weak, ends_weak_span
    <3>2. \A i \in w .. this : i \in w .. this - 1 \/ i = this
      BY <1>1
    <3> QED BY <1>1, <1>3, <2>2, <3>1, <3>2
  <2> QED BY <2>1, <2>2
<1>6. /\ WellPlaced(text_after_weak, mirrored)
      /\ \A i \in 1 .. Len(orig) : i <= rtl_span_start \/ i >= this => text_after_weak[i] = text[i]
  <2>1. CASE ~ends_weak_span
    BY <2>1 DEF text_after_weak, Placed
  <2>2. CASE ends_weak_span
    <3>1. w # NULL /\ text_after_weak = reverse_span(text, w, this)
      BY <2>2 DEF ends_weak_span, text_after_weak
    <3>2. w \in line_start .. Len(orig) + 1 /\ this \in 0 .. line_limit
      BY <1>1, <3>1, Shape
    <3>3. WellPlaced(reverse_span(text, w, this), mirrored)
      <4> HIDE DEF w, this
      <4>1. \A i \in w .. this - 1 : is_weak_ltr(text[i]) \/ is_neutral(text[i])
        BY <1>3, <3>1
      <4> QED BY <3>2, <4>1, NumeralsPlaced DEF Placed
    <3>4. \A i \in 1 .. Len(orig) : i <= rtl_span_start \/ i >= this => text_after_weak[i] = text[i]
      BY <1>1, <1>2, <1>3, <3>1 DEF reverse_span
    <3> QED BY <3>1, <3>3, <3>4
  <2> QED BY <2>1, <2>2
<1> QED BY <1>4, <1>5, <1>6

\* Nothing behind the line changes, and what is said of the end of the line
\* stays true.
LEMMA TailStays ==
  ASSUME RtlInv, Placed, ReadAhead, Moves, UNCHANGED wrap_vars
  PROVE  /\ \A i \in line_end .. line_limit - 1 : text'[i] = SPACE
         /\ rtl_pc' = "exit" => iter_ptr' >= line_end /\ iter_ptr' = iter_ptr
         /\ rtl_pc' = "loop" => iter_ptr' = iter_ptr + 1 /\ next_codept_ptr' = iter_ptr
         /\ rtl_pc' = "loop" <=> more
         /\ last_seen' = this_codept_ptr
<1>1. /\ rtl_pc = "loop" /\ line_end' = line_end
      /\ iter_ptr' = IF more THEN iter_ptr + 1 ELSE iter_ptr
      /\ next_codept_ptr' = IF more THEN iter_ptr ELSE NULL
      /\ rtl_pc' = IF next_codept # 0 THEN "loop" ELSE "exit"
  BY DEF ReadAhead
<1>2. (next_codept = 0 <=> ~more) /\ (~more => iter_ptr >= line_end)
  BY <1>1, LoopRunes
<1>3. iter_ptr = this_codept_ptr + 1 /\ this_codept_ptr \in Nat
  BY <1>1, LoopFacts, Shape
<1>4. last_seen' = this_codept_ptr
  BY <1>1, <1>2, <1>3 DEF last_seen
<1>5. ASSUME NEW i \in line_end .. line_limit - 1 PROVE text'[i] = SPACE
  <2>1. PICK a \in line_start .. Len(orig) + 1, b \in 0 .. line_end : Rearranged(text', a, b)
    BY DEF Moves
  <2>2. text[i] = SPACE
    BY <1>1 DEF Placed, PassInv
  <2>3. i \in 1 .. Len(orig) /\ ~(i < b)
    <3>1. line_end \in line_start .. line_limit
      BY <1>1 DEF RtlInv, Pointers
    <3> QED BY <3>1, Shape
  <2> QED BY <2>1, <2>2, <2>3 DEF Rearranged
<1> QED BY <1>1, <1>2, <1>4, <1>5

\* The frontier stays with an open span.
LEMMA FrontierStays ==
  ASSUME UNCHANGED wrap_vars, rtl_pc = "loop",
         rtl_span_start' = frontier, rtl_span_start' # NULL
  PROVE  mirrored' = mirrored
<1>1. frontier' = frontier
  BY DEF frontier, in_span
<1> QED BY <1>1 DEF mirrored, wrap_vars

\* Without a span it passes this rune; t is the buffer before the span
\* frontier .. e - 1 is reversed, if it is.
LEMMA FrontierPasses ==
  ASSUME RtlInv, Placed, ReadAhead, UNCHANGED wrap_vars, wrap_pc \in {"rtl1", "rtl2"},
         rtl_span_start' = NULL,
         NEW t, NEW e \in frontier .. this_codept_ptr + 1, e <= line_limit \/ e = frontier,
         \A i \in 1 .. Len(orig) : i >= this_codept_ptr => t[i] = text[i],
         \A i \in e .. this_codept_ptr : LigatureForm(t[i]) => i >= line_limit
  PROVE  /\ \/ \A i \in frontier .. e - 1 : i \notin mirrored /\ i \in mirrored'
            \/ \A i \in frontier .. e - 1 : i \in mirrored /\ i \notin mirrored'
         /\ \A i \in (1 .. Len(orig)) \ (frontier .. e - 1) :
              LigatureForm(t[i]) => (i \in mirrored' <=> i \in mirrored)
<1> DEFINE this == this_codept_ptr
           f == frontier
           g == frontier'
<1>1. /\ rtl_pc = "loop" /\ (next_codept = 0 <=> ~more) /\ (~more => iter_ptr >= line_end)
      /\ rtl_pc' = IF next_codept # 0 THEN "loop" ELSE "exit"
      /\ next_codept_ptr' = IF more THEN iter_ptr ELSE NULL
      /\ this \in line_start .. Len(orig) /\ iter_ptr = this + 1
  BY LoopRunes, LoopFacts DEF ReadAhead
<1>2. f \in line_start .. this
  BY <1>1, LoopFacts, Shape DEF frontier, this_codept_ptr
<1>3. g = IF more THEN this + 1 ELSE line_limit
  BY <1>1 DEF frontier, in_span, wrap_vars
<1>4. /\ line_start \in Nat /\ line_limit \in line_start .. Len(orig) + 1 /\ Len(orig) \in Nat
      /\ line_end \in line_start .. line_limit
  BY <1>1, Shape DEF RtlInv, Pointers
<1>5. /\ line_start' = line_start /\ line_limit' = line_limit /\ wrap_pc' = wrap_pc
  BY DEF wrap_vars
<1>6. ASSUME NEW i
      PROVE  /\ i \in mirrored <=> /\ i \in line_start .. line_limit - 1
                                   /\ wrap_pc = "rtl1" => i < f
                                   /\ wrap_pc = "rtl2" => i >= f
             /\ i \in mirrored' <=> /\ i \in line_start .. line_limit - 1
                                    /\ wrap_pc = "rtl1" => i < g
                                    /\ wrap_pc = "rtl2" => i >= g
  BY <1>5 DEF mirrored
<1> HIDE DEF this, f, g
<1>7. e \in f .. this + 1 /\ (e <= line_limit \/ e = f)
  BY DEF this, f
<1>8. ASSUME NEW i \in f .. e - 1
      PROVE  /\ i \in line_start .. line_limit - 1 /\ i >= f /\ i < g
             /\ ~(i < f) /\ ~(i >= g)
  BY <1>1, <1>2, <1>3, <1>4, <1>7
<1>9. \/ \A i \in f .. e - 1 : i \notin mirrored /\ i \in mirrored'
      \/ \A i \in f .. e - 1 : i \in mirrored /\ i \notin mirrored'
  <2>1. CASE wrap_pc = "rtl1"
    BY <1>6, <1>8, <2>1
  <2>2. CASE wrap_pc = "rtl2"
    BY <1>6, <1>8, <2>2
  <2> QED BY <2>1, <2>2
<1>10. ASSUME NEW i \in (1 .. Len(orig)) \ (f .. e - 1), LigatureForm(t[i])
       PROVE  i \in mirrored' <=> i \in mirrored
  <2>1. CASE i \notin line_start .. line_limit - 1
    BY <1>6, <2>1
  <2>2. CASE i \in line_start .. line_limit - 1 /\ i < f
    BY <1>1, <1>2, <1>3, <1>4, <1>6, <2>2
  <2>3. CASE i \in line_start .. line_limit - 1 /\ i >= f
    <3>1. i >= e
      BY <1>2, <1>7, <1>10, <2>3, <1>1, <1>4
    <3>2. i > this
      <4>1. ~(i \in e .. this)
        BY <1>10, <1>4, <2>3 DEF this
      <4> QED BY <1>1, <1>4, <1>7, <3>1, <4>1, <2>3
    <3>3. more
      <4>1. SUFFICES ASSUME ~more PROVE FALSE
        OBVIOUS
      <4>2. i \in line_end .. line_limit - 1
        BY <1>1, <1>4, <2>3, <3>2, <4>1
      <4>3. text[i] = SPACE /\ t[i] = text[i]
        BY <1>1, <1>4, <3>2, <4>2 DEF Placed, PassInv, this
      <4> QED BY <1>10, <4>3, SpaceFacts
    <3>4. i >= g
      BY <1>1, <1>3, <1>4, <2>3, <3>2, <3>3
    <3>5. ~(i < f) /\ ~(i < g)
      BY <1>1, <1>2, <1>3, <1>4, <2>3, <3>3, <3>4
    <3> QED BY <1>6, <2>3, <3>4, <3>5
  <2>4. i \in Int /\ f \in Int
    BY <1>2, <1>4
  <2> QED BY <2>1, <2>2, <2>3, <2>4
<1> QED BY <1>9, <1>10 DEF f

\* The buffer does not change, or has changed: the runes are well placed for
\* the new frontier.
LEMMA PlacedAlso ==
  ASSUME NEW t, NEW M, NEW M1, WellPlaced(t, M),
         \A i \in 1 .. Len(orig) : LigatureForm(t[i]) => (i \in M1 <=> i \in M)
  PROVE  WellPlaced(t, M1)
BY DEF WellPlaced, Anchored

LEMMA PlacedPrime ==
  ASSUME UNCHANGED <<orig, line_start, line_limit>>, WellPlaced(text', mirrored')
  PROVE  WellPlaced(text, mirrored)'
BY DEF WellPlaced, Anchored

\* The parts of the invariant after an iteration.
LEMMA IterationPlaced ==
  ASSUME RtlInv, Placed, ReadAhead, Moves, UNCHANGED wrap_vars,
         WellPlaced(text', mirrored'),
         rtl_span_start' # NULL =>
           is_rtl(text'[rtl_span_start']) /\ NoneBefore(text', rtl_span_start'),
         rtl_span_start' = NULL /\ more => NoneBefore(text', iter_ptr),
         weak_ltr_span_start' # NULL =>
           /\ rtl_span_start' < weak_ltr_span_start'
           /\ \A i \in weak_ltr_span_start' .. this_codept_ptr :
                is_weak_ltr(text'[i]) \/ is_neutral(text'[i])
  PROVE  Placed'
<1>1. UNCHANGED <<orig, line_start, line_limit, line_end>>
  BY DEF wrap_vars, ReadAhead
<1>2. WellPlaced(text, mirrored)'
  BY <1>1, PlacedPrime
<1>3. PassInv'
  <2>1. /\ in_span' <=> rtl_span_start' # NULL
        /\ \A p : NoneBefore(text', p) <=>
             \A j \in line_start' .. p - 1 : is_rtl(text'[j]) => \E k \in j .. p : LtrLetter(text'[k])
    BY <1>1 DEF in_span, NoneBefore
  <2>2. in_span' => is_rtl(text'[rtl_span_start']) /\ NoneBefore(text, rtl_span_start)'
    BY <2>1 DEF NoneBefore
  <2>3. rtl_pc' = "loop" /\ ~in_span' => NoneBefore(text, next_codept_ptr)'
    BY <2>1, TailStays DEF NoneBefore
  <2> QED BY <1>1, <2>2, <2>3, TailStays DEF PassInv
<1> QED BY <1>2, <1>3 DEF Placed

LEMMA OpenSpanPlaced ==
  ASSUME RtlInv, Placed, OpenSpan, UNCHANGED wrap_vars, wrap_pc \in {"rtl1", "rtl2"}
  PROVE  Placed'
<1>1. /\ ReadAhead /\ rtl_pc = "loop" /\ ~in_span /\ is_rtl(this_codept)
      /\ text' = text /\ rtl_span_start' = this_codept_ptr /\ weak_ltr_span_start' = weak_after
  BY DEF OpenSpan, ReadAhead, opens
<1>2. weak_after = NULL
  BY <1>1, AfterWeak
<1>3. this_codept_ptr \in 1 .. Len(orig) /\ is_rtl(text[this_codept_ptr])
  BY <1>1, LoopRunes
<1>4. rtl_span_start' = frontier /\ rtl_span_start' # NULL
  BY <1>1, <1>3 DEF frontier, this_codept_ptr, NULL
<1>5. WellPlaced(text', mirrored')
  BY <1>1, <1>4, FrontierStays DEF Placed
<1>6. NoneBefore(text', rtl_span_start')
  BY <1>1 DEF Placed, PassInv, this_codept_ptr
<1>7. Moves
  BY OpenSpanKeeps
<1> QED BY <1>1, <1>2, <1>3, <1>4, <1>5, <1>6, <1>7, IterationPlaced

\* What has not changed up to p is still cut off from p.
LEMMA NoneBeforeKept ==
  ASSUME RtlInv, NEW p \in line_start .. Len(orig), NoneBefore(text, p),
         \A i \in 1 .. Len(orig) : i <= p => text'[i] = text[i]
  PROVE  NoneBefore(text', p)
<1>1. SUFFICES ASSUME NEW j \in line_start .. p - 1, is_rtl(text'[j])
               PROVE  \E k \in j .. p : LtrLetter(text'[k])
  BY DEF NoneBefore
<1>2. j \in 1 .. Len(orig) /\ j <= p /\ \A k \in j .. p : k \in 1 .. Len(orig) /\ k <= p
  BY Shape
<1>3. PICK k \in j .. p : LtrLetter(text[k])
  BY <1>1, <1>2 DEF NoneBefore
<1> QED BY <1>2, <1>3

\* apply_swaps on a neutral.
LEMMA SwapPlaced ==
  ASSUME RtlInv, NEW M, NEW t, WellPlaced(t, M),
         NEW p \in line_start .. line_limit - 1,
         is_neutral(t[p]) \/ is_weak_ltr(t[p])
  PROVE  WellPlaced(apply_swaps(t, p), M)
<1> DEFINE u == apply_swaps(t, p)
           n == Len(orig)
<1>1. /\ n \in Nat /\ p \in 1 .. n /\ p \in line_start .. n + 1 /\ p + 1 \in 0 .. line_limit
      /\ p .. (p + 1) - 1 = {p}
  BY Shape
<1>2. t \in [1 .. n -> Rune] /\ t[p] \in Rune
  BY <1>1 DEF WellPlaced
<1>3. u = [t EXCEPT ![p] = swapped(t[p])]
  BY DEF apply_swaps
<1> DEFINE r == t[p]
           v == swapped(t[p])
<1>4. /\ v \in Rune /\ ~LtrLetter(r) /\ ~LtrLetter(v)
      /\ ~RtlLetter(r) /\ ~RtlLetter(v) /\ (is_rtl(r) <=> is_rtl(v))
      /\ ~LigatureForm(v)
  <2>1. /\ v \in Rune
        /\ v # r => \A b \in {r, v} : is_neutral(b) /\ ~is_rtl(b) /\ ~RtlLetter(b)
    BY <1>2, SwapClasses
  <2> HIDE DEF v, r
  <2>2. is_neutral(v) \/ is_weak_ltr(v)
    BY <2>1 DEF r
  <2>3. is_neutral(r) \/ is_weak_ltr(r)
    BY DEF r
  <2> QED BY <1>2, <2>1, <2>2, <2>3, RuneFacts, FormsAreLetters DEF RtlLetter, r
<1>5. u \in [1 .. n -> Rune] /\ u[p] = v /\ \A i \in 1 .. n : i # p => u[i] = t[i]
  BY <1>1, <1>2, <1>3, <1>4
<1> HIDE DEF u, v
<1>6. SameStretch(t, u, p, p + 1)
  BY <1>1, <1>2, <1>4, <1>5 DEF SameStretch
<1>7. \A i \in p .. (p + 1) - 1 : ~LigatureForm(u[i])
  BY <1>1, <1>4, <1>5
<1>8. WellPlaced(u, M)
  BY <1>1, <1>5, <1>6, <1>7, StretchPlaced
<1> QED BY <1>8 DEF u

LEMMA ContinueSpanPlaced ==
  ASSUME RtlInv, Placed, ContinueSpan, UNCHANGED wrap_vars, wrap_pc \in {"rtl1", "rtl2"}
  PROVE  Placed'
<1> DEFINE this == this_codept_ptr
           s == rtl_span_start
           t == text_after_weak
<1>1. /\ ReadAhead /\ rtl_pc = "loop" /\ in_span /\ neutral
      /\ text' = apply_swaps(t, this)
      /\ rtl_span_start' = s /\ weak_ltr_span_start' = weak_after
  BY DEF ContinueSpan, ReadAhead, continues
<1>2. /\ this \in 1 .. Len(orig) /\ s \in line_start .. this - 1 /\ this \in line_start .. line_limit - 1
      /\ s \in line_start .. Len(orig) /\ s \in Nat /\ this \in Nat
  <2>1. line_end \in line_start .. line_limit
    BY <1>1 DEF RtlInv, Pointers
  <2> QED BY <1>1, <2>1, LoopFacts, Shape
<1>3. is_neutral(text[this]) \/ is_weak_ltr(text[this])
  BY <1>1, LoopRunes DEF neutral, weak_in_span
<1>4. /\ weak_after # NULL =>
           /\ t = text /\ s < weak_after /\ weak_after <= this
           /\ \A i \in weak_after .. this : is_weak_ltr(text[i]) \/ is_neutral(text[i])
      /\ WellPlaced(t, mirrored)
      /\ \A i \in 1 .. Len(orig) : i <= s \/ i >= this => t[i] = text[i]
  BY <1>1, WeakRun
<1> HIDE DEF t
<1>5. t[this] = text[this] /\ t \in [1 .. Len(orig) -> Rune]
  BY <1>2, <1>4 DEF WellPlaced
<1>6. WellPlaced(text', mirrored)
  <2>1. is_neutral(t[this]) \/ is_weak_ltr(t[this])
    BY <1>3, <1>5
  <2> QED BY <1>1, <1>2, <1>4, <2>1, SwapPlaced
<1>7. mirrored' = mirrored
  BY <1>1, FrontierStays DEF frontier, in_span
<1>8. \A i \in 1 .. Len(orig) : i # this => text'[i] = t[i]
  BY <1>1, <1>5 DEF apply_swaps
<1>9. \A i \in 1 .. Len(orig) : i <= s => text'[i] = text[i]
  BY <1>2, <1>4, <1>8
<1>10. NoneBefore(text', s) /\ is_rtl(text'[s])
  <2>1. NoneBefore(text, s) /\ is_rtl(text[s])
    BY <1>1 DEF Placed, PassInv
  <2>2. s \in 1 .. Len(orig) /\ s <= s
    BY <1>2, Shape
  <2> QED BY <1>2, <1>9, <2>1, <2>2, NoneBeforeKept
<1>11. weak_after # NULL => \A i \in weak_after .. this : is_weak_ltr(text'[i]) \/ is_neutral(text'[i])
  <2>1. text'[this] = swapped(text[this])
    BY <1>1, <1>2, <1>5 DEF apply_swaps
  <2>2. text[this] \in Rune
    BY <1>2, <1>5
  <2>3. is_weak_ltr(text'[this]) \/ is_neutral(text'[this])
    BY <1>3, <2>1, <2>2, SwapClasses
  <2>4. weak_after \in Nat
    BY <1>1, AfterWeak
  <2>5. weak_after # NULL => \A i \in weak_after .. this : i \in 1 .. Len(orig)
    BY <1>2, <1>4, <2>4, Shape
  <2> QED BY <1>4, <1>8, <2>3, <2>5
<1>12. Moves
  BY ContinueSpanKeeps
<1>13. s # NULL
  BY <1>1 DEF in_span
<1> QED BY <1>1, <1>4, <1>6, <1>7, <1>10, <1>11, <1>12, <1>13, IterationPlaced

\* The span ends at a letter, or at a rune before one.
LEMMA LetterCloses ==
  ASSUME RtlInv, Placed, CloseSpan
  PROVE  /\ ~is_rtl(text[this_codept_ptr])
         /\ \/ LtrLetter(text[this_codept_ptr])
            \/ more /\ LtrLetter(text[iter_ptr])
<1>1. rtl_pc = "loop" /\ ~continues /\ in_span /\ ~is_rtl(this_codept)
  BY DEF CloseSpan, ReadAhead, closes
<1>2. /\ text \in [1 .. Len(orig) -> Rune]
      /\ this_codept_ptr \in 1 .. Len(orig) /\ this_codept = text[this_codept_ptr]
      /\ more => iter_ptr \in 1 .. Len(orig) /\ next_codept = text[iter_ptr]
      /\ next_codept = 0 <=> ~more
  BY <1>1, LoopRunes
<1>3. CASE ~neutral
  BY <1>1, <1>2, <1>3, RuneFacts DEF neutral, weak_in_span
<1>4. CASE neutral
  <2>1. ~is_rtl(next_codept) /\ ~is_neutral(next_codept) /\ ~is_weak_ltr(next_codept)
        /\ ~(next_codept < \h20)
    BY <1>1, <1>4 DEF continues
  <2>2. next_codept # 0
    BY <2>1
  <2> QED BY <1>1, <1>2, <2>1, <2>2, RuneFacts
<1> QED BY <1>3, <1>4

LEMMA CloseSpanPlaced ==
  ASSUME RtlInv, Placed, CloseSpan, UNCHANGED wrap_vars, wrap_pc \in {"rtl1", "rtl2"}
  PROVE  Placed'
<1> DEFINE this == this_codept_ptr
           s == rtl_span_start
           t == text_after_weak
<1>1. /\ ReadAhead /\ rtl_pc = "loop" /\ in_span
      /\ text' = reverse_span(t, s, this)
      /\ rtl_span_start' = NULL /\ weak_ltr_span_start' = NULL
  BY DEF CloseSpan, ReadAhead, closes
<1>2. /\ this \in 1 .. Len(orig) /\ s \in line_start .. this - 1 /\ this \in line_start .. line_limit - 1
      /\ s \in line_start .. Len(orig) /\ this \in s + 1 .. line_limit /\ s \in Nat /\ this \in Nat
      /\ iter_ptr = this + 1 /\ line_start \in Nat /\ line_start >= 1
      /\ Len(orig) \in Nat /\ line_limit \in 1 .. Len(orig) + 1 /\ s \in 1 .. Len(orig)
  <2>1. line_end \in line_start .. line_limit
    BY <1>1 DEF RtlInv, Pointers
  <2>2. /\ this \in line_start .. Len(orig) /\ iter_ptr = this + 1
        /\ s \in line_start .. this - 1 /\ iter_ptr <= line_end
    BY <1>1, LoopFacts
  <2>3. Len(orig) \in Nat /\ line_start \in 1 .. Len(orig) + 1 /\ line_limit \in line_start .. Len(orig) + 1
    BY Shape
  <2> HIDE DEF this, s
  <2> QED BY <2>1, <2>2, <2>3
<1>3. /\ WellPlaced(t, mirrored)
      /\ \A i \in 1 .. Len(orig) : i <= s \/ i >= this => t[i] = text[i]
      /\ \A i \in s .. this - 1 : ~LtrLetter(t[i])
  BY <1>1, WeakRun
<1>4. ~is_rtl(text[this]) /\ (LtrLetter(text[this]) \/ (more /\ LtrLetter(text[this + 1])))
  BY <1>2, LetterCloses
<1>5. more => this + 1 \in 1 .. Len(orig)
  BY <1>1, <1>2, LoopRunes
<1>6. is_rtl(text[s]) /\ NoneBefore(text, s)
  BY <1>1 DEF Placed, PassInv
<1>7. frontier = s
  BY <1>1 DEF frontier
<1> HIDE DEF t, this, s
<1>8. is_rtl(t[s]) /\ NoneBefore(t, s)
  <2>1. t[s] = text[s]
    BY <1>2, <1>3
  <2>2. \A j \in line_start .. s - 1 : t[j] = text[j] /\ \A k \in j .. s : t[k] = text[k]
    BY <1>2, <1>3
  <2> QED BY <1>6, <2>1, <2>2 DEF NoneBefore
<1>9. NoneFrom(t, this)
  <2>1. SUFFICES ASSUME NEW j \in this .. line_limit - 1, is_rtl(t[j])
                 PROVE  \E k \in this .. j : LtrLetter(t[k])
    BY DEF NoneFrom
  <2>2. t[this] = text[this] /\ (more => t[this + 1] = text[this + 1])
    BY <1>2, <1>3, <1>5
  <2>3. j # this
    BY <1>4, <2>1, <2>2
  <2>4. this \in this .. j /\ this + 1 \in this .. j
    BY <1>2, <2>3
  <2> QED BY <1>4, <2>2, <2>4
<1>10. /\ \/ \A i \in s .. this - 1 : i \notin mirrored /\ i \in mirrored'
          \/ \A i \in s .. this - 1 : i \in mirrored /\ i \notin mirrored'
       /\ \A i \in (1 .. Len(orig)) \ (s .. this - 1) :
            LigatureForm(t[i]) => (i \in mirrored' <=> i \in mirrored)
  <2>1. ~LigatureForm(t[this])
    BY <1>2, <1>3, <1>4, FormsAreLetters
  <2>2. \A i \in this .. this : i = this
    BY <1>2
  <2>3. \A i \in 1 .. Len(orig) : i >= this_codept_ptr => t[i] = text[i]
    BY <1>3 DEF this
  <2>4. this \in frontier .. this_codept_ptr + 1 /\ this <= line_limit
    BY <1>2, <1>7 DEF this
  <2>5. \A i \in this .. this_codept_ptr : LigatureForm(t[i]) => i >= line_limit
    BY <2>1, <2>2 DEF this
  <2> QED BY <1>1, <1>7, <2>3, <2>4, <2>5, FrontierPasses
<1>11. WellPlaced(text', mirrored')
  BY <1>1, <1>2, <1>3, <1>8, <1>9, <1>10, MirrorPlaced
<1>12. \A i \in 1 .. Len(orig) : i < s \/ i >= this => text'[i] = text[i]
  <2>1. DOMAIN t = 1 .. Len(orig)
    BY <1>3 DEF WellPlaced
  <2>2. \A i \in 1 .. Len(orig) : i < s \/ i >= this => text'[i] = t[i]
    BY <1>1, <1>2, <2>1 DEF reverse_span
  <2>3. \A i \in 1 .. Len(orig) : i < s => i <= s
    BY <1>2
  <2> QED BY <1>3, <2>2, <2>3
<1>13. ASSUME more PROVE NoneBefore(text', this + 1)
  <2>1. SUFFICES ASSUME NEW j \in line_start .. (this + 1) - 1, is_rtl(text'[j])
                 PROVE  \E k \in j .. this + 1 : LtrLetter(text'[k])
    BY DEF NoneBefore
  <2>2. text'[this] = text[this] /\ text'[this + 1] = text[this + 1]
    BY <1>2, <1>5, <1>12, <1>13
  <2>3. CASE j < s
    <3>1. j \in line_start .. s - 1 /\ j \in 1 .. Len(orig)
      BY <1>2, <2>1, <2>3
    <3>2. PICK k \in j .. s : LtrLetter(text[k])
      BY <1>6, <1>12, <2>1, <2>3, <3>1 DEF NoneBefore
    <3>3. k # s
      <4>1. text[s] \in Rune
        BY <1>2 DEF Placed, WellPlaced
      <4> QED BY <1>6, <3>2, <4>1, RuneFacts
    <3>4. k \in 1 .. Len(orig) /\ k < s /\ k \in j .. this + 1
      BY <1>2, <2>3, <3>1, <3>3
    <3> QED BY <1>12, <3>2, <3>4
  <2>4. CASE j >= s
    <3>1. j # this
      BY <1>4, <2>1, <2>2
    <3>2. this \in j .. this + 1 /\ this + 1 \in j .. this + 1
      BY <1>2, <3>1
    <3> QED BY <1>4, <2>2, <3>2
  <2> QED BY <1>2, <2>3, <2>4
<1>14. Moves
  BY CloseSpanKeeps
<1>15. more => NoneBefore(text', iter_ptr)
  BY <1>2, <1>13
<1> QED BY <1>1, <1>11, <1>14, <1>15, IterationPlaced

\* Reversing one rune changes nothing.
LEMMA ReverseOne ==
  ASSUME NEW n \in Nat, NEW t \in [1 .. n -> Rune], NEW p \in 1 .. n
  PROVE  reverse_span(t, p, p + 1) = t
<1>1. \A i \in 1 .. n : p <= i /\ i < p + 1 => p + (p + 1) - 1 - i = i
  OBVIOUS
<1> QED BY <1>1 DEF reverse_span

LEMMA PassOverPlaced ==
  ASSUME RtlInv, Placed, PassOver, UNCHANGED wrap_vars, wrap_pc \in {"rtl1", "rtl2"}
  PROVE  Placed'
<1> DEFINE this == this_codept_ptr
           s == rtl_span_start
           t == text_after_weak
<1>1. /\ ReadAhead /\ rtl_pc = "loop" /\ ~opens /\ (in_span => is_rtl(this_codept))
      /\ text' = t /\ rtl_span_start' = s /\ weak_ltr_span_start' = weak_after
  BY DEF PassOver, ReadAhead, closes
<1>2. Moves
  BY PassOverKeeps
<1>3. /\ this \in line_start .. Len(orig) /\ this \in 1 .. Len(orig) /\ iter_ptr = this + 1
      /\ line_end \in line_start .. line_limit /\ line_start \in Nat /\ Len(orig) \in Nat
      /\ line_limit \in 1 .. Len(orig) + 1
      /\ in_span => s \in line_start .. this - 1 /\ s \in line_start .. Len(orig) /\ s \in 1 .. Len(orig)
  <2>1. line_end \in line_start .. line_limit
    BY <1>1 DEF RtlInv, Pointers
  <2> QED BY <1>1, <2>1, LoopFacts, Shape
<1>4. /\ text \in [1 .. Len(orig) -> Rune] /\ this_codept = text[this]
      /\ (next_codept = 0 <=> ~more) /\ (~more => iter_ptr >= line_end)
  BY <1>1, LoopRunes
<1>5. CASE in_span
  <2>1. /\ weak_after # NULL =>
             /\ t = text /\ s < weak_after
             /\ \A i \in weak_after .. this : is_weak_ltr(text[i]) \/ is_neutral(text[i])
        /\ WellPlaced(t, mirrored)
        /\ \A i \in 1 .. Len(orig) : i <= s \/ i >= this => t[i] = text[i]
    BY <1>1, <1>5, WeakRun
  <2>2. mirrored' = mirrored
    BY <1>1, <1>5, FrontierStays DEF frontier, in_span
  <2>3. NoneBefore(text', s) /\ is_rtl(text'[s])
    <3>1. NoneBefore(text, s) /\ is_rtl(text[s])
      BY <1>1, <1>5 DEF Placed, PassInv
    <3>2. \A i \in 1 .. Len(orig) : i <= s => text'[i] = text[i]
      BY <1>1, <2>1
    <3>3. s \in 1 .. Len(orig) /\ s <= s
      BY <1>3, <1>5
    <3> QED BY <1>3, <1>5, <3>1, <3>2, <3>3, NoneBeforeKept
  <2>4. s # NULL
    BY <1>5 DEF in_span
  <2> QED BY <1>1, <1>2, <2>1, <2>2, <2>3, <2>4, IterationPlaced
<1>6. CASE ~in_span
  <2>1. t = text /\ weak_after = NULL /\ s = NULL
    BY <1>1, <1>6, AfterWeak DEF in_span
  <2>2. frontier = this
    BY <1>1, <1>6 DEF frontier, this_codept_ptr
  <2>3. NoneBefore(text, this) /\ WellPlaced(text, mirrored)
    BY <1>1, <1>6 DEF Placed, PassInv, this_codept_ptr
  <2>4. is_rtl(text[this]) => ~more
    BY <1>1, <1>4, <1>6 DEF opens
  <2>5. more => NoneBefore(text', iter_ptr)
    <3>1. SUFFICES ASSUME more, NEW j \in line_start .. iter_ptr - 1, is_rtl(text[j])
                   PROVE  \E k \in j .. iter_ptr : LtrLetter(text[k])
      BY <1>1, <2>1 DEF NoneBefore
    <3>2. j \in line_start .. this - 1
      BY <1>3, <2>4, <3>1
    <3>3. PICK k \in j .. this : LtrLetter(text[k])
      BY <2>3, <3>1, <3>2 DEF NoneBefore
    <3>4. k \in j .. iter_ptr
      BY <1>3
    <3> QED BY <3>3, <3>4
  <2>6. WellPlaced(text, mirrored')
    <3> HIDE DEF this
    <3>1. CASE is_rtl(text[this]) /\ this < line_limit
      <4>1. /\ this + 1 \in frontier .. this_codept_ptr + 1 /\ this + 1 <= line_limit
            /\ \A i \in this + 1 .. this_codept_ptr : FALSE
            /\ this .. (this + 1) - 1 = {this}
            /\ this + 1 \in this + 1 .. line_limit
        BY <1>3, <2>2, <3>1 DEF this
      <4>2. /\ \/ \A i \in this .. (this + 1) - 1 : i \notin mirrored /\ i \in mirrored'
               \/ \A i \in this .. (this + 1) - 1 : i \in mirrored /\ i \notin mirrored'
            /\ \A i \in (1 .. Len(orig)) \ (this .. (this + 1) - 1) :
                 LigatureForm(text[i]) => (i \in mirrored' <=> i \in mirrored)
        BY <1>1, <2>1, <2>2, <4>1, FrontierPasses
      <4>3. \A i \in this .. (this + 1) - 1 : ~LtrLetter(text[i])
        BY <1>3, <1>4, <3>1, <4>1, RuneFacts
      <4>4. NoneFrom(text, this + 1)
        <5>1. \A j \in this + 1 .. line_limit - 1 : j \in line_end .. line_limit - 1
          BY <1>3, <1>4, <2>4, <3>1
        <5>2. \A j \in line_end .. line_limit - 1 : text[j] = SPACE
          BY <1>1 DEF Placed, PassInv
        <5> QED BY <5>1, <5>2, SpaceFacts DEF NoneFrom
      <4>5. WellPlaced(reverse_span(text, this, this + 1), mirrored')
        BY <1>3, <2>3, <3>1, <4>1, <4>2, <4>3, <4>4, MirrorPlaced
      <4> QED BY <1>3, <1>4, <4>5, ReverseOne
    <3>2. CASE ~is_rtl(text[this]) \/ this >= line_limit
      <4>1. /\ this \in frontier .. this_codept_ptr + 1 /\ this = frontier
            /\ this .. this - 1 = {} /\ \A i \in this .. this_codept_ptr : i = this
        BY <1>3, <2>2 DEF this
      <4>2. \A i \in this .. this_codept_ptr : LigatureForm(text[i]) => i >= line_limit
        BY <3>2, <4>1, FormsAreLetters
      <4>3. \A i \in (1 .. Len(orig)) \ (this .. this - 1) :
              LigatureForm(text[i]) => (i \in mirrored' <=> i \in mirrored)
        BY <1>1, <2>1, <2>2, <4>1, <4>2, FrontierPasses
      <4> QED BY <2>3, <4>1, <4>3, PlacedAlso
    <3> QED BY <1>3, <3>1, <3>2
  <2> QED BY <1>1, <1>2, <2>1, <2>5, <2>6, IterationPlaced
<1> QED BY <1>5, <1>6

\* The call of rtl_apply.
LEMMA CallPlaced ==
  ASSUME RtlInv, Placed, render_rtl_step
  PROVE  Placed'
<1>1. /\ wrap_pc \in {"step1", "step2"} /\ wrap_pc' = IF wrap_pc = "step1" THEN "rtl1" ELSE "rtl2"
      /\ rtl_pc' = "loop" /\ text' = text
      /\ line_end' = trimmed(text, line_start, line_limit)
      /\ next_codept_ptr' = line_start
      /\ rtl_span_start' = NULL /\ weak_ltr_span_start' = NULL
      /\ orig' = orig /\ line_start' = line_start /\ line_limit' = line_limit
  BY DEF render_rtl_step, RtlCall
<1>2. line_start \in Nat /\ line_limit \in line_start .. Len(orig) + 1 /\ Len(orig) \in Nat
  BY Shape
<1>3. frontier' = line_start
  BY <1>1 DEF frontier, in_span
<1>4. mirrored' = mirrored
  <2>1. \A i \in line_start .. line_limit - 1 : ~(i < line_start) /\ i >= line_start
    BY <1>2
  <2> QED BY <1>1, <1>3, <2>1 DEF mirrored
<1>5. WellPlaced(text, mirrored)'
  BY <1>1, <1>4, PlacedPrime DEF Placed
<1>6. \A i \in line_end' .. line_limit - 1 : text[i] = SPACE
  <2> DEFINE e == trimmed(text, line_start, line_limit)
  <2>1. TrimPoint(text, line_start, line_limit, e)
    BY Shape, TrimmedSpec
  <2> HIDE DEF e
  <2>2. e \in Int /\ \A k \in e + 1 .. line_limit : text[k - 1] = SPACE
    BY <1>2, <2>1 DEF TrimPoint
  <2>3. ASSUME NEW i \in e .. line_limit - 1 PROVE text[i] = SPACE
    <3>1. i + 1 \in e + 1 .. line_limit /\ (i + 1) - 1 = i
      BY <1>2, <2>2
    <3> QED BY <2>2, <3>1
  <2> QED BY <1>1, <2>3 DEF e
<1>7. NoneBefore(text, next_codept_ptr)'
  <2>1. line_start .. line_start - 1 = {}
    BY <1>2
  <2> QED BY <1>1, <2>1 DEF NoneBefore
<1>8. PassInv'
  BY <1>1, <1>6, <1>7 DEF PassInv, in_span
<1> QED BY <1>5, <1>8 DEF Placed

\* The end of rtl_apply: an open span reaches to the end of the line.
LEMMA ReturnPlaced ==
  ASSUME RtlInv, Placed, EndStep, wrap_pc \in {"rtl1", "rtl2"}
  PROVE  Placed'
<1> DEFINE s == rtl_span_start
           w == weak_ltr_span_start
           t == IF w # NULL THEN reverse_span(text, w, iter_ptr) ELSE text
<1>1. /\ rtl_pc = "exit" /\ rtl_pc' = "idle"
      /\ text' = IF in_span THEN reverse_span(t, s, iter_ptr) ELSE t
      /\ wrap_pc' = IF wrap_pc = "rtl1" THEN "handler" ELSE "idle"
      /\ orig' = orig /\ line_start' = line_start /\ line_limit' = line_limit
  BY DEF EndStep, RtlReturn
<1>2. /\ line_start \in 1 .. Len(orig) + 1 /\ line_limit \in line_start .. Len(orig) + 1
      /\ Len(orig) \in Nat /\ line_end \in line_start .. line_limit
      /\ iter_ptr \in line_start + 1 .. Len(orig) + 1
      /\ in_span => s \in line_start .. iter_ptr - 1 /\ iter_ptr <= line_end
      /\ w # NULL => in_span /\ w \in s .. iter_ptr - 1
      /\ s \in Nat /\ w \in Nat
  BY <1>1, Shape DEF RtlInv, RtlType, Pointers
<1>3. /\ WellPlaced(text, mirrored)
      /\ in_span => is_rtl(text[s]) /\ NoneBefore(text, s)
      /\ w # NULL => /\ s < w
                     /\ \A i \in w .. iter_ptr - 1 : is_weak_ltr(text[i]) \/ is_neutral(text[i])
      /\ \A i \in line_end .. line_limit - 1 : text[i] = SPACE
      /\ iter_ptr >= line_end
  BY <1>1 DEF Placed, PassInv, last_seen
<1>4. ASSUME NEW i
      PROVE  /\ i \in mirrored <=> /\ i \in line_start .. line_limit - 1
                                   /\ wrap_pc = "rtl1" => i < frontier
                                   /\ wrap_pc = "rtl2" => i >= frontier
             /\ i \in mirrored' <=> i \in line_start .. line_limit - 1 /\ wrap_pc = "rtl1"
  BY <1>1 DEF mirrored
<1>5. WellPlaced(text', mirrored')
  <2>1. CASE ~in_span
    <3>1. text' = text /\ frontier = line_limit
      BY <1>1, <1>2, <2>1 DEF frontier
    <3>2. \A i \in line_start .. line_limit - 1 : i < line_limit /\ ~(i >= line_limit)
      BY <1>2
    <3>3. \A i \in 1 .. Len(orig) : i \in mirrored' <=> i \in mirrored
      BY <1>4, <3>1, <3>2
    <3> QED BY <1>3, <3>1, <3>3, PlacedAlso
  <2>2. CASE in_span
    <3> HIDE DEF s, w
    <3>0. text \in [1 .. Len(orig) -> Rune]
      BY <1>3 DEF WellPlaced
    <3>1. /\ s \in line_start .. Len(orig) /\ iter_ptr \in s + 1 .. line_limit
          /\ iter_ptr = line_end /\ s \in 1 .. Len(orig)
      BY <1>2, <1>3, <2>2
    <3>2. /\ WellPlaced(t, mirrored)
          /\ \A i \in 1 .. Len(orig) : i <= s \/ i >= iter_ptr => t[i] = text[i]
      <4>1. CASE w = NULL
        BY <1>3, <4>1
      <4>2. CASE w # NULL
        <5>1. w \in line_start .. Len(orig) + 1 /\ iter_ptr \in 0 .. line_limit
          BY <1>2, <3>1, <4>2
        <5>2. WellPlaced(reverse_span(text, w, iter_ptr), mirrored)
          BY <1>3, <4>2, <5>1, NumeralsPlaced
        <5>3. \A i \in 1 .. Len(orig) : i <= s \/ i >= iter_ptr =>
                reverse_span(text, w, iter_ptr)[i] = text[i]
          BY <1>2, <1>3, <3>0, <4>2 DEF reverse_span
        <5> QED BY <4>2, <5>2, <5>3
      <4> QED BY <4>1, <4>2
    <3>3. \A i \in s .. iter_ptr - 1 : ~LtrLetter(t[i])
      <4>1. \A i \in s .. iter_ptr - 1 : ~LtrLetter(text[i])
        BY <1>1, <2>2 DEF RtlInv, SpanHoldsNoLetter, span_seen, s
      <4>2. CASE w = NULL
        BY <4>1, <4>2
      <4>3. CASE w # NULL
        <5>1. /\ w \in 1 .. Len(orig) + 1 /\ iter_ptr \in 0 .. Len(orig) + 1
              /\ \A i \in w .. iter_ptr - 1 : i \in s .. iter_ptr - 1
          BY <1>2, <1>3, <3>1, <4>3
        <5>2. SameStretch(text, reverse_span(text, w, iter_ptr), w, iter_ptr)
          BY <1>2, <3>0, <4>1, <5>1, ReverseStretch
        <5>3. DOMAIN text = 1 .. Len(orig) /\ \A i \in s .. iter_ptr - 1 : i \in 1 .. Len(orig)
          BY <1>2, <3>0, <3>1
        <5> QED BY <1>2, <4>1, <4>3, <5>1, <5>2, <5>3, StretchLetters
      <4> QED BY <4>2, <4>3
    <3> HIDE DEF t
    <3>4. is_rtl(t[s]) /\ NoneBefore(t, s)
      <4>1. \A i \in line_start .. s : t[i] = text[i]
        BY <1>2, <3>1, <3>2
      <4>2. s \in line_start .. s /\ \A j \in line_start .. s - 1 :
              j \in line_start .. s /\ \A k \in j .. s : k \in line_start .. s
        BY <1>2, <3>1
      <4> QED BY <1>3, <2>2, <4>1, <4>2 DEF NoneBefore
    <3>5. \A i \in line_end .. line_limit - 1 : t[i] = SPACE
      BY <1>2, <1>3, <3>1, <3>2
    <3>6. NoneFrom(t, iter_ptr)
      BY <3>1, <3>5, SpaceFacts DEF NoneFrom
    <3>7. frontier = s
      BY <2>2 DEF frontier, s
    <3>8. \A i \in s .. iter_ptr - 1 : i \in line_start .. line_limit - 1 /\ ~(i < s) /\ i >= s
      BY <1>2, <3>1
    <3>9. \/ \A i \in s .. iter_ptr - 1 : i \notin mirrored /\ i \in mirrored'
          \/ \A i \in s .. iter_ptr - 1 : i \in mirrored /\ i \notin mirrored'
      <4>1. CASE wrap_pc = "rtl1"
        BY <1>4, <3>7, <3>8, <4>1
      <4>2. CASE wrap_pc = "rtl2"
        BY <1>4, <3>7, <3>8, <4>2
      <4> QED BY <4>1, <4>2
    <3>10. ASSUME NEW i \in (1 .. Len(orig)) \ (s .. iter_ptr - 1), LigatureForm(t[i])
           PROVE  i \in mirrored' <=> i \in mirrored
      <4>1. CASE i < s
        <5>1. ~(i >= s)
          BY <1>2, <4>1
        <5> QED BY <1>4, <3>7, <4>1, <5>1
      <4>2. CASE ~(i < s)
        <5>1. i \notin line_end .. line_limit - 1
          BY <3>5, <3>10, SpaceFacts
        <5>2. i \notin line_start .. line_limit - 1
          BY <1>2, <3>1, <4>2, <5>1
        <5> QED BY <1>4, <5>2
      <4> QED BY <4>1, <4>2
    <3>11. WellPlaced(reverse_span(t, s, iter_ptr), mirrored')
      BY <3>1, <3>2, <3>3, <3>4, <3>6, <3>9, <3>10, MirrorPlaced
    <3> QED BY <1>1, <2>2, <3>11 DEF t, s, w
  <2> QED BY <2>1, <2>2
<1>6. WellPlaced(text, mirrored)'
  BY <1>1, <1>5, PlacedPrime
<1> QED BY <1>1, <1>6 DEF Placed, PassInv

LEMMA RtlIteratePlaced ==
  ASSUME RtlInv, Placed, RtlIterate, UNCHANGED wrap_vars, wrap_pc \in {"rtl1", "rtl2"}
  PROVE  Placed'
BY OpenSpanPlaced, ContinueSpanPlaced, CloseSpanPlaced, PassOverPlaced DEF RtlIterate

\* Outside the stub the line has not been reversed, and its bounds mean nothing.
LEMMA PlacedOutside ==
  /\ wrap_pc \in {"idle", "step1"} => mirrored = {}
  /\ wrap_pc' \in {"idle", "step1"} => mirrored' = {}
BY DEF mirrored

LEMMA PlacedAnyLine ==
  ASSUME UNCHANGED orig, WellPlaced(text', {})
  PROVE  WellPlaced(text, {})'
BY DEF WellPlaced, Anchored

-----------------------------------------------------------------------------
(* What the shaper does to ligatures.  It runs between the draws, when no  *)
(* part of the buffer is reversed.                                         *)

\* The forms of an entry, and its letter, are right-to-left letters.
LEMMA EntryLetters ==
  ASSUME NEW k \in 1 .. Len(ARABIC_SHAPER_LUT)
  PROVE  /\ ~LigatureEntry(k) => Entry(k).true \in Rune /\ RtlLetter(Entry(k).true)
         /\ \A cp \in FormCodepts(Entry(k)) : cp \in Rune /\ RtlLetter(cp)
<1>1. Entry(k).true \in TwoBytes /\ k \in DOMAIN ARABIC_SHAPER_LUT
  BY EntryFacts
<1>2. ~LigatureEntry(k) => Entry(k).true \in Rune
  BY <1>1, RuneFacts DEF LigatureEntry
<1>3. ~LigatureEntry(k) => RtlLetter(Entry(k).true)
  BY <1>1, ScriptAssumption DEF LigatureEntry, Entry
<1>4. \A cp \in FormCodepts(Entry(k)) : cp \in ARABIC_SHAPER_RANGE \ LigatureCodepts
  BY EntryFacts
<1> QED BY <1>2, <1>3, <1>4, RuneFacts, RangeFacts, ScratchLetters

\* What shape_text leaves before a ligature is an RTL rune, and no letter.
LEMMA ZeroWidthFacts ==
  /\ ZERO_WIDTH_CODEPT \in Rune /\ is_rtl(ZERO_WIDTH_CODEPT)
  /\ ~LtrLetter(ZERO_WIDTH_CODEPT) /\ ~LigatureForm(ZERO_WIDTH_CODEPT)
<1>1. /\ ZERO_WIDTH_CODEPT \in TwoBytes /\ ~LigatureForm(ZERO_WIDTH_CODEPT)
      /\ ZERO_WIDTH_CODEPT \notin LigatureCodepts
  BY RangeFacts, LettersAreNoForms
<1>2. ZERO_WIDTH_CODEPT \in Rune
  BY <1>1, RuneFacts
<1>3. ZERO_WIDTH_CODEPT \in RANGE(\h590, \h600)
  BY SMT DEF ZERO_WIDTH_CODEPT, RANGE
<1>4. is_rtl(ZERO_WIDTH_CODEPT)
  BY <1>3 DEF is_rtl, RTL
<1> QED BY <1>1, <1>2, <1>4, RuneFacts

\* Runes are rewritten where no left-to-right letter is; a ligature written
\* there follows an RTL rune.
LEMMA RewritePlaced ==
  ASSUME Len(orig) \in Nat, WellPlaced(text, {}),
         NEW u \in [1 .. Len(orig) -> Rune],
         NEW a \in 1 .. Len(orig) + 1, NEW b \in 0 .. Len(orig) + 1,
         SameStretch(text, u, a, b),
         \A i \in a .. b - 1 : LigatureForm(u[i]) => Follows(u, i)
  PROVE  /\ WellPlaced(u, {})
         /\ \A i \in (1 .. Len(orig)) \ (a .. b - 1) : Follows(text, i) => Follows(u, i)
<1> DEFINE n == Len(orig)
<1>1. n \in Nat /\ DOMAIN text = 1 .. n /\ DOMAIN u = 1 .. n
  BY DEF WellPlaced
<1> HIDE DEF n
<1>2. RtlStart(u) <=> RtlStart(orig)
  BY <1>1, StretchStart DEF WellPlaced, n
<1>3. \A i \in (1 .. n) \ (a .. b - 1) : Follows(text, i) => Follows(u, i)
  BY <1>1, StretchFollows DEF n
<1>4. ASSUME NEW i \in 1 .. n, LigatureForm(u[i]) PROVE Follows(u, i)
  <2>1. CASE i \in a .. b - 1
    BY <1>4, <2>1
  <2>2. CASE i \notin a .. b - 1
    <3>1. u[i] = text[i]
      BY <1>1, <2>2 DEF SameStretch
    <3>2. Follows(text, i)
      BY <1>4, <3>1 DEF WellPlaced, Anchored, n
    <3> QED BY <1>3, <2>2, <3>2
  <2> QED BY <2>1, <2>2
<1> QED BY <1>2, <1>3, <1>4 DEF WellPlaced, Anchored, n

\* A right-to-left letter is written over another.
LEMMA LetterPlaced ==
  ASSUME Len(orig) \in Nat, WellPlaced(text, {}), NEW p \in 1 .. Len(orig), NEW cp \in Rune,
         RtlLetter(text[p]), RtlLetter(cp), LigatureForm(cp) => Follows(text, p)
  PROVE  /\ WellPlaced([text EXCEPT ![p] = cp], {})
         /\ \A i \in 1 .. Len(orig) : Follows(text, i) => Follows([text EXCEPT ![p] = cp], i)
<1> DEFINE u == [text EXCEPT ![p] = cp]
<1>1. /\ text \in [1 .. Len(orig) -> Rune] /\ u \in [1 .. Len(orig) -> Rune]
      /\ u[p] = cp /\ \A i \in (1 .. Len(orig)) \ {p} : u[i] = text[i]
  BY DEF WellPlaced
<1> HIDE DEF u
<1>2. p .. (p + 1) - 1 = {p} /\ p + 1 \in 0 .. Len(orig) + 1
  OBVIOUS
<1>3. ~LtrLetter(text[p]) /\ ~LtrLetter(u[p]) /\ is_rtl(text[p]) /\ is_rtl(u[p])
  BY <1>1, RuneFacts DEF RtlLetter
<1>4. SameStretch(text, u, p, p + 1)
  BY <1>1, <1>2, <1>3 DEF SameStretch
<1>5. Follows(text, p) => Follows(u, p)
  <2> SUFFICES ASSUME Follows(text, p) PROVE Follows(u, p)
    OBVIOUS
  <2>1. PICK j \in 1 .. Len(orig) : j < p /\ Linked(text, j, p)
    BY <1>1 DEF Follows
  <2>2. Linked(u, j, p)
    BY <1>1, <1>3, <2>1 DEF Linked
  <2> QED BY <1>1, <2>1, <2>2 DEF Follows
<1>6. /\ WellPlaced(u, {})
      /\ \A i \in (1 .. Len(orig)) \ {p} : Follows(text, i) => Follows(u, i)
  BY <1>1, <1>2, <1>4, <1>5, RewritePlaced
<1> QED BY <1>5, <1>6 DEF u

\* The two runes of a ligature are written or restored.
LEMMA PairPlaced ==
  ASSUME Len(orig) \in Nat, WellPlaced(text, {}), NEW u \in [1 .. Len(orig) -> Rune],
         NEW p \in 1 .. Len(orig), NEW q \in 1 .. Len(orig), q = p + 1,
         \A i \in (1 .. Len(orig)) \ {p, q} : u[i] = text[i],
         ~LtrLetter(text[p]), ~LtrLetter(u[p]), ~LigatureForm(u[p]),
         RtlLetter(text[q]), RtlLetter(u[q]), ~LigatureForm(u[q])
  PROVE  /\ WellPlaced(u, {})
         /\ \A i \in (1 .. Len(orig)) \ {p, q} : Follows(text, i) => Follows(u, i)
<1>1. text \in [1 .. Len(orig) -> Rune]
  BY DEF WellPlaced
<1>2. p .. (q + 1) - 1 = {p, q} /\ q + 1 \in 0 .. Len(orig) + 1
  OBVIOUS
<1>3. ~LtrLetter(text[q]) /\ ~LtrLetter(u[q]) /\ is_rtl(text[q]) /\ is_rtl(u[q])
  BY <1>1, RuneFacts DEF RtlLetter
<1>4. SameStretch(text, u, p, q + 1)
  BY <1>1, <1>2, <1>3 DEF SameStretch
<1>5. \A i \in p .. (q + 1) - 1 : ~LigatureForm(u[i])
  BY <1>2
<1>6. /\ WellPlaced(u, {})
      /\ \A i \in (1 .. Len(orig)) \ (p .. (q + 1) - 1) : Follows(text, i) => Follows(u, i)
  BY <1>2, <1>4, <1>5, RewritePlaced
<1> QED BY <1>2, <1>6

\* The rune read ahead: either it is in the buffer as it was read, or shape_text
\* has made a ligature of it and of the rune before it.
Ahead ==
  \/ codept_next = text[next_rune_ptr]
  \/ /\ codept_next \in LigatureCodepts /\ RtlLetter(text[next_rune_ptr])
     /\ next_rune_ptr > 1 /\ is_rtl(text[next_rune_ptr - 1])
ShapeAhead ==
  /\ ptr >= 1
  /\ next_rune_ptr = NULL => codept_next = 0
  /\ next_rune_ptr # NULL => next_rune_ptr = ptr - 1 /\ Ahead
  /\ next_lut_entry # NULL => Entry(next_lut_entry).true = codept_next

\* The letter whose form may still have to be corrected.
ShapeLate ==
  late_finalize_ptr # NULL =>
    /\ late_finalize_ptr < ptr /\ (next_rune_ptr # NULL => late_finalize_ptr < next_rune_ptr)
    /\ RtlLetter(text[late_finalize_ptr])
    /\ LigatureEntry(late_finalize_lut_entry) => Follows(text, late_finalize_ptr)

\* A letter with an entry is a right-to-left letter of the buffer; a ligature
\* follows an RTL rune.
LEMMA AheadLetter ==
  ASSUME ShaperType, WellPlaced(text, {}), ShapeAhead, this_lut_entry # NULL
  PROVE  /\ this_lut_entry \in 1 .. Len(ARABIC_SHAPER_LUT)
         /\ this_rune_ptr \in 1 .. Len(orig) /\ this_rune_ptr = ptr - 1
         /\ RtlLetter(text[this_rune_ptr])
         /\ LigatureEntry(this_lut_entry) => Follows(text, this_rune_ptr)
<1> DEFINE p == next_rune_ptr
<1>1. /\ this_lut_entry \in 1 .. Len(ARABIC_SHAPER_LUT)
      /\ Entry(this_lut_entry).true = codept_next
  BY EntryFacts DEF ShaperType, ShapeAhead, this_lut_entry, NULL
<1>2. codept_next # 0
  BY <1>1, EntryFacts, RangeFacts
<1>3. p \in 1 .. Len(orig) /\ p = ptr - 1 /\ Ahead
  BY <1>2, TextFacts DEF ShaperType, ShapeAhead, NULL
<1>4. text \in [1 .. Len(orig) -> Rune]
  BY DEF WellPlaced
<1>5. CASE codept_next = text[p]
  <2>1. codept_next \notin LigatureCodepts
    BY <1>3, <1>4, <1>5 DEF Rune
  <2> QED BY <1>1, <1>3, <1>5, <2>1, EntryLetters DEF LigatureEntry, this_rune_ptr
<1>6. CASE codept_next # text[p]
  <2>1. RtlLetter(text[p]) /\ p - 1 \in 1 .. Len(orig) /\ is_rtl(text[p - 1])
    BY <1>3, <1>6 DEF Ahead
  <2>2. ~LtrLetter(text[p]) /\ ~LtrLetter(text[p - 1])
    BY <1>3, <1>4, <2>1, RuneFacts DEF RtlLetter
  <2>3. Linked(text, p - 1, p)
    <3>1. \A k \in 1 .. Len(orig) : (p - 1 <= k /\ k <= p) \/ (p <= k /\ k <= p - 1) =>
            k = p \/ k = p - 1
      BY <1>3, TextFacts
    <3> QED BY <1>4, <2>1, <2>2, <3>1 DEF Linked
  <2>4. Follows(text, p)
    BY <1>3, <1>4, <2>1, <2>3 DEF Follows
  <2> QED BY <1>1, <1>3, <2>1, <2>4 DEF this_rune_ptr
<1> QED BY <1>5, <1>6

LEMMA LigatesFacts ==
  ASSUME ShaperType, WellPlaced(text, {}), ShapeAhead, ligates
  PROVE  /\ this_rune_ptr \in 1 .. Len(orig) /\ ptr \in 1 .. Len(orig) /\ this_rune_ptr = ptr - 1
         /\ RtlLetter(text[this_rune_ptr]) /\ ~LtrLetter(text[this_rune_ptr])
         /\ RtlLetter(text[ptr]) /\ ~LigatureForm(text[ptr])
         /\ lig_codept \in LigatureCodepts
<1>1. /\ unread /\ lig_codept \in LigatureCodepts
      /\ codept_next \in TwoBytes \ ARABIC_SHAPER_RANGE /\ RtlLetter(codept_next)
      /\ codept(text[ptr]) \in TwoBytes \ ARABIC_SHAPER_RANGE /\ RtlLetter(codept(text[ptr]))
  BY ReadFacts DEF ligates, codept_this
<1>2. text \in [1 .. Len(orig) -> Rune]
  BY DEF WellPlaced
<1>3. ptr \in 1 .. Len(orig) /\ codept(text[ptr]) = text[ptr]
  BY <1>1, <1>2, TextFacts, RuneFacts
<1>4. next_rune_ptr \in 1 .. Len(orig) /\ next_rune_ptr = ptr - 1 /\ Ahead
  BY <1>1, TextFacts, RangeFacts DEF ShaperType, ShapeAhead, NULL
<1>5. text[next_rune_ptr] = codept_next
  BY <1>1, <1>4, LettersAreNoForms DEF Ahead
<1>6. ~LtrLetter(text[next_rune_ptr])
  BY <1>1, <1>2, <1>4, <1>5, RuneFacts DEF RtlLetter
<1> QED BY <1>1, <1>3, <1>4, <1>5, <1>6, LettersAreNoForms DEF this_rune_ptr

\* The read-ahead, in an iteration that does not write to what it reads.
LEMMA ReadAheadKept ==
  ASSUME ShaperType, WellPlaced(text, {}), ShapeAhead, ReadForward,
         unread => text'[ptr] = text[ptr],
         ligates => is_rtl(text'[ptr - 1])
  PROVE  ShapeAhead'
<1>1. /\ ptr' = IF unread THEN ptr + 1 ELSE ptr
      /\ next_rune_ptr' = IF unread THEN ptr ELSE NULL
      /\ codept_next' = read_codept /\ next_lut_entry' = read_lut_entry
  BY DEF ReadForward
<1>2. ptr \in Nat /\ ptr >= 1
  BY TextFacts DEF ShapeAhead, ShaperType
<1>3. next_lut_entry' # NULL => Entry(next_lut_entry').true = codept_next'
  BY <1>1, ReadFacts, Zenon
<1>4. CASE ~unread
  BY <1>1, <1>2, <1>3, <1>4 DEF ShapeAhead, read_codept, NULL
<1>5. CASE unread /\ ligates
  <2>1. /\ next_rune_ptr' = ptr /\ ptr' = ptr + 1 /\ codept_next' = lig_codept
        /\ text'[ptr] = text[ptr] /\ is_rtl(text'[ptr - 1])
    BY <1>1, <1>5 DEF read_codept, ligates
  <2>2. lig_codept \in LigatureCodepts /\ RtlLetter(text[ptr]) /\ ptr > 1
    BY <1>2, <1>5, LigatesFacts
  <2>3. Ahead'
    BY <2>1, <2>2 DEF Ahead
  <2> QED BY <1>2, <1>3, <2>1, <2>3 DEF ShapeAhead, NULL
<1>6. CASE unread /\ ~ligates
  <2>1. /\ next_rune_ptr' = ptr /\ ptr' = ptr + 1 /\ codept_next' = codept(text[ptr])
        /\ text'[ptr] = text[ptr]
    BY <1>1, <1>6 DEF read_codept, ligates
  <2>2. codept(text[ptr]) = text[ptr]
    BY <1>6, TextFacts, RuneFacts DEF WellPlaced
  <2>3. Ahead'
    BY <2>1, <2>2 DEF Ahead
  <2> QED BY <1>2, <1>3, <2>1, <2>3 DEF ShapeAhead, NULL
<1> QED BY <1>4, <1>5, <1>6

\* A step that does not write over a left-to-right letter.
LtrKept == \A i \in 1 .. Len(orig) : LtrLetter(text[i]) => text'[i] = text[i]

\* A write that tears no rune apart.
LEMMA WriteIntact ==
  ASSUME ShaperType, NEW p, NEW cp, Write(p, cp), intact'
  PROVE  intact /\ p \in 1 .. Len(orig) /\ text' = [text EXCEPT ![p] = cp]
BY TextFacts DEF Write, write_utf8, writable

\* A form is written over a letter that has been read.
LEMMA FormPlaced ==
  ASSUME ShaperType, WellPlaced(text, {}),
         NEW p, NEW k \in 1 .. Len(ARABIC_SHAPER_LUT), NEW cp \in FormCodepts(Entry(k)),
         Write(p, cp), intact', p < ptr,
         RtlLetter(text[p]), LigatureEntry(k) => Follows(text, p)
  PROVE  /\ WellPlaced(text', {}) /\ p \in 1 .. Len(orig)
         /\ RtlLetter(text'[p]) /\ (unread => text'[ptr] = text[ptr])
         /\ \A i \in 1 .. Len(orig) : Follows(text, i) => Follows(text', i)
         /\ LtrKept
<1>1. p \in 1 .. Len(orig) /\ text' = [text EXCEPT ![p] = cp]
  BY WriteIntact
<1>2. cp \in Rune /\ RtlLetter(cp) /\ (LigatureForm(cp) => LigatureEntry(k))
  BY EntryLetters, EntryFacts
<1>3. /\ WellPlaced(text', {})
      /\ \A i \in 1 .. Len(orig) : Follows(text, i) => Follows(text', i)
  BY <1>1, <1>2, LetterPlaced, TextFacts
<1>4. RtlLetter(text'[p]) /\ (unread => text'[ptr] = text[ptr])
  BY <1>1, <1>2, TextFacts
<1>5. ~LtrLetter(text[p])
  BY <1>1, RuneFacts DEF WellPlaced, RtlLetter
<1>6. LtrKept
  BY <1>1, <1>5, TextFacts DEF LtrKept
<1> QED BY <1>1, <1>3, <1>4, <1>6

\* An iteration of shape_text.
LEMMA ShapeIteratePlaced ==
  ASSUME ShaperType, WellPlaced(text, {}), ShapeAhead, ShapeLate, ShapeIterate, intact'
  PROVE  WellPlaced(text', {}) /\ ShapeAhead' /\ ShapeLate' /\ intact /\ LtrKept
<1>1. ReadForward
  BY DEF ShapeIterate, Ligate, SkipMark, ShapeLast, ShapeJoined, EndWord
<1>2. /\ ptr' = IF unread THEN ptr + 1 ELSE ptr
      /\ next_rune_ptr' = IF unread THEN ptr ELSE NULL
  BY <1>1 DEF ReadForward
<1>3. ptr \in Nat /\ next_rune_ptr \in Nat /\ late_finalize_ptr \in Nat
  BY TextFacts DEF ShaperType
<1>4. CASE Ligate
  <2>1. /\ ligates /\ Write(this_rune_ptr, ZERO_WIDTH_CODEPT)
        /\ UNCHANGED <<late_finalize_ptr, late_finalize_lut_entry>>
    BY <1>4 DEF Ligate
  <2> DEFINE p == this_rune_ptr
  <2>2. /\ p \in 1 .. Len(orig) /\ ptr \in 1 .. Len(orig) /\ ptr = p + 1 /\ p = ptr - 1
        /\ ~LtrLetter(text[p]) /\ RtlLetter(text[ptr]) /\ ~LigatureForm(text[ptr])
    BY <1>3, <2>1, LigatesFacts
  <2>3. text \in [1 .. Len(orig) -> Rune]
    BY DEF WellPlaced
  <2>4. intact /\ text' = [text EXCEPT ![p] = ZERO_WIDTH_CODEPT]
    BY <2>1, WriteIntact
  <2> HIDE DEF p
  <2>5. /\ text' \in [1 .. Len(orig) -> Rune] /\ text'[p] = ZERO_WIDTH_CODEPT
        /\ \A i \in (1 .. Len(orig)) \ {p} : text'[i] = text[i]
    BY <2>2, <2>3, <2>4, ZeroWidthFacts
  <2>6. text'[ptr] = text[ptr] /\ text'[ptr - 1] = ZERO_WIDTH_CODEPT
    BY <2>2, <2>5
  <2>7. /\ WellPlaced(text', {})
        /\ \A i \in (1 .. Len(orig)) \ {p, ptr} : Follows(text, i) => Follows(text', i)
    <3> DEFINE u == text'
    <3>1. /\ \A i \in (1 .. Len(orig)) \ {p, ptr} : u[i] = text[i]
          /\ ~LtrLetter(u[p]) /\ ~LigatureForm(u[p])
          /\ RtlLetter(u[ptr]) /\ ~LigatureForm(u[ptr])
      BY <2>2, <2>5, <2>6, ZeroWidthFacts
    <3>2. u \in [1 .. Len(orig) -> Rune] /\ Len(orig) \in Nat
      BY <2>5, TextFacts
    <3> HIDE DEF u
    <3>3. /\ WellPlaced(u, {})
          /\ \A i \in (1 .. Len(orig)) \ {p, ptr} : Follows(text, i) => Follows(u, i)
      BY <2>2, <3>1, <3>2, PairPlaced
    <3> QED BY <3>3 DEF u
  <2>8. ShapeAhead'
    BY <1>1, <2>6, ReadAheadKept, ZeroWidthFacts
  <2>9. ShapeLate'
    <3>1. SUFFICES ASSUME late_finalize_ptr # NULL PROVE ShapeLate'
      BY <2>1 DEF ShapeLate
    <3>2. p # NULL /\ p = next_rune_ptr
      BY <2>2 DEF NULL, p, this_rune_ptr
    <3>3. late_finalize_ptr \in 1 .. Len(orig) /\ late_finalize_ptr < p
      BY <3>1, <3>2, TextFacts DEF ShapeLate, ShaperType, NULL
    <3>4. /\ text'[late_finalize_ptr] = text[late_finalize_ptr]
          /\ Follows(text, late_finalize_ptr) => Follows(text', late_finalize_ptr)
      BY <2>2, <2>5, <2>7, <3>3
    <3>5. late_finalize_ptr < ptr' /\ late_finalize_ptr < ptr
      BY <1>2, <1>3, <2>2, <3>3
    <3> QED BY <1>2, <2>1, <3>1, <3>4, <3>5 DEF ShapeLate, LigatureEntry
  <2>10. LtrKept
    BY <2>2, <2>5 DEF LtrKept
  <2> QED BY <2>4, <2>7, <2>8, <2>9, <2>10
<1>5. CASE SkipMark
  <2>1. /\ text' = text /\ intact' = intact /\ ~ligates
        /\ UNCHANGED <<late_finalize_ptr, late_finalize_lut_entry>>
    BY <1>5 DEF SkipMark, marks
  <2>2. ShapeAhead'
    BY <1>1, <2>1, ReadAheadKept
  <2>3. late_finalize_ptr < ptr => late_finalize_ptr < ptr'
    BY <1>2, <1>3
  <2>4. ShapeLate'
    BY <1>2, <2>1, <2>3 DEF ShapeLate, LigatureEntry
  <2> QED BY <2>1, <2>2, <2>4 DEF LtrKept
<1>6. this_lut_entry # NULL => this_rune_ptr < ptr
  BY <1>3, AheadLetter
<1>7. CASE ShapeLast
  <2>1. /\ this_lut_entry # NULL /\ ~ligates /\ late_finalize_ptr' = NULL
        /\ Write(this_rune_ptr, IF state = "STATE_INITIAL" THEN Entry(this_lut_entry).isolated
                                ELSE Entry(this_lut_entry).isolated + Entry(this_lut_entry).final)
    BY <1>7 DEF ShapeLast, shapes
  <2>2. intact
    BY <2>1, WriteIntact
  <2>3. WellPlaced(text', {}) /\ (unread => text'[ptr] = text[ptr]) /\ LtrKept
    BY <1>6, <2>1, AheadLetter, FormWritten, FormPlaced
  <2>4. ShapeAhead'
    BY <1>1, <2>1, <2>3, ReadAheadKept
  <2> QED BY <2>1, <2>2, <2>3, <2>4 DEF ShapeLate
<1>8. CASE ShapeJoined
  <2>1. /\ this_lut_entry # NULL /\ ~ligates
        /\ late_finalize_ptr' = this_rune_ptr /\ late_finalize_lut_entry' = this_lut_entry
        /\ Write(this_rune_ptr,
                 Entry(this_lut_entry).isolated
                   + (IF state = "STATE_INITIAL" THEN Entry(this_lut_entry).initial
                      ELSE Entry(this_lut_entry).medial))
    BY <1>8 DEF ShapeJoined, shapes
  <2>2. intact
    BY <2>1, WriteIntact
  <2>3. /\ WellPlaced(text', {}) /\ (unread => text'[ptr] = text[ptr])
        /\ this_rune_ptr \in 1 .. Len(orig) /\ RtlLetter(text'[this_rune_ptr]) /\ LtrKept
        /\ \A i \in 1 .. Len(orig) : Follows(text, i) => Follows(text', i)
    BY <1>6, <2>1, AheadLetter, FormWritten, FormPlaced
  <2>4. ShapeAhead'
    BY <1>1, <2>1, <2>3, ReadAheadKept
  <2>5. LigatureEntry(this_lut_entry) => Follows(text', this_rune_ptr)
    BY <2>1, <2>3, AheadLetter
  <2>6. this_rune_ptr < ptr /\ this_rune_ptr < ptr'
    BY <1>2, <1>3, <1>6, <2>1 DEF this_rune_ptr
  <2>7. ShapeLate'
    BY <1>2, <2>1, <2>3, <2>5, <2>6 DEF ShapeLate, LigatureEntry
  <2> QED BY <2>2, <2>3, <2>4, <2>7
<1>9. CASE EndWord
  <2>1. ~ligates /\ late_finalize_ptr' = NULL
    BY <1>9 DEF EndWord
  <2>2. intact /\ WellPlaced(text', {}) /\ (unread => text'[ptr] = text[ptr]) /\ LtrKept
    <3>1. CASE late_finalize_ptr = NULL
      BY <1>9, <3>1 DEF EndWord, LtrKept
    <3>2. CASE late_finalize_ptr # NULL
      <4>1. late_finalize_lut_entry \in 1 .. Len(ARABIC_SHAPER_LUT)
        BY <3>2, EntryFacts DEF ShaperType, NULL
      <4>2. Write(late_finalize_ptr,
                  IF state = "STATE_INITIAL" THEN Entry(late_finalize_lut_entry).isolated
                  ELSE Entry(late_finalize_lut_entry).isolated
                         + Entry(late_finalize_lut_entry).final)
        BY <1>9, <3>2 DEF EndWord
      <4>3. /\ late_finalize_ptr < ptr /\ RtlLetter(text[late_finalize_ptr])
            /\ LigatureEntry(late_finalize_lut_entry) => Follows(text, late_finalize_ptr)
        BY <3>2 DEF ShapeLate
      <4>4. intact
        BY <4>2, WriteIntact
      <4> QED BY <4>1, <4>2, <4>3, <4>4, FormWritten, FormPlaced
    <3> QED BY <3>1, <3>2
  <2>3. ShapeAhead'
    BY <1>1, <2>1, <2>2, ReadAheadKept
  <2> QED BY <2>1, <2>2, <2>3 DEF ShapeLate
<1> QED BY <1>4, <1>5, <1>7, <1>8, <1>9 DEF ShapeIterate

\* An iteration of unshape_text: the rune before a ligature, which
\* expand_ligature writes over, is no left-to-right letter.
LEMMA UnshapeIteratePlaced ==
  ASSUME ShaperType, WellPlaced(text, {}), UnshapeIterate, intact'
  PROVE  WellPlaced(text', {}) /\ intact /\ LtrKept
<1>1. CASE LeaveRune \/ UnshapeReturn
  BY <1>1 DEF LeaveRune, UnshapeReturn, LtrKept
<1>2. text \in [1 .. Len(orig) -> Rune]
  BY DEF WellPlaced
<1>3. ASSUME unread, old_codept # 0
      PROVE  /\ ptr \in 1 .. Len(orig) /\ RtlLetter(text[ptr])
             /\ old_ligature = {} => /\ old_codept \in Rune /\ RtlLetter(old_codept)
                                     /\ ~LigatureForm(old_codept)
             /\ old_ligature # {} => LigatureForm(text[ptr])
  <2>1. ptr \in 1 .. Len(orig) /\ codept(text[ptr]) = text[ptr]
    BY <1>2, <1>3, TextFacts, RuneFacts
  <2>2. text[ptr] \in ARABIC_SHAPER_RANGE
    BY <1>3, <2>1, OldFacts
  <2>3. PICK k \in 1 .. Len(ARABIC_SHAPER_LUT) :
          old_codept = Entry(k).true /\ text[ptr] \in FormCodepts(Entry(k))
    BY <1>3, <2>1, OldFacts
  <2>4. old_ligature # {} <=> LigatureEntry(k)
    BY <1>3, <2>3, OldFacts DEF LigatureEntry
  <2>5. ~LigatureEntry(k) => old_codept \notin ARABIC_SHAPER_RANGE
    BY <2>3, EntryFacts DEF LigatureEntry
  <2> QED BY <2>1, <2>2, <2>3, <2>4, <2>5, EntryLetters, ScratchLetters, LettersAreNoForms
          DEF LigatureForm
<1>4. CASE RestoreRune
  <2>1. unread /\ old_codept # 0 /\ old_ligature = {} /\ Write(ptr, old_codept)
    BY <1>4 DEF RestoreRune
  <2>2. intact /\ text' = [text EXCEPT ![ptr] = old_codept]
    BY <2>1, WriteIntact
  <2>3. ptr \in 1 .. Len(orig) /\ RtlLetter(text[ptr])
    BY <1>3, <2>1
  <2>4. ~LtrLetter(text[ptr])
    BY <1>2, <2>3, RuneFacts DEF RtlLetter
  <2>5. LtrKept
    BY <1>2, <2>2, <2>4 DEF LtrKept
  <2> QED BY <1>3, <2>1, <2>2, <2>5, LetterPlaced, TextFacts
<1>5. CASE expand_ligature
  <2> DEFINE q == ptr - 1
             x == ARABIC_LIGATURE_LUT[First(old_ligature)].pattern[1]
             y == ARABIC_LIGATURE_LUT[First(old_ligature)].pattern[2]
  <2>1. /\ unread /\ old_codept # 0 /\ old_ligature # {}
        /\ text' = write_utf8(write_utf8(text, q, x), ptr, y)
        /\ intact' = (intact /\ writable(text, q) /\ writable(text, ptr))
    BY <1>5 DEF expand_ligature
  <2>2. ptr \in 1 .. Len(orig) /\ RtlLetter(text[ptr]) /\ LigatureForm(text[ptr])
    BY <1>3, <2>1
  <2>3. Follows(text, ptr)
    BY <2>2 DEF WellPlaced, Anchored
  <2>4. q \in 1 .. Len(orig) /\ ~LtrLetter(text[q]) /\ q + 1 = ptr
    <3>1. PICK j \in 1 .. Len(orig) : j < ptr /\ Linked(text, j, ptr)
      BY <1>2, <2>3 DEF Follows
    <3>2. q \in 1 .. Len(orig) /\ j <= q /\ q <= ptr /\ q + 1 = ptr
      BY <2>2, <3>1
    <3> QED BY <1>2, <3>1, <3>2 DEF Linked
  <2>5. First(old_ligature) \in DOMAIN ARABIC_LIGATURE_LUT
    BY <2>1, OldFacts
  <2>6. /\ x \in TwoBytes \ ARABIC_SHAPER_RANGE /\ y \in TwoBytes \ ARABIC_SHAPER_RANGE
        /\ RtlLetter(x) /\ RtlLetter(y)
    BY <2>5, LigatureFacts
  <2> HIDE DEF x, y, q
  <2>7. /\ x \in Rune /\ y \in Rune /\ ~LigatureForm(x) /\ ~LigatureForm(y) /\ ~LtrLetter(x)
    BY <2>6, RuneFacts, LettersAreNoForms DEF RtlLetter
  <2>8. writable(text, q) /\ writable(text, ptr) /\ intact
    BY <2>1
  <2>9. /\ text' \in [1 .. Len(orig) -> Rune] /\ text'[q] = x /\ text'[ptr] = y
        /\ \A i \in (1 .. Len(orig)) \ {q, ptr} : text'[i] = text[i]
    <3>1. write_utf8(text, q, x) = [text EXCEPT ![q] = x]
      BY <2>8 DEF write_utf8, writable
    <3>2. write_utf8([text EXCEPT ![q] = x], ptr, y) = [[text EXCEPT ![q] = x] EXCEPT ![ptr] = y]
      BY <1>2, <2>2, <2>4, <2>8 DEF write_utf8, writable
    <3>3. text' = [[text EXCEPT ![q] = x] EXCEPT ![ptr] = y] /\ q # ptr
      BY <2>1, <2>2, <2>4, <3>1, <3>2
    <3> QED BY <1>2, <2>2, <2>4, <2>7, <3>3
  <2>10. WellPlaced(text', {})
    BY <2>2, <2>4, <2>6, <2>7, <2>9, PairPlaced, TextFacts
  <2>11. ~LtrLetter(text[ptr])
    BY <1>2, <2>2, RuneFacts DEF RtlLetter
  <2>12. LtrKept
    BY <2>4, <2>9, <2>11 DEF LtrKept
  <2> QED BY <2>8, <2>10, <2>12
<1> QED BY <1>1, <1>4, <1>5 DEF UnshapeIterate

-----------------------------------------------------------------------------
(* All draws and measurements together.                                    *)

\* The draw functions see the application's alignment, and then the right one,
\* as long as no rune has been torn apart.
AlignInv ==
  /\ in_ram
  /\ Plain(orig) /\ intact =>
       /\ Placed
       /\ shaper_pc = "shape" => ShapeAhead /\ ShapeLate
       /\ draw_pc \in {"shape", "align"} => alignment = asked
       /\ draw_pc = "layout" => alignment = aligned(orig, asked)

LEMMA PlainOrig ==
  ASSUME DrawInv, Plain(orig)
  PROVE  /\ orig \in [1 .. Len(orig) -> Rune] /\ Len(orig) \in Nat
         /\ \A i \in 1 .. Len(orig) : ~LigatureForm(orig[i])
<1>1. /\ Len(orig) \in Nat /\ orig \in [1 .. Len(orig) -> Nat] /\ DOMAIN orig = 1 .. Len(orig)
      /\ orig \in Texts
  BY Shape DEF DrawInv, CallType
<1>2. ASSUME NEW i \in 1 .. Len(orig) PROVE orig[i] \in Rune /\ ~LigatureForm(orig[i])
  <2>1. orig[i] \in uint16 /\ orig[i] # 0
    BY <1>1, TextsAssumption DEF Plain, Bmp, uint16
  <2>2. orig[i] \notin ARABIC_SHAPER_RANGE
    BY <1>1, <2>1, CodeptFacts DEF Plain, Unshaped
  <2> QED BY <2>1, <2>2, LettersAreNoForms DEF Rune
<1> QED BY <1>1, <1>2

\* Outside the stub.
LEMMA PlacedIdle ==
  ASSUME wrap_pc \in {"idle", "step1"}, rtl_pc = "idle"
  PROVE  Placed <=> WellPlaced(text, {})
BY PlacedOutside DEF Placed, PassInv

LEMMA PlacedIdlePrime ==
  ASSUME wrap_pc' \in {"idle", "step1"}, rtl_pc' = "idle", UNCHANGED orig, WellPlaced(text', {})
  PROVE  Placed'
<1>1. WellPlaced(text, {})' /\ mirrored' = {}
  BY PlacedAnyLine, PlacedOutside
<1> QED BY <1>1 DEF Placed, PassInv

LEMMA DrawInit_Align == DrawInit => AlignInv
<1> SUFFICES ASSUME DrawInit PROVE AlignInv
  OBVIOUS
<1>1. /\ text = orig /\ wrap_pc = "idle" /\ rtl_pc = "idle" /\ shaper_pc = "idle" /\ in_ram
      /\ draw_pc = "idle"
  BY DEF DrawInit, MeasureInit, RtlInit, ShaperInit
<1>2. ASSUME Plain(orig) PROVE Placed
  <2>1. WellPlaced(text, {})
    BY <1>1, <1>2, DrawInit_Inv, PlainOrig DEF WellPlaced
  <2> QED BY <1>1, <2>1, PlacedIdle
<1> QED BY <1>1, <1>2 DEF AlignInv

\* A step of the shaper, whoever called it.
LEMMA ShaperStepAligns ==
  ASSUME DrawInv, AlignInv, Plain(orig), intact', UNCHANGED orig,
         wrap_pc = "idle", wrap_pc' = "idle", rtl_pc = "idle", rtl_pc' = "idle",
         \/ ShapeCall \/ UnshapeCall
         \/ shaper_pc = "shape" /\ ShapeIterate
         \/ shaper_pc = "unshape" /\ UnshapeIterate
  PROVE  /\ Placed' /\ (shaper_pc' = "shape" => ShapeAhead' /\ ShapeLate') /\ intact
         /\ LtrKept
<1>1. ShaperType
  BY DEF DrawInv
<1>2. intact => WellPlaced(text, {}) /\ (shaper_pc = "shape" => ShapeAhead /\ ShapeLate)
  BY PlacedIdle DEF AlignInv
<1>3. SUFFICES /\ intact /\ WellPlaced(text', {}) /\ LtrKept
               /\ shaper_pc' = "shape" => ShapeAhead' /\ ShapeLate'
  BY PlacedIdlePrime
<1>4. CASE ShapeCall
  BY <1>2, <1>4 DEF ShapeCall, ShapeAhead, ShapeLate, LtrKept, NULL
<1>5. CASE UnshapeCall
  BY <1>2, <1>5 DEF UnshapeCall, LtrKept
<1>6. CASE shaper_pc = "shape" /\ ShapeIterate
  <2>1. intact
    BY <1>6 DEF ShapeIterate, Ligate, SkipMark, ShapeLast, ShapeJoined, EndWord, Write
  <2> QED BY <1>1, <1>2, <1>6, <2>1, ShapeIteratePlaced
<1>7. CASE shaper_pc = "unshape" /\ UnshapeIterate
  <2>1. intact
    BY <1>7 DEF UnshapeIterate, LeaveRune, RestoreRune, expand_ligature, UnshapeReturn, Write
  <2>2. shaper_pc' # "shape"
    BY <1>7 DEF UnshapeIterate, LeaveRune, RestoreRune, expand_ligature, UnshapeReturn
  <2> QED BY <1>1, <1>2, <1>7, <2>1, <2>2, UnshapeIteratePlaced
<1> QED BY <1>4, <1>5, <1>6, <1>7

LEMMA ShaperStepsAlign ==
  ASSUME DrawInv, AlignInv,
         (\E a \in GTextAlignment : DrawCall(a)) \/ DrawShapeStep \/ DrawUnshapeStep
  PROVE  AlignInv'
<1>1. UNCHANGED <<rtl_locals, wrap_vars, measure_vars>>
  BY DEF DrawCall, DrawShapeStep, DrawUnshapeStep
<1>2. /\ \/ ShapeCall
         \/ shaper_pc = "shape" /\ ShapeIterate
         \/ shaper_pc = "unshape" /\ UnshapeIterate
      /\ rtl_pc = "idle" /\ wrap_pc = "idle"
  BY DEF DrawInv, OneRoutine, DrawCall, DrawShapeStep, DrawUnshapeStep
<1>3. /\ rtl_pc' = "idle" /\ wrap_pc' = "idle" /\ orig' = orig /\ in_ram' = in_ram
      /\ Plain(orig)' <=> Plain(orig)
  BY <1>1, <1>2 DEF rtl_locals, wrap_vars, Plain, Unshaped, Bmp
<1>4. ASSUME Plain(orig), intact'
      PROVE  /\ Placed' /\ (shaper_pc' = "shape" => ShapeAhead' /\ ShapeLate')
             /\ draw_pc' \in {"shape", "align"} => alignment' = asked'
             /\ draw_pc' # "layout"
  <2>1. Placed' /\ (shaper_pc' = "shape" => ShapeAhead' /\ ShapeLate') /\ intact
    BY <1>2, <1>3, <1>4, ShaperStepAligns
  <2>2. /\ draw_pc' \in {"shape", "align"} => alignment' = asked'
        /\ draw_pc' # "layout"
    BY <1>4, <2>1 DEF AlignInv, DrawCall, DrawShapeStep, DrawUnshapeStep
  <2> QED BY <2>1, <2>2
<1> QED BY <1>3, <1>4 DEF AlignInv

\* gdt_alignment_step decides on the shaped buffer as it would on the text the
\* application wrote.
LEMMA AlignmentAligns ==
  ASSUME DrawInv, AlignInv, gdt_alignment_step
  PROVE  AlignInv'
<1>1. /\ draw_pc = "align" /\ draw_pc' = "layout" /\ alignment' = aligned(text, alignment)
      /\ UNCHANGED <<text, rtl_locals, wrap_vars, shaper_locals, asked>>
      /\ shaper_pc = "idle" /\ wrap_pc = "idle" /\ rtl_pc = "idle"
  BY DEF gdt_alignment_step, DrawInv, OneRoutine
<1>2. /\ orig' = orig /\ in_ram' = in_ram /\ intact' = intact /\ shaper_pc' = "idle"
      /\ wrap_pc' = "idle" /\ rtl_pc' = "idle" /\ (Plain(orig)' <=> Plain(orig))
  BY <1>1 DEF rtl_locals, wrap_vars, shaper_locals, Plain, Unshaped, Bmp
<1>3. ASSUME Plain(orig), intact
      PROVE  Placed' /\ alignment' = aligned(orig, asked)
  <2>1. WellPlaced(text, {}) /\ alignment = asked
    BY <1>1, <1>3, PlacedIdle DEF AlignInv
  <2>2. Placed'
    BY <1>1, <1>2, <2>1, PlacedIdlePrime
  <2>3. starts_rtl(text) <=> starts_rtl(orig)
    BY <1>3, <2>1, PlainOrig, StartsAreRtlStarts DEF WellPlaced
  <2> QED BY <1>1, <2>1, <2>2, <2>3 DEF aligned
<1>4. (aligned(orig, asked))' = aligned(orig, asked)
  BY <1>1, <1>2 DEF aligned, starts_rtl
<1> QED BY <1>1, <1>2, <1>3, <1>4 DEF AlignInv

\* The layout of a line, and the end of graphics_draw_text.
LEMMA LayoutAligns ==
  ASSUME DrawInv, AlignInv, LayoutLine \/ DrawReturn \/ graphics_draw_text_unshape
  PROVE  AlignInv'
<1>1. /\ text' = text /\ UNCHANGED <<rtl_locals, orig, in_ram, intact>>
      /\ draw_pc = "layout" /\ wrap_pc = "idle" /\ rtl_pc = "idle" /\ shaper_pc = "idle"
      /\ wrap_pc' \in {"idle", "step1"} /\ shaper_pc' # "shape"
      /\ \/ draw_pc' = "layout" /\ UNCHANGED <<asked, alignment>>
         \/ draw_pc' \in {"idle", "unshape"}
  BY DEF LayoutLine, DrawReturn, graphics_draw_text_unshape, LayoutReturn, UnshapeCall,
         shaper_locals, DrawInv, OneRoutine
<1>2. rtl_pc' = "idle" /\ (Plain(orig)' <=> Plain(orig))
  BY <1>1 DEF rtl_locals, Plain, Unshaped, Bmp
<1>3. ASSUME Plain(orig), intact
      PROVE  Placed' /\ (draw_pc' = "layout" => alignment' = aligned(orig, asked)')
  <2>1. WellPlaced(text, {}) /\ alignment = aligned(orig, asked)
    BY <1>1, <1>3, PlacedIdle DEF AlignInv
  <2>2. Placed'
    BY <1>1, <1>2, <2>1, PlacedIdlePrime
  <2> QED BY <1>1, <2>1, <2>2 DEF aligned, starts_rtl
<1> QED BY <1>1, <1>2, <1>3 DEF AlignInv

\* The stub around the render handler.
LEMMA RenderAligns ==
  ASSUME DrawInv, AlignInv, RenderLine
  PROVE  AlignInv'
<1>1. /\ draw_pc = "layout" /\ UNCHANGED <<shaper_locals, measure_vars, draw_vars>>
      /\ render_rtl_step \/ SkipStep \/ RtlStep \/ EndStep \/ RenderHandler
      /\ shaper_pc = "idle"
  BY DEF RenderLine, DrawInv, OneRoutine
<1>2. /\ orig' = orig /\ in_ram' = in_ram
  BY <1>1 DEF measure_vars, render_rtl_step, SkipStep, RtlStep, EndStep, RenderHandler, wrap_vars
<1>3. /\ shaper_pc' = "idle" /\ intact' = intact /\ (Plain(orig)' <=> Plain(orig))
      /\ draw_pc' = "layout" /\ alignment' = alignment
      /\ (aligned(orig, asked))' = aligned(orig, asked)
  BY <1>1, <1>2 DEF shaper_locals, draw_vars, Plain, Unshaped, Bmp, aligned, starts_rtl
<1>4. ASSUME Plain(orig), intact PROVE Placed'
  <2>1. Placed /\ RtlInv
    BY <1>4 DEF AlignInv, DrawInv
  <2>2. CASE render_rtl_step
    BY <2>1, <2>2, CallPlaced
  <2>3. CASE RtlStep
    <3>1. RtlIterate /\ UNCHANGED wrap_vars /\ wrap_pc \in {"rtl1", "rtl2"}
      BY <2>3 DEF RtlStep, RtlIterate, OpenSpan, ContinueSpan, CloseSpan, PassOver, ReadAhead,
             DrawInv, OneRoutine
    <3> QED BY <2>1, <3>1, RtlIteratePlaced
  <2>4. CASE EndStep
    <3>1. wrap_pc \in {"rtl1", "rtl2"}
      BY <2>4 DEF EndStep, RtlReturn, DrawInv, OneRoutine
    <3> QED BY <2>1, <2>4, <3>1, ReturnPlaced
  <2>5. CASE SkipStep
    <3>1. /\ wrap_pc \in {"step1", "step2"} /\ rtl_pc = "idle" /\ line_start \notin DOMAIN text
          /\ text' = text /\ UNCHANGED <<rtl_locals, line_start, line_limit>>
      BY <2>5 DEF SkipStep, touches_line, AlignInv, DrawInv, OneRoutine
    <3>2. line_start .. line_limit - 1 = {}
      BY <2>1, <3>1, Shape
    <3>3. mirrored = {} /\ mirrored' = {}
      BY <3>1, <3>2 DEF mirrored
    <3>4. WellPlaced(text, mirrored)'
      BY <1>2, <2>1, <3>1, <3>3 DEF Placed, WellPlaced, Anchored, Precedes
    <3> QED BY <3>1, <3>4 DEF Placed, PassInv, rtl_locals
  <2>6. CASE RenderHandler
    <3>1. /\ wrap_pc = "handler" /\ wrap_pc' = "step2" /\ rtl_pc = "idle"
          /\ text' = text /\ UNCHANGED <<rtl_locals, line_start, line_limit>>
      BY <2>6 DEF RenderHandler, DrawInv, OneRoutine
    <3>2. mirrored' = mirrored
      BY <3>1 DEF mirrored
    <3>3. WellPlaced(text, mirrored)'
      BY <1>2, <2>1, <3>1, <3>2, PlacedPrime DEF Placed
    <3> QED BY <3>1, <3>3 DEF Placed, PassInv, rtl_locals
  <2> QED BY <1>1, <2>2, <2>3, <2>4, <2>5, <2>6
<1> QED BY <1>1, <1>2, <1>3, <1>4 DEF AlignInv

\* A step of a measurement.
LEMMA MeasureAligns ==
  ASSUME DrawInv, AlignInv, MeasureStep
  PROVE  AlignInv'
<1>1. /\ draw_pc = "idle" /\ MeasureNext /\ UNCHANGED <<rtl_locals, wrap_vars, draw_vars>>
      /\ rtl_pc = "idle" /\ wrap_pc = "idle"
  BY DEF MeasureStep, DrawInv, OneRoutine
<1>2. /\ rtl_pc' = "idle" /\ wrap_pc' = "idle" /\ orig' = orig /\ in_ram' = in_ram
      /\ draw_pc' = "idle" /\ (Plain(orig)' <=> Plain(orig))
  BY <1>1 DEF rtl_locals, wrap_vars, draw_vars, Plain, Unshaped, Bmp
<1>3. ASSUME Plain(orig), intact'
      PROVE  Placed' /\ (shaper_pc' = "shape" => ShapeAhead' /\ ShapeLate')
  <2>1. CASE PassthruAndKeep
    <3>1. UNCHANGED <<text, shaper_locals>>
      BY <2>1 DEF PassthruAndKeep
    <3>2. intact /\ text' = text
      BY <1>3, <3>1 DEF shaper_locals
    <3>3. WellPlaced(text, {}) /\ (shaper_pc = "shape" => ShapeAhead /\ ShapeLate)
      BY <1>1, <1>3, <3>2, PlacedIdle DEF AlignInv
    <3>4. Placed'
      BY <1>2, <3>2, <3>3, PlacedIdlePrime
    <3>5. shaper_pc' = "shape" => ShapeAhead' /\ ShapeLate'
      BY <3>1, <3>3 DEF shaper_locals, ShapeAhead, Ahead, ShapeLate, LigatureEntry
    <3> QED BY <3>4, <3>5
  <2>2. CASE ~PassthruAndKeep
    <3>1. \/ ShapeCall \/ UnshapeCall
          \/ shaper_pc = "shape" /\ ShapeIterate
          \/ shaper_pc = "unshape" /\ UnshapeIterate
      BY <1>1, <2>2 DEF MeasureNext, Measure, ShapeStep, PassthruAndUnshape, UnshapeStep, DrawInv,
             CallType
    <3> QED BY <1>1, <1>2, <1>3, <3>1, ShaperStepAligns
  <2> QED BY <2>1, <2>2
<1> QED BY <1>2, <1>3 DEF AlignInv

LEMMA DrawNext_Align == DrawInv /\ AlignInv /\ [DrawNext]_all_vars => AlignInv'
<1> SUFFICES ASSUME DrawInv, AlignInv, [DrawNext]_all_vars PROVE AlignInv'
  OBVIOUS
<1>1. CASE UNCHANGED all_vars
  <2>1. UNCHANGED <<text, rtl_locals, wrap_vars, shaper_locals, draw_vars>>
    BY <1>1 DEF all_vars
  <2>2. Plain(orig)' <=> Plain(orig)
    BY <2>1 DEF wrap_vars, Plain, Unshaped, Bmp
  <2>3. mirrored' = mirrored
    BY <2>1 DEF mirrored, frontier, in_span, rtl_locals, wrap_vars
  <2>4. WellPlaced(text, mirrored) => WellPlaced(text, mirrored)'
    BY <2>1, <2>3, PlacedPrime DEF wrap_vars
  <2>5. PassInv => PassInv'
    BY <2>1 DEF PassInv, NoneBefore, last_seen, in_span, rtl_locals, wrap_vars
  <2>6. (ShapeAhead => ShapeAhead') /\ (ShapeLate => ShapeLate')
    BY <2>1 DEF shaper_locals, ShapeAhead, Ahead, ShapeLate, LigatureEntry
  <2>7. (aligned(orig, asked))' = aligned(orig, asked)
    BY <2>1 DEF wrap_vars, draw_vars, aligned, starts_rtl
  <2>8. UNCHANGED <<in_ram, intact, shaper_pc, draw_pc, alignment, asked>>
    BY <2>1 DEF wrap_vars, shaper_locals, draw_vars
  <2> QED BY <2>2, <2>4, <2>5, <2>6, <2>7, <2>8 DEF AlignInv, Placed
<1>2. CASE DrawNext
  BY <1>2, ShaperStepsAlign, AlignmentAligns, LayoutAligns, RenderAligns, MeasureAligns
  DEF DrawNext
<1> QED BY <1>1, <1>2

\* The letters: rtl_apply moves runes that are none, and the shaper writes over
\* such runes only.
LEMMA MovesKeepLetters ==
  ASSUME DrawInv, Moves
  PROVE  LtrKept
<1>1. RtlInv
  BY DEF DrawInv
<1>2. PICK a \in line_start .. Len(orig) + 1, b \in 0 .. line_end :
        (\A i \in a .. b - 1 : ~LtrLetter(text[i])) /\ Rearranged(text', a, b)
  BY DEF Moves
<1>3. ASSUME NEW i \in 1 .. Len(orig), LtrLetter(text[i])
      PROVE  text'[i] = text[i]
  <2>1. i \notin a .. b - 1
    BY <1>2, <1>3
  <2>2. line_end \in Nat /\ line_start \in Nat
    BY <1>1, Shape DEF RtlInv, RtlType
  <2>3. ~(a <= i /\ i < b)
    BY <1>1, <2>1, <2>2, Shape
  <2> QED BY <1>2, <2>3 DEF Rearranged
<1> QED BY <1>3 DEF LtrKept

LEMMA DrawNext_Letters ==
  DrawInv /\ AlignInv /\ LettersSurvive /\ [DrawNext]_all_vars => LettersSurvive'
<1> SUFFICES ASSUME DrawInv, AlignInv, LettersSurvive, [DrawNext]_all_vars, Plain(orig)', intact'
             PROVE  \A i \in DOMAIN orig' : LtrLetter(orig'[i]) => text'[i] = orig'[i]
  BY DEF LettersSurvive
<1>1. orig' = orig /\ Plain(orig)
  <2>1. orig' = orig
    BY DEF DrawNext, DrawCall, DrawShapeStep, gdt_alignment_step, LayoutLine, RenderLine, DrawReturn,
           graphics_draw_text_unshape, LayoutReturn, DrawUnshapeStep, MeasureStep, measure_vars,
           wrap_vars, all_vars
  <2> QED BY <2>1 DEF Plain, Unshaped, Bmp
<1>2. SUFFICES intact /\ LtrKept
  <2>1. DOMAIN orig = 1 .. Len(orig)
    BY Shape DEF DrawInv
  <2> QED BY <1>1, <2>1 DEF LettersSurvive, LtrKept
<1>3. CASE text' = text /\ intact' = intact
  BY <1>3 DEF LtrKept
<1>4. CASE (\E a \in GTextAlignment : DrawCall(a)) \/ DrawShapeStep \/ DrawUnshapeStep
  <2>1. UNCHANGED <<rtl_locals, wrap_vars>>
    BY <1>4 DEF DrawCall, DrawShapeStep, DrawUnshapeStep
  <2>2. /\ \/ ShapeCall
           \/ shaper_pc = "shape" /\ ShapeIterate
           \/ shaper_pc = "unshape" /\ UnshapeIterate
        /\ rtl_pc = "idle" /\ wrap_pc = "idle"
    BY <1>4 DEF DrawInv, OneRoutine, DrawCall, DrawShapeStep, DrawUnshapeStep
  <2>3. rtl_pc' = "idle" /\ wrap_pc' = "idle"
    BY <2>1, <2>2 DEF rtl_locals, wrap_vars
  <2> QED BY <1>1, <2>2, <2>3, ShaperStepAligns
<1>5. CASE MeasureStep
  <2>1. /\ MeasureNext /\ UNCHANGED <<rtl_locals, wrap_vars>>
        /\ rtl_pc = "idle" /\ wrap_pc = "idle"
    BY <1>5 DEF MeasureStep, DrawInv, OneRoutine
  <2>2. rtl_pc' = "idle" /\ wrap_pc' = "idle"
    BY <2>1 DEF rtl_locals, wrap_vars
  <2>3. CASE PassthruAndKeep
    BY <1>3, <2>3 DEF PassthruAndKeep, shaper_locals
  <2>4. CASE ~PassthruAndKeep
    <3>1. \/ ShapeCall \/ UnshapeCall
          \/ shaper_pc = "shape" /\ ShapeIterate
          \/ shaper_pc = "unshape" /\ UnshapeIterate
      BY <2>1, <2>4 DEF MeasureNext, Measure, ShapeStep, PassthruAndUnshape, UnshapeStep, DrawInv,
             CallType
    <3> QED BY <1>1, <2>1, <2>2, <3>1, ShaperStepAligns
  <2> QED BY <2>3, <2>4
<1>6. CASE gdt_alignment_step \/ LayoutLine \/ DrawReturn \/ graphics_draw_text_unshape
           \/ UNCHANGED all_vars
  BY <1>3, <1>6 DEF gdt_alignment_step, LayoutLine, DrawReturn, graphics_draw_text_unshape,
         UnshapeCall, LayoutReturn, shaper_locals, all_vars
<1>7. CASE RenderLine
  <2>1. /\ intact' = intact
        /\ render_rtl_step \/ SkipStep \/ RtlStep \/ EndStep \/ RenderHandler
    BY <1>7 DEF RenderLine, shaper_locals
  <2>2. CASE render_rtl_step \/ SkipStep \/ RenderHandler
    BY <1>3, <2>1, <2>2 DEF render_rtl_step, RtlCall, SkipStep, RenderHandler
  <2>3. CASE RtlStep \/ EndStep
    <3>1. Moves
      BY <2>3, RtlIterateKeeps, ReturnKeeps DEF DrawInv, RtlStep, EndStep
    <3> QED BY <2>1, <3>1, MovesKeepLetters
  <2> QED BY <2>1, <2>2, <2>3
<1> QED BY <1>4, <1>5, <1>6, <1>7 DEF DrawNext

LEMMA AlignInvariance == DrawSpec => [](DrawInv /\ AlignInv)
<1>1. DrawInit => DrawInv /\ AlignInv
  BY DrawInit_Inv, DrawInit_Align
<1>2. DrawInv /\ AlignInv /\ [DrawNext]_all_vars => (DrawInv /\ AlignInv)'
  BY DrawNext_Inv, DrawNext_Align
<1> QED BY <1>1, <1>2, PTL DEF DrawSpec

\* Whatever an application draws and measures, and wherever rtl_apply has put
\* a ligature that expand_ligature then writes out: no left-to-right letter is
\* moved or overwritten, as long as no rune has been torn apart.
THEOREM LettersAlwaysSurvive == DrawSpec => []LettersSurvive
<1>1. DrawInit => LettersSurvive
  BY DEF DrawInit, MeasureInit, LettersSurvive
<1> QED BY <1>1, AlignInvariance, DrawNext_Letters, PTL DEF DrawSpec

\* Whatever an application has drawn and measured before, graphics_draw_text
\* aligns its text as the text it wrote demands, although gdt_alignment_step
\* looks at the shaped buffer; unless expand_ligature has torn a rune apart.
THEOREM AlignmentAlwaysStable == DrawSpec => []AlignmentStable
<1>1. DrawInv /\ AlignInv => AlignmentStable
  BY DEF AlignInv, AlignmentStable
<1> QED BY <1>1, AlignInvariance, PTL

=============================================================================
