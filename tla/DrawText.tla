------------------------------ MODULE DrawText ------------------------------
(***************************************************************************)
(* The patched firmware as an application meets it: graphics_draw_text and *)
(* the content-size functions, called one after the other on one buffer.   *)
(* graphics_draw_text_patch (patch.S) shapes the buffer, corrects the      *)
(* alignment and jumps into the firmware, which lays the text out and      *)
(* renders line after line through the stub of RenderWrap; on return the   *)
(* stub patch.py injects unshapes the buffer, where the platform does so.  *)
(***************************************************************************)
EXTENDS RenderWrap, MeasureText

VARIABLES
  draw_pc,    \* "idle", "shape", "align", "layout", "unshape"
  asked,      \* the alignment the application passed
  alignment,  \* the alignment argument on the stack
  laid_out    \* the text before this position has been laid out

draw_vars == <<draw_pc, asked, alignment, laid_out>>
all_vars == <<text, rtl_locals, wrap_vars, shaper_locals, measure_vars, draw_vars>>

GTextAlignment == {"Left", "Center", "Right"}

Opinionated(rune) == ~is_neutral(codept(rune)) /\ ~is_weak_ltr(codept(rune))

\* The while loop of gdt_alignment_step: the first opinionated rune decides.
starts_rtl(t) ==
  \E i \in DOMAIN t : /\ Opinionated(t[i]) /\ is_rtl(codept(t[i]))
                      /\ \A j \in 1 .. i - 1 : ~Opinionated(t[j])

aligned(t, a) == IF a = "Left" /\ starts_rtl(t) THEN "Right" ELSE a

DrawInit ==
  /\ MeasureInit /\ RtlInit
  /\ wrap_pc = "idle" /\ shown = {}
  /\ line_start = 1 /\ line_limit = 1
  /\ in_ram = TRUE
  /\ draw_pc = "idle" /\ asked = "Left" /\ alignment = "Left" /\ laid_out = 1

-----------------------------------------------------------------------------
DrawCall(a) ==
  /\ draw_pc = "idle" /\ measure_pc = "idle"
  /\ ShapeCall
  /\ draw_pc' = "shape"
  /\ asked' = a /\ alignment' = a
  /\ UNCHANGED <<rtl_locals, wrap_vars, measure_vars, laid_out>>

DrawShapeStep ==
  /\ draw_pc = "shape"
  /\ ShapeIterate
  /\ draw_pc' = IF shaper_pc' = "idle" THEN "align" ELSE "shape"
  /\ UNCHANGED <<rtl_locals, wrap_vars, measure_vars, asked, alignment, laid_out>>

gdt_alignment_step ==
  /\ draw_pc = "align"
  /\ alignment' = aligned(text, alignment)
  /\ laid_out' = 1
  /\ draw_pc' = "layout"
  /\ UNCHANGED <<text, rtl_locals, wrap_vars, shaper_locals, measure_vars, asked>>

\* The firmware's layout driver finds the next line of the text, or the empty
\* one at its end, and reaches the call of the render handler.
LayoutLine ==
  /\ draw_pc = "layout" /\ wrap_pc = "idle"
  /\ \E l \in Lines(orig) :
       /\ laid_out <= l[1]
       /\ l[1] < l[2] \/ l[1] = Len(orig) + 1
       /\ line_start' = l[1] /\ line_limit' = l[2]
       /\ laid_out' = IF l[1] < l[2] THEN l[2] ELSE l[2] + 1
  /\ wrap_pc' = "step1"
  /\ UNCHANGED <<text, rtl_locals, in_ram, orig, shown, shaper_locals,
                 measure_vars, draw_pc, asked, alignment>>

RenderLine ==
  /\ draw_pc = "layout"
  /\ render_rtl_step \/ SkipStep \/ RtlStep \/ EndStep \/ RenderHandler
  /\ UNCHANGED <<shaper_locals, measure_vars, draw_vars>>

\* The end of graphics_draw_text: the box is full or the text is at its end.
\* The frames of the caller's arguments and of the layout driver are gone.
LayoutReturn ==
  /\ draw_pc = "layout" /\ wrap_pc = "idle"
  /\ line_start' = 1 /\ line_limit' = 1 /\ laid_out' = 1
  /\ shown' = {} /\ asked' = "Left" /\ alignment' = "Left"
  /\ UNCHANGED <<rtl_locals, wrap_pc, in_ram, orig, measure_vars>>

DrawReturn ==
  /\ LayoutReturn /\ ~TEXT_UNSHAPE
  /\ draw_pc' = "idle"
  /\ UNCHANGED <<text, shaper_locals>>

graphics_draw_text_unshape ==
  /\ LayoutReturn /\ TEXT_UNSHAPE
  /\ UnshapeCall
  /\ draw_pc' = "unshape"

DrawUnshapeStep ==
  /\ draw_pc = "unshape"
  /\ UnshapeIterate
  /\ draw_pc' = IF shaper_pc' = "idle" THEN "idle" ELSE "unshape"
  /\ UNCHANGED <<rtl_locals, wrap_vars, measure_vars, asked, alignment, laid_out>>

MeasureStep ==
  /\ draw_pc = "idle"
  /\ MeasureNext
  /\ UNCHANGED <<rtl_locals, wrap_vars, draw_vars>>

DrawNext ==
  \/ \E a \in GTextAlignment : DrawCall(a)
  \/ DrawShapeStep \/ gdt_alignment_step \/ LayoutLine \/ RenderLine
  \/ DrawReturn \/ graphics_draw_text_unshape \/ DrawUnshapeStep
  \/ MeasureStep

DrawSpec == DrawInit /\ [][DrawNext]_all_vars

idle == draw_pc = "idle" /\ measure_pc = "idle"

\* A call is straight-line code on the caller's thread; the layout driver
\* goes on to the end of the text or of the box.
DrawFairSpec == DrawSpec /\ WF_all_vars(DrawNext /\ ~idle)

-----------------------------------------------------------------------------
(* Vocabulary of the properties.                                           *)

Plain(t) == Unshaped(t) /\ Bmp(t)

\* The part of a text a line shows, without the trailing spaces.
Cut(t, l) == SubSeq(t, l[1], trimmed(t, l[1], l[2]) - 1)

\* What a line of a text should show: joined, then in visual order.
Shown(t, l) == Visual(Visible(Cut(Joined(t), l)))

\* Texts the scheme is sound for, however they are broken into lines.
Sound(t) ==
  /\ Plain(t) /\ AllJoin(t) /\ ~MarksEndWord(t)
  /\ \A l \in Lines(t) : l[1] < l[2] =>
       LET c == Cut(Joined(t), l)
       IN  Clean(Visible(c)) /\ MarksBeforeLetters(c)

\* The refinement mapping.  The second pass of the stub and the unshaper work
\* behind the back of the application: it looks at its buffer between calls,
\* and at the screen once the handler has returned.  A buffer in which a write
\* has torn a rune apart is no buffer of the painter.
painted ==
  IF wrap_pc = "step2" /\ line_start < line_limit
  THEN {[line |-> <<line_start, line_limit>>, seen |-> Visible(LineOf(text)),
         align |-> alignment]}
  ELSE {}

Painter == INSTANCE TextPainter WITH
  Contents <- Texts, Join <- Joined, LinesOf <- Lines, Shows <- Shown,
  Alignments <- GTextAlignment, Align <- aligned,
  content <- orig, keeps_joined <- ~TEXT_UNSHAPE,
  buffer <- IF idle /\ intact THEN {text} ELSE {},
  call <- IF draw_pc # "idle" THEN "draw" ELSE IF measure_pc # "idle" THEN "measure" ELSE "none",
  canvas <- painted

-----------------------------------------------------------------------------
\* Every variable holds a value of its kind, and only one of the routines
\* runs at a time.  (Of the buffer after a rune has been torn apart this says
\* nothing: see write_utf8.)
DrawTypeOK ==
  /\ TypeOK /\ MeasureTypeOK
  /\ draw_pc \in {"idle", "shape", "align", "layout", "unshape"}
  /\ draw_pc \in {"shape", "unshape"} => shaper_pc = draw_pc
  /\ wrap_pc # "idle" => draw_pc = "layout" /\ shaper_pc = "idle"
  /\ measure_pc # "idle" => draw_pc = "idle"
  /\ {asked, alignment} \subseteq GTextAlignment
  /\ laid_out \in 1 .. Len(orig) + 2

\* The alignment depends on the text the application wrote, although it is
\* decided on the shaped buffer and after draws that may have left the buffer
\* shaped or reordered.
AlignmentStable ==
  draw_pc = "layout" /\ Plain(orig) /\ intact => alignment = aligned(orig, asked)

\* No draw or measurement, in whatever order they come, moves or overwrites a
\* left-to-right letter.  expand_ligature writes over whatever two-byte rune
\* stands before a ligature: wherever rtl_apply has put the ligature, that is
\* not such a letter.
LettersSurvive ==
  Plain(orig) /\ intact => \A i \in DOMAIN orig : LtrLetter(orig[i]) => text[i] = orig[i]

\* On texts the scheme is sound for, drawing and measuring in any order keep
\* the promise of TextPainter: every line is shown joined and in visual order,
\* with the right alignment, and the application's text is given back.
ImplementsPainter == Painter!PainterSpec

\* Every call comes to an end, as long as the buffer is followed.
DrawsComplete == ~idle ~> idle \/ ~intact

-----------------------------------------------------------------------------
\* runtime/text_shaper.c:81: what expand_ligature writes out is "the original
\* pattern that produced this ligature", over the runes that stood for it: no
\* other rune is torn apart.  The code does not do this (see the README).
LigatureInPlace == Plain(orig) => intact

=============================================================================
