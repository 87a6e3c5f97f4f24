----------------------------- MODULE RenderWrap -----------------------------
(***************************************************************************)
(* One line of text being rendered, any number of times.  The stub that    *)
(* patch.py injects at the firmware's call of the render handler           *)
(* (render_wrap_asm) runs render_rtl_step, then the handler, then          *)
(* render_rtl_step once more on the same line; render_rtl_step             *)
(* (runtime/patch.c) drops trailing spaces and calls rtl_apply.            *)
(***************************************************************************)
EXTENDS Rtl

CONSTANT
  Lines(_)  \* pairs <<line_start, line_end>> the layout may choose in a text

ASSUME LinesAssumption ==
  \A t \in Texts : Lines(t) \subseteq { l \in (1 .. Len(t) + 1) \X (1 .. Len(t) + 1) :
                                          l[1] <= l[2] }

VARIABLES
  wrap_pc,     \* where the stub stands; "rtl1" and "rtl2" are inside rtl_apply
  line_start,  \* *layout, the argument of both calls of render_rtl_step
  line_limit,  \* the line end the layout driver left on its stack
  in_ram,      \* line_start >= SRAM_BASE
  shown        \* history: the set of buffers a render handler has seen

wrap_vars == <<wrap_pc, line_start, line_limit, in_ram, orig, shown>>
vars == <<text, rtl_locals, wrap_vars>>

SPACE == \h20

\* while (line_end > line_start && *(line_end - 1) == ' ') line_end--;
trimmed(t, start, end) ==
  CHOOSE e \in start .. end :
    /\ e = start \/ t[e - 1] # SPACE
    /\ \A k \in e + 1 .. end : t[k - 1] = SPACE

Init ==
  /\ RtlInit
  /\ text \in Texts
  /\ orig = text
  /\ \E l \in Lines(text) : line_start = l[1] /\ line_limit = l[2]
  /\ in_ram \in BOOLEAN
  /\ wrap_pc = "idle"
  /\ shown = {}

\* The layout driver reaches the call of the render handler for this line.
Draw ==
  /\ wrap_pc = "idle"
  /\ wrap_pc' = "step1"
  /\ UNCHANGED <<text, rtl_locals, line_start, line_limit, in_ram, orig, shown>>

\* render_rtl_step: the guard, the trimming and the call of rtl_apply.
touches_line == in_ram /\ line_start \in DOMAIN text

render_rtl_step ==
  /\ wrap_pc \in {"step1", "step2"}
  /\ touches_line
  /\ RtlCall(line_start, trimmed(text, line_start, line_limit))
  /\ wrap_pc' = IF wrap_pc = "step1" THEN "rtl1" ELSE "rtl2"
  /\ UNCHANGED <<line_start, line_limit, in_ram, orig, shown>>

SkipStep ==
  /\ wrap_pc \in {"step1", "step2"}
  /\ ~touches_line
  /\ wrap_pc' = IF wrap_pc = "step1" THEN "handler" ELSE "idle"
  /\ UNCHANGED <<text, rtl_locals, line_start, line_limit, in_ram, orig, shown>>

RtlStep == RtlIterate /\ UNCHANGED wrap_vars

EndStep ==
  /\ RtlReturn
  /\ wrap_pc' = IF wrap_pc = "rtl1" THEN "handler" ELSE "idle"
  /\ UNCHANGED <<line_start, line_limit, in_ram, orig, shown>>

\* The firmware's render handler: it draws what the buffer holds.
RenderHandler ==
  /\ wrap_pc = "handler"
  /\ shown' = shown \cup {text}
  /\ wrap_pc' = "step2"
  /\ UNCHANGED <<text, rtl_locals, line_start, line_limit, in_ram, orig>>

Next == Draw \/ render_rtl_step \/ SkipStep \/ RtlStep \/ EndStep \/ RenderHandler

Spec == Init /\ [][Next]_vars

\* The stub is straight-line code on the thread that draws: once a draw has
\* begun its steps keep running.  Nothing makes an application draw again.
FairSpec == Spec /\ WF_vars(Next /\ wrap_pc # "idle")

-----------------------------------------------------------------------------
(* Vocabulary of the properties.                                           *)

StrongLtr(r) == ~is_rtl(codept(r)) /\ ~is_neutral(codept(r)) /\ ~is_weak_ltr(codept(r))
StrongRtl(r) == is_rtl(codept(r)) /\ ~is_neutral(codept(r))
Weak(r) == is_weak_ltr(codept(r))
Soft(r) == ~StrongLtr(r) /\ ~StrongRtl(r)

\* A left-to-right letter that the loop can tell from the end of the line:
\* read_utf8 turns U+10000, U+20000... into 0.
LtrLetter(r) == StrongLtr(r) /\ codept(r) # 0

\* The positions of the line without its trailing spaces.
line == line_start .. trimmed(orig, line_start, line_limit) - 1

\* What a buffer holds there.
LineOf(t) == SubSeq(t, line_start, trimmed(orig, line_start, line_limit) - 1)

\* Maximal runs <<a, b>> of positions of a line that hold runes of a class.
Runs(t, Class(_)) ==
  LET at == { i \in DOMAIN t : Class(t[i]) }
  IN  { r \in at \X at : /\ r[1] .. r[2] # {} /\ r[1] .. r[2] \subseteq at
                         /\ r[1] - 1 \notin at /\ r[2] + 1 \notin at }

\* Lines the two-pass scheme is sound for: after an RTL rune, neutrals and
\* numerals lead to another RTL rune and are not mixed at the edges, or are
\* one neutral before an LTR rune; and there are no control characters.
Clean(t) ==
  /\ \A i \in DOMAIN t : codept(t[i]) >= \h20
  /\ \A r \in Runs(t, Soft) :
       (r[1] - 1 \in DOMAIN t /\ StrongRtl(t[r[1] - 1])) =>
          /\ r[2] + 1 \in DOMAIN t
          /\ StrongRtl(t[r[2] + 1]) => \/ \A i \in r[1] .. r[2] : ~Weak(t[i])
                                       \/ Weak(t[r[1]]) /\ Weak(t[r[2]])
          /\ StrongLtr(t[r[2] + 1]) => r[1] = r[2] /\ ~Weak(t[r[1]])

\* Lines with diacritics, or with what is left of ligatures.
Visible(t) == SelectSeq(t, LAMBDA r : ~Mark(r))
Unmarked(t) == \A i \in DOMAIN t : ~Mark(t[i])
BeforeLetter(t, i) == i + 1 \in DOMAIN t /\ StrongRtl(t[i + 1])
AfterLetter(t, i) == i - 1 \in DOMAIN t /\ (StrongRtl(t[i - 1]) \/ Mark(t[i - 1]))

\* Each stretch from the first to the last RTL rune between LTR runes.
Spans(t) ==
  LET runs == Runs(t, LAMBDA x : ~StrongLtr(x))
      rtl == { i \in DOMAIN t : StrongRtl(t[i]) }
  IN  { s \in rtl \X rtl : \E r \in runs :
          r[1] <= s[1] /\ s[2] <= r[2] /\ (r[1] .. r[2]) \cap rtl \subseteq s[1] .. s[2] }

Held(runs, k) == \E r \in runs : k \in r[1] .. r[2]
Mirrored(runs, k) ==
  IF Held(runs, k) THEN LET r == CHOOSE r \in runs : k \in r[1] .. r[2]
                        IN  r[1] + r[2] - k
  ELSE k

\* The visual order of a clean line, stated on positions: the spans are
\* mirrored with their brackets, and the numerals in them mirrored back.
Visual(t) ==
  LET spans == Spans(t)
      numerals == { r \in Runs(t, Soft) : Weak(t[r[1]]) }
  IN  [k \in DOMAIN t |->
         IF Held(spans, k) THEN swapped(t[Mirrored(numerals, Mirrored(spans, k))])
                           ELSE t[k]]

-----------------------------------------------------------------------------
\* Every variable holds a value of its kind (all of rtl.c's pointers stay
\* within the buffer).
TypeOK ==
  /\ orig \in Texts
  /\ text \in [DOMAIN orig -> Nat]
  /\ rtl_pc \in {"idle", "loop", "exit"}
  /\ wrap_pc \in {"idle", "step1", "rtl1", "handler", "step2", "rtl2"}
  /\ wrap_pc \in {"rtl1", "rtl2"} <=> rtl_pc # "idle"
  /\ line_start \in 1 .. Len(orig) + 1 /\ line_limit \in line_start .. Len(orig) + 1
  /\ line_end \in 0 .. Len(orig) + 1
  /\ iter_ptr \in 0 .. Len(orig) + 1
  /\ next_codept_ptr \in 0 .. Len(orig)
  /\ rtl_span_start \in 0 .. Len(orig)
  /\ weak_ltr_span_start \in 0 .. Len(orig)
  /\ did_transform \in BOOLEAN
  /\ in_ram \in BOOLEAN

\* rtl_apply never moves a left-to-right letter, however often the line is
\* drawn and wherever a span or a run of numerals begins or ends around it.
LtrLettersStay ==
  \A i \in DOMAIN orig : LtrLetter(orig[i]) => text[i] = orig[i]

\* The reordering stays inside the line it was called for (render_rtl_step
\* gets its bounds from someone else's stack frame): the neighbouring lines
\* and the spaces trimmed off its end are never written.
OnlyTheLine == \A i \in DOMAIN orig \ line : text[i] = orig[i]

\* Neither text in flash (string literals) nor text without a right-to-left
\* rune is ever written to, not even for a moment.
TextUntouched ==
  (~in_ram \/ \A i \in DOMAIN orig : ~is_rtl(codept(orig[i]))) => text = orig

\* What the user sees of a line without marks does not depend on how often it
\* was drawn, although the second pass of the stub may not undo the first.  A
\* rune that reads as NUL ends the loop wherever the last draw has put it.
RedrawStable ==
  Unmarked(orig) /\ (\A i \in DOMAIN orig : codept(orig[i]) # 0) => \A s1, s2 \in shown : s1 = s2

\* Lines without a mark that the second pass would separate from its letter;
\* the letter may have gone to the next line.
MarksBeforeLetters(t) ==
  \A i \in DOMAIN t : Mark(t[i]) => BeforeLetter(t, i) \/ i = Len(t)
MarksBesideLetters(t) ==
  \A i \in DOMAIN t : Mark(t[i]) => BeforeLetter(t, i) \/ AfterLetter(t, i)

\* Running the RTL routine again after the handler gives the application its
\* text back, for the lines the scheme is sound for, ligatures included.
CleanLineRestored ==
  (/\ wrap_pc = "idle" /\ Clean(Visible(LineOf(orig)))
   /\ MarksBeforeLetters(LineOf(orig))) => text = orig

\* On such a line, with marks anywhere beside the letters they belong to, the
\* handler is given the visual order, on the first draw and on later ones.
CleanLineVisual ==
  (/\ wrap_pc = "handler" /\ in_ram /\ Clean(Visible(LineOf(orig)))
   /\ MarksBesideLetters(LineOf(orig)))
     => Visible(LineOf(text)) = Visual(Visible(LineOf(orig)))

\* Every draw comes to an end: rtl_apply's loop terminates on every line.
DrawCompletes == wrap_pc # "idle" ~> wrap_pc = "idle"

-----------------------------------------------------------------------------
(* What comments of the code say, and the code does not do: each of these  *)
(* is violated (see the README).                                           *)

\* runtime/rtl_ranges.h:8: a run of numerals "doesn't break an RTL span, but
\* is itself laid out LTR": it appears somewhere in reading order.
NumeralsLaidOutLtr ==
  wrap_pc = "handler" /\ shown = {} =>
    LET l == LineOf(orig)
        seen == LineOf(text)
    IN  \A r \in Runs(l, Weak) :
          \E at \in DOMAIN l :
            /\ at + r[2] - r[1] \in DOMAIN l
            /\ \A i \in r[1] .. r[2] : seen[at + i - r[1]] = l[i]

=============================================================================
