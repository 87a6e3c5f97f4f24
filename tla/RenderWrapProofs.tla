-------------------------- MODULE RenderWrapProofs --------------------------
(***************************************************************************)
(* For every set of texts and every choice of lines: where rtl_apply may   *)
(* write, what it never moves, and, on texts without marks, what two       *)
(* passes make of a line.  The invariant behind the first theorems ties    *)
(* rtl_apply's pointers to the line and says that an open span holds no    *)
(* left-to-right letter.  The second half states what one pass does, span  *)
(* by span: it leaves a settled line, two passes over a settled line give  *)
(* it back, and the lines the scheme is meant for are settled as written.  *)
(***************************************************************************)
EXTENDS RenderWrap, NaturalLemmas, TLAPS

(***************************************************************************)
(* What holds of rtl_apply for any buffer it is given.                     *)
(***************************************************************************)

\* The variables it uses.
RtlType ==
  /\ orig \in Seq(Nat) /\ text \in [1 .. Len(orig) -> Nat]
  /\ line_start \in 1 .. Len(orig) + 1 /\ line_limit \in line_start .. Len(orig) + 1
  /\ rtl_pc \in {"idle", "loop", "exit"}
  /\ line_end \in 0 .. Len(orig) + 1
  /\ iter_ptr \in 0 .. Len(orig) + 1
  /\ next_codept_ptr \in 0 .. Len(orig)
  /\ rtl_span_start \in 0 .. Len(orig)
  /\ weak_ltr_span_start \in 0 .. Len(orig)
  /\ did_transform \in BOOLEAN

\* Where its pointers stand while it runs.
Pointers ==
  /\ rtl_pc # "idle" =>
       /\ in_ram
       /\ line_start \in DOMAIN orig
       /\ line_end \in line_start .. line_limit
       /\ iter_ptr \in line_start + 1 .. Len(orig) + 1
       /\ in_span => rtl_span_start \in line_start .. iter_ptr - 1 /\ iter_ptr <= line_end
       /\ weak_ltr_span_start # NULL =>
            in_span /\ weak_ltr_span_start \in rtl_span_start .. iter_ptr - 1
  /\ rtl_pc = "loop" =>
       /\ next_codept_ptr = iter_ptr - 1
       /\ in_span => rtl_span_start < next_codept_ptr
       /\ weak_ltr_span_start # NULL => weak_ltr_span_start < next_codept_ptr

\* The runes of the open span that the loop has dealt with.
span_seen ==
  rtl_span_start .. (IF rtl_pc = "loop" THEN next_codept_ptr - 1 ELSE iter_ptr - 1)
SpanHoldsNoLetter ==
  rtl_pc # "idle" /\ in_span => \A i \in span_seen : ~LtrLetter(text[i])

RtlInv == RtlType /\ Pointers /\ SpanHoldsNoLetter

(***************************************************************************)
(* What holds of the buffer when only lines are rendered.                  *)
(***************************************************************************)

\* The second pass works on no more of the line than the first.
EndInLine == rtl_pc # "idle" => line_end <= trimmed(orig, line_start, line_limit)

\* Letters are where they were, and no other position holds one.
LettersFixed ==
  \A i \in DOMAIN orig : LtrLetter(orig[i]) \/ LtrLetter(text[i]) => text[i] = orig[i]

\* Without an RTL rune no span opens.
NoRtl == \A i \in DOMAIN orig : ~is_rtl(codept(orig[i]))
NoSpanWithoutRtl ==
  NoRtl => /\ text = orig
           /\ rtl_pc # "idle" => rtl_span_start = NULL /\ weak_ltr_span_start = NULL

FlashSafe == ~in_ram => text = orig

IInv == RtlInv /\ TypeOK /\ EndInLine /\ OnlyTheLine /\ LettersFixed /\ NoSpanWithoutRtl
        /\ FlashSafe /\ <<line_start, line_limit>> \in Lines(orig)

-----------------------------------------------------------------------------
(* Lemmas about the operators.                                             *)

\* render_rtl_step's trimming loop ends at the first position after which
\* the line holds only spaces.
TrimPoint(t, start, end, e) ==
  /\ e \in start .. end
  /\ e # start => t[e - 1] # SPACE
  /\ \A k \in e + 1 .. end : t[k - 1] = SPACE

LEMMA TrimmedSpec ==
  ASSUME NEW n \in Nat, NEW t \in [1 .. n -> Nat],
         NEW start \in 1 .. n + 1, NEW end \in start .. n + 1
  PROVE  TrimPoint(t, start, end, trimmed(t, start, end))
<1> DEFINE Blank(e) == \A k \in e + 1 .. end : t[k - 1] = SPACE
           S == { e \in start .. end : Blank(e) }
<1>1. S \subseteq Nat /\ end \in S
  OBVIOUS
<1>2. PICK m \in S : \A k \in S : m <= k
  BY <1>1, LeastNat
<1>3. m = start \/ t[m - 1] # SPACE
  <2>1. SUFFICES ASSUME m # start, t[m - 1] = SPACE PROVE FALSE
    OBVIOUS
  <2>2. m - 1 \in start .. end
    BY <2>1
  <2>3. \A k \in m .. end : t[k - 1] = SPACE
    BY <2>1
  <2>4. m - 1 \in S
    BY <2>2, <2>3
  <2>5. m <= m - 1
    BY ONLY <1>2, <2>4
  <2> QED BY <2>2, <2>5
<1>4. \E e \in start .. end : /\ e = start \/ t[e - 1] # SPACE
                              /\ \A k \in e + 1 .. end : t[k - 1] = SPACE
  BY <1>3
<1> QED BY <1>4 DEF trimmed, TrimPoint

\* reverse_span permutes the runes between its pointers and leaves the others.
LEMMA ReverseSpec ==
  ASSUME NEW n \in Nat, NEW t \in [1 .. n -> Nat],
         NEW start \in 1 .. n + 1, NEW end \in 0 .. n + 1
  PROVE  /\ reverse_span(t, start, end) \in [1 .. n -> Nat]
         /\ \A i \in 1 .. n :
              /\ ~(start <= i /\ i < end) => reverse_span(t, start, end)[i] = t[i]
              /\ start <= i /\ i < end =>
                   \E j \in start .. end - 1 : reverse_span(t, start, end)[i] = t[j]
<1>1. \A i \in 1 .. n : start <= i /\ i < end =>
        start + end - 1 - i \in start .. end - 1 /\ start + end - 1 - i \in 1 .. n
  OBVIOUS
<1> QED BY <1>1 DEF reverse_span

\* Exchanging the brackets of a pair does not make a letter of a neutral.
LEMMA SwappedSpec ==
  ASSUME NEW r \in Nat
  PROVE  /\ swapped(r) \in Nat
         /\ ~LtrLetter(r) => ~LtrLetter(swapped(r))
<1> DEFINE Brackets == {\h7B, \h7D, \h5B, \h5D, \h28, \h29, \h3C, \h3E}
<1>1. DOMAIN RTL_SWAPS = 1 .. 8 /\ \A i \in 1 .. 8 : RTL_SWAPS[i] \in Brackets
  BY DEF RTL_SWAPS
<1>2. \A i \in 1 .. 8 : (IF i % 2 = 1 THEN i + 1 ELSE i - 1) \in 1 .. 8
  OBVIOUS
<1>3. swapped(r) = r \/ swapped(r) \in Brackets
  BY <1>1, <1>2 DEF swapped
<1>4. \A b \in Brackets : b \in Nat /\ codept(b) = b /\ b \in NEUTRAL
  <2>1. \A b \in Brackets : b \in Nat /\ codept(b) = b
    BY DEF codept
  <2>2. \A b \in Brackets : b \in RANGE(\h26, \h30) \cup RANGE(\h3A, \h41)
                                   \cup RANGE(\h5B, \h61) \cup RANGE(\h7B, \hA2)
    BY DEF RANGE
  <2>3. /\ RANGE(\h26, \h30) \subseteq NEUTRAL /\ RANGE(\h3A, \h41) \subseteq NEUTRAL
        /\ RANGE(\h5B, \h61) \subseteq NEUTRAL /\ RANGE(\h7B, \hA2) \subseteq NEUTRAL
    BY DEF NEUTRAL
  <2> QED BY <2>1, <2>2, <2>3
<1> QED BY <1>3, <1>4 DEF LtrLetter, StrongLtr, is_neutral

-----------------------------------------------------------------------------
(* Lemmas about the states of the invariant.                               *)

\* What the invariant says of the buffer and the line.
LEMMA Shape ==
  ASSUME RtlInv
  PROVE  /\ Len(orig) \in Nat /\ DOMAIN orig = 1 .. Len(orig)
         /\ orig \in [1 .. Len(orig) -> Nat] /\ text \in [1 .. Len(orig) -> Nat]
         /\ line_start \in 1 .. Len(orig) + 1
         /\ line_limit \in line_start .. Len(orig) + 1
<1>1. orig \in Seq(Nat)
  BY DEF RtlInv, RtlType
<1> QED BY <1>1 DEF RtlInv, RtlType

\* The buffer u differs from text only between a and b, where neither holds a
\* left-to-right letter.
Rearranged(u, a, b) ==
  /\ u \in [1 .. Len(orig) -> Nat]
  /\ \A i \in 1 .. Len(orig) : ~(a <= i /\ i < b) => u[i] = text[i]
  /\ \A i \in a .. b - 1 : ~LtrLetter(u[i])

\* reverse_span within a stretch without letters is such a change, also on
\* top of another one.
LEMMA ReversedIsRearranged ==
  ASSUME RtlInv, NEW u, NEW a \in 1 .. Len(orig) + 1, NEW b \in 0 .. Len(orig) + 1,
         Rearranged(u, a, b),
         NEW start \in a .. Len(orig) + 1, NEW end \in 0 .. b
  PROVE  Rearranged(reverse_span(u, start, end), a, b)
<1> DEFINE v == reverse_span(u, start, end)
<1>0. u \in [1 .. Len(orig) -> Nat] /\ start \in 1 .. Len(orig) + 1 /\ end \in 0 .. Len(orig) + 1
  BY Shape DEF Rearranged
<1>1. /\ v \in [1 .. Len(orig) -> Nat]
      /\ \A i \in 1 .. Len(orig) :
              /\ ~(start <= i /\ i < end) => v[i] = u[i]
              /\ start <= i /\ i < end => \E j \in start .. end - 1 : v[i] = u[j]
  BY <1>0, ReverseSpec, Shape, Zenon
<1> HIDE DEF v
<1>2. \A i \in 1 .. Len(orig) : ~(a <= i /\ i < b) => v[i] = text[i]
  BY <1>1, Shape DEF Rearranged
<1>3. ASSUME NEW i \in a .. b - 1 PROVE ~LtrLetter(v[i])
  <2>1. i \in 1 .. Len(orig)
    BY Shape
  <2>2. CASE start <= i /\ i < end
    <3>1. PICK j \in start .. end - 1 : v[i] = u[j]
      BY <1>1, <2>1, <2>2
    <3>2. j \in a .. b - 1
      BY Shape
    <3> QED BY <3>1, <3>2 DEF Rearranged
  <2>3. CASE ~(start <= i /\ i < end)
    BY <1>1, <2>1, <2>3 DEF Rearranged
  <2> QED BY <2>2, <2>3
<1> QED BY <1>1, <1>2, <1>3 DEF Rearranged, v

\* The pointers at the top of the loop.
LEMMA LoopFacts ==
  ASSUME RtlInv, rtl_pc = "loop"
  PROVE  /\ this_codept_ptr \in line_start .. Len(orig)
         /\ iter_ptr = this_codept_ptr + 1
         /\ line_end \in line_start .. Len(orig) + 1
         /\ in_span => /\ rtl_span_start \in line_start .. this_codept_ptr - 1
                       /\ iter_ptr <= line_end
         /\ weak_ltr_span_start # NULL =>
              in_span /\ weak_ltr_span_start \in rtl_span_start .. this_codept_ptr - 1
         /\ weak_ltr_span_start \in Nat /\ rtl_span_start \in Nat
<1>1. Pointers /\ weak_ltr_span_start \in Nat /\ rtl_span_start \in Nat
  BY Shape DEF RtlInv, RtlType
<1> QED BY <1>1, Shape, SMTT(30) DEF Pointers, this_codept_ptr

\* What the pre-reversal of a run of numerals does, if it happens.
LEMMA AfterWeak ==
  ASSUME RtlInv, rtl_pc = "loop"
  PROVE  /\ in_span => Rearranged(text_after_weak, rtl_span_start, this_codept_ptr)
         /\ ~in_span => text_after_weak = text
         /\ text_after_weak \in [1 .. Len(orig) -> Nat]
         /\ \A i \in 1 .. Len(orig) : i >= this_codept_ptr => text_after_weak[i] = text[i]
         /\ weak_after # NULL =>
              in_span /\ weak_after \in rtl_span_start .. this_codept_ptr
         /\ weak_after \in Nat
<1>1. CASE ~in_span
  BY <1>1, LoopFacts, Shape DEF text_after_weak, ends_weak_span, weak_after, weak_in_span
<1>2. CASE in_span
  <2>1. Rearranged(text, rtl_span_start, this_codept_ptr)
    <3>1. \A i \in rtl_span_start .. this_codept_ptr - 1 : ~LtrLetter(text[i])
      BY <1>2, LoopFacts DEF RtlInv, SpanHoldsNoLetter, span_seen, this_codept_ptr
    <3> QED BY <3>1, Shape DEF Rearranged
  <2>2. ends_weak_span =>
          Rearranged(reverse_span(text, weak_ltr_span_start, this_codept_ptr),
                     rtl_span_start, this_codept_ptr)
    <3>1. SUFFICES ASSUME ends_weak_span
                   PROVE  Rearranged(reverse_span(text, weak_ltr_span_start, this_codept_ptr),
                                     rtl_span_start, this_codept_ptr)
      OBVIOUS
    <3>2. /\ rtl_span_start \in 1 .. Len(orig) + 1
          /\ this_codept_ptr \in 0 .. Len(orig) + 1
          /\ weak_ltr_span_start \in rtl_span_start .. Len(orig) + 1
          /\ this_codept_ptr \in 0 .. this_codept_ptr
      BY <1>2, <3>1, LoopFacts, Shape DEF ends_weak_span
    <3> QED BY <2>1, <3>2, ReversedIsRearranged
  <2>3. Rearranged(text_after_weak, rtl_span_start, this_codept_ptr)
    BY <2>1, <2>2 DEF text_after_weak
  <2>4. \A i \in 1 .. Len(orig) : i >= this_codept_ptr => text_after_weak[i] = text[i]
    BY <2>3, LoopFacts, Shape DEF Rearranged
  <2>5. weak_after \in Nat /\ (weak_after # NULL => weak_after \in rtl_span_start .. this_codept_ptr)
    BY <1>2, LoopFacts, Shape DEF weak_after, weak_in_span, NULL
  <2> QED BY <1>2, <2>3, <2>4, <2>5 DEF Rearranged
<1> QED BY <1>1, <1>2

LEMMA LongerStretch ==
  \A i, j, k \in Nat : j <= k - 1 => \A w \in i .. j : w \in i .. k - 1
OBVIOUS

\* The pointers after an iteration that leaves the span at s, the run of
\* numerals at w.
LEMMA Advance ==
  ASSUME RtlInv, ReadAhead, UNCHANGED wrap_vars,
         rtl_span_start' \in Nat, weak_ltr_span_start' \in Nat,
         rtl_span_start' # NULL => /\ rtl_span_start' \in line_start .. this_codept_ptr
                                   /\ more \/ iter_ptr <= line_end,
         weak_ltr_span_start' # NULL =>
           /\ rtl_span_start' # NULL
           /\ weak_ltr_span_start' \in rtl_span_start' .. this_codept_ptr,
         rtl_pc' = "loop" => more
  PROVE  /\ Pointers'
         /\ iter_ptr' \in 0 .. Len(orig) + 1 /\ next_codept_ptr' \in 0 .. Len(orig)
         /\ rtl_span_start' \in 0 .. Len(orig) /\ weak_ltr_span_start' \in 0 .. Len(orig)
<1>1. /\ rtl_pc = "loop" /\ line_end' = line_end
      /\ iter_ptr' = IF more THEN iter_ptr + 1 ELSE iter_ptr
      /\ next_codept_ptr' = IF more THEN iter_ptr ELSE NULL
      /\ orig' = orig /\ line_start' = line_start /\ line_limit' = line_limit
      /\ in_ram' = in_ram
  BY DEF ReadAhead, wrap_vars
<1>2. in_ram
  BY <1>1 DEF RtlInv, Pointers
<1>3. more => iter_ptr < line_end /\ iter_ptr \in 1 .. Len(orig)
  BY Shape DEF more, RtlInv, RtlType
<1>a. /\ line_start \in 1 .. Len(orig) + 1 /\ Len(orig) \in Nat /\ line_end \in Nat
      /\ this_codept_ptr \in line_start .. Len(orig) /\ iter_ptr = this_codept_ptr + 1
  BY <1>1, LoopFacts, Shape
<1>4. /\ iter_ptr' \in line_start + 1 .. Len(orig) + 1
      /\ next_codept_ptr' \in 0 .. Len(orig)
      /\ rtl_span_start' \in 0 .. Len(orig) /\ weak_ltr_span_start' \in 0 .. Len(orig)
  <2>1. iter_ptr' \in line_start + 1 .. Len(orig) + 1 /\ next_codept_ptr' \in 0 .. Len(orig)
    <3>1. CASE more
      BY <3>1, <1>1, <1>3, <1>a
    <3>2. CASE ~more
      BY <3>2, <1>1, <1>a DEF NULL
    <3> QED BY <3>1, <3>2
  <2>2. this_codept_ptr \in 0 .. Len(orig)
    BY <1>1, LoopFacts, Shape
  <2>3. rtl_span_start' \in 0 .. Len(orig)
    BY <2>2, Shape DEF NULL
  <2>4. weak_ltr_span_start' \in 0 .. Len(orig)
    BY <2>2, <2>3, Shape DEF NULL
  <2> QED BY <2>1, <2>3, <2>4
<1>5. rtl_span_start' # NULL =>
        rtl_span_start' \in line_start .. iter_ptr' - 1 /\ iter_ptr' <= line_end
  <2>1. CASE more
    BY <2>1, <1>1, <1>3, <1>a
  <2>2. CASE ~more
    BY <2>2, <1>1, <1>a
  <2> QED BY <2>1, <2>2
<1>6. weak_ltr_span_start' # NULL =>
        rtl_span_start' # NULL /\ weak_ltr_span_start' \in rtl_span_start' .. iter_ptr' - 1
  <2>1. iter_ptr' \in Nat /\ this_codept_ptr \in Nat /\ this_codept_ptr <= iter_ptr' - 1
    BY <1>1, <1>3, <1>a
  <2> QED BY <2>1, LongerStretch, ZenonT(30)
<1>7. rtl_pc' = "loop" => /\ next_codept_ptr' = iter_ptr' - 1
                          /\ rtl_span_start' # NULL => rtl_span_start' < next_codept_ptr'
                          /\ weak_ltr_span_start' # NULL => weak_ltr_span_start' < next_codept_ptr'
  BY <1>1, <1>3, <1>a, <1>5, <1>6
<1>8. line_start \in DOMAIN orig
  BY LoopFacts, <1>1, Shape
<1>9. line_end \in line_start .. line_limit
  BY <1>1 DEF RtlInv, Pointers
<1>10. Pointers'
  BY <1>1, <1>2, <1>4, <1>5, <1>6, <1>7, <1>8, <1>9 DEF Pointers, in_span
<1> QED BY <1>4, <1>10, Shape

\* No letter enters the span when none of its runes up to this one is one.
LEMMA SpanStaysClear ==
  ASSUME RtlInv, ReadAhead, UNCHANGED wrap_vars,
         rtl_span_start' # NULL =>
           /\ rtl_span_start' \in line_start .. this_codept_ptr
           /\ \A i \in rtl_span_start' .. this_codept_ptr : ~LtrLetter(text'[i]),
         \A i \in 1 .. Len(orig) : i > this_codept_ptr => text'[i] = text[i]
  PROVE  SpanHoldsNoLetter'
<1>1. /\ rtl_pc = "loop"
      /\ iter_ptr' = IF more THEN iter_ptr + 1 ELSE iter_ptr
      /\ next_codept_ptr' = IF more THEN iter_ptr ELSE NULL
      /\ rtl_pc' = IF next_codept # 0 THEN "loop" ELSE "exit"
  BY DEF ReadAhead
<1>2. SUFFICES ASSUME rtl_span_start' # NULL, NEW i \in span_seen'
               PROVE  ~LtrLetter(text'[i])
  BY DEF SpanHoldsNoLetter, in_span
<1>3. i \in rtl_span_start' .. this_codept_ptr \/ (more /\ next_codept = 0 /\ i = iter_ptr)
  <2>1. iter_ptr = this_codept_ptr + 1 /\ this_codept_ptr \in Nat
    BY <1>1, LoopFacts, Shape
  <2> QED BY <1>1, <1>2, <2>1, SMTT(30) DEF span_seen, more, next_codept
<1>4. CASE more /\ next_codept = 0 /\ i = iter_ptr
  <2>1. iter_ptr \in 1 .. Len(orig) /\ iter_ptr > this_codept_ptr /\ codept(text[iter_ptr]) = 0
    BY <1>1, <1>4, LoopFacts, Shape DEF more, next_codept
  <2> QED BY <1>4, <2>1 DEF LtrLetter
<1> QED BY <1>2, <1>3, <1>4

\* What a step of rtl_apply does to the buffer: at most a stretch of the line
\* without letters is rearranged.
Moves ==
  \E a \in line_start .. Len(orig) + 1, b \in 0 .. line_end :
    (\A i \in a .. b - 1 : ~LtrLetter(text[i])) /\ Rearranged(text', a, b)

\* An iteration that changes the buffer from a to this rune, and not where it
\* meets a letter, keeps the invariant.
LEMMA IterateKeeps ==
  ASSUME RtlInv, ReadAhead, UNCHANGED wrap_vars, did_transform' \in BOOLEAN,
         NEW a \in line_start .. Len(orig) + 1,
         NEW b \in 0 .. line_end,
         b <= this_codept_ptr + 1,
         \A i \in a .. b - 1 : ~LtrLetter(text[i]),
         Rearranged(text', a, b),
         rtl_span_start' \in Nat, weak_ltr_span_start' \in Nat,
         rtl_span_start' # NULL =>
           /\ rtl_span_start' \in line_start .. this_codept_ptr
           /\ more \/ iter_ptr <= line_end
           /\ \A i \in rtl_span_start' .. this_codept_ptr : ~LtrLetter(text'[i]),
         weak_ltr_span_start' # NULL =>
           /\ rtl_span_start' # NULL
           /\ weak_ltr_span_start' \in rtl_span_start' .. this_codept_ptr
  PROVE  RtlInv' /\ Moves
<1>1. rtl_pc = "loop" /\ (rtl_pc' = "loop" => more)
  BY DEF ReadAhead, next_codept
<1>2. /\ Pointers'
      /\ iter_ptr' \in 0 .. Len(orig) + 1 /\ next_codept_ptr' \in 0 .. Len(orig)
      /\ rtl_span_start' \in 0 .. Len(orig) /\ weak_ltr_span_start' \in 0 .. Len(orig)
  BY <1>1, Advance
<1>3. text' \in [1 .. Len(orig) -> Nat]
  BY DEF Rearranged
<1>4. RtlType'
  <2>1. /\ orig' = orig /\ line_start' = line_start /\ line_limit' = line_limit
        /\ line_end' = line_end /\ rtl_pc' \in {"loop", "exit"}
    BY DEF ReadAhead, wrap_vars
  <2>2. RtlType
    BY DEF RtlInv
  <2> QED BY <1>2, <1>3, <2>1, <2>2, SMTT(30) DEF RtlType
<1>5. \A i \in 1 .. Len(orig) : i > this_codept_ptr => text'[i] = text[i]
  <2>1. this_codept_ptr \in Nat /\ b \in Int
    BY <1>1, LoopFacts, Shape
  <2>2. \A i \in 1 .. Len(orig) : ~(a <= i /\ i < b) => text'[i] = text[i]
    BY DEF Rearranged
  <2> QED BY <2>1, <2>2
<1>6. SpanHoldsNoLetter'
  BY <1>5, SpanStaysClear
<1>7. Moves
  BY DEF Moves
<1> QED BY <1>2, <1>4, <1>6, <1>7 DEF RtlInv

-----------------------------------------------------------------------------
(* One lemma per action of rtl_apply.                                      *)

LEMMA OpenSpanKeeps ==
  ASSUME RtlInv, OpenSpan, UNCHANGED wrap_vars
  PROVE  RtlInv' /\ Moves
<1>1. /\ ReadAhead /\ rtl_pc = "loop" /\ more /\ ~in_span /\ is_rtl(this_codept)
      /\ text' = text /\ did_transform' = did_transform
      /\ rtl_span_start' = this_codept_ptr /\ weak_ltr_span_start' = weak_after
  BY DEF OpenSpan, ReadAhead, opens, next_codept
<1>2. weak_after = NULL
  BY <1>1, AfterWeak
<1>3. this_codept_ptr \in line_start .. Len(orig)
  BY <1>1, LoopFacts
<1>4. ~LtrLetter(text[this_codept_ptr])
  BY <1>1 DEF LtrLetter, StrongLtr, this_codept
<1>5. Rearranged(text', line_start, 0)
  BY <1>1, Shape DEF Rearranged
<1>8. did_transform' \in BOOLEAN
  BY <1>1 DEF RtlInv, RtlType
<1>9. 0 \in 0 .. line_end /\ 0 <= this_codept_ptr + 1
  BY <1>1, LoopFacts, Shape
<1>10. /\ rtl_span_start' \in line_start .. this_codept_ptr /\ rtl_span_start' \in Nat
       /\ weak_ltr_span_start' \in Nat
       /\ \A i \in rtl_span_start' .. this_codept_ptr : ~LtrLetter(text'[i])
  BY <1>1, <1>2, <1>3, <1>4, Shape DEF NULL
<1>11. line_start \in line_start .. Len(orig) + 1 /\ line_start .. 0 - 1 = {}
  BY Shape
<1> QED BY <1>1, <1>2, <1>5, <1>8, <1>9, <1>10, <1>11, IterateKeeps

LEMMA ContinueSpanKeeps ==
  ASSUME RtlInv, ContinueSpan, UNCHANGED wrap_vars
  PROVE  RtlInv' /\ Moves
<1>1. /\ ReadAhead /\ rtl_pc = "loop" /\ in_span /\ neutral
      /\ text' = apply_swaps(text_after_weak, this_codept_ptr)
      /\ did_transform' = did_transform
      /\ rtl_span_start' = rtl_span_start /\ weak_ltr_span_start' = weak_after
  BY DEF ContinueSpan, ReadAhead, continues
<1> DEFINE this == this_codept_ptr
<1>2. /\ this \in line_start .. Len(orig) /\ rtl_span_start \in line_start .. this - 1
      /\ this + 1 <= line_end /\ line_end \in Nat
  BY <1>1, LoopFacts, Shape
<1>3. ~LtrLetter(text[this])
  BY <1>1 DEF neutral, weak_in_span, LtrLetter, StrongLtr, this_codept
<1>4. Rearranged(text_after_weak, rtl_span_start, this) /\ text_after_weak[this] = text[this]
  BY <1>1, <1>2, AfterWeak, Shape
<1>5. Rearranged(text', rtl_span_start, this + 1)
  <2>1. text'[this] = swapped(text[this]) /\ swapped(text[this]) \in Nat
        /\ ~LtrLetter(swapped(text[this]))
    <3>1. this \in 1 .. Len(orig) /\ text[this] \in Nat
      BY <1>2, Shape
    <3>2. swapped(text[this]) \in Nat /\ ~LtrLetter(swapped(text[this]))
      BY <1>3, <3>1, SwappedSpec
    <3>3. text'[this] = swapped(text[this])
      BY <1>1, <1>4, <3>1 DEF apply_swaps, Rearranged
    <3> QED BY <3>2, <3>3
  <2>2. \A i \in 1 .. Len(orig) : i # this => text'[i] = text_after_weak[i]
    BY <1>1, <1>4 DEF apply_swaps, Rearranged
  <2>3. text' \in [1 .. Len(orig) -> Nat]
    BY <1>1, <1>4, <2>1 DEF apply_swaps, Rearranged
  <2> HIDE DEF this
  <2>4. \A i \in 1 .. Len(orig) : ~(rtl_span_start <= i /\ i < this + 1) => text'[i] = text[i]
    BY <1>2, <1>4, <2>2, Shape DEF Rearranged
  <2>5. \A i \in rtl_span_start .. this : ~LtrLetter(text'[i])
    <3>1. \A i \in rtl_span_start .. this - 1 :
            ~LtrLetter(text_after_weak[i]) /\ i # this /\ i \in 1 .. Len(orig)
      BY <1>2, <1>4, Shape DEF Rearranged
    <3>2. \A i \in rtl_span_start .. this : i \in rtl_span_start .. this - 1 \/ i = this
      BY <1>2, Shape
    <3>3. ASSUME NEW i \in rtl_span_start .. this - 1 PROVE ~LtrLetter(text'[i])
      BY <2>2, <3>1
    <3> QED BY <2>1, <3>2, <3>3
  <2>6. (this + 1) - 1 = this
    BY <1>2, Shape
  <2> QED BY <2>3, <2>4, <2>5, <2>6 DEF Rearranged
<1>6. \A i \in rtl_span_start .. this : ~LtrLetter(text[i])
  BY <1>1, <1>2, <1>3, Shape DEF RtlInv, SpanHoldsNoLetter, span_seen, this_codept_ptr
<1>8. did_transform' \in BOOLEAN
  BY <1>1 DEF RtlInv, RtlType
<1>9. /\ rtl_span_start' \in Nat /\ weak_ltr_span_start' \in Nat /\ iter_ptr <= line_end
      /\ weak_ltr_span_start' # NULL => weak_ltr_span_start' \in rtl_span_start .. this
  BY <1>1, LoopFacts, AfterWeak, Shape
<1>10. /\ rtl_span_start \in line_start .. Len(orig) + 1
       /\ this + 1 \in 0 .. line_end
       /\ rtl_span_start \in line_start .. this /\ (this + 1) - 1 = this
  BY <1>2, Shape
<1>11. \A i \in rtl_span_start' .. this : ~LtrLetter(text'[i])
  BY <1>1, <1>5, <1>10 DEF Rearranged
<1>12. this + 1 <= this + 1
  BY <1>2, Shape
<1>13. rtl_span_start' # NULL
  BY <1>1 DEF in_span
<1> HIDE DEF this
<1> QED BY <1>1, <1>5, <1>6, <1>8, <1>9, <1>10, <1>11, <1>12, <1>13, IterateKeeps DEF this

LEMMA CloseSpanKeeps ==
  ASSUME RtlInv, CloseSpan, UNCHANGED wrap_vars
  PROVE  RtlInv' /\ Moves
<1>1. /\ ReadAhead /\ rtl_pc = "loop" /\ in_span
      /\ text' = reverse_span(text_after_weak, rtl_span_start, this_codept_ptr)
      /\ did_transform' = TRUE
      /\ rtl_span_start' = NULL /\ weak_ltr_span_start' = NULL
  BY DEF CloseSpan, ReadAhead, closes
<1> DEFINE this == this_codept_ptr
<1>2. /\ this \in line_start .. Len(orig) /\ rtl_span_start \in line_start .. this - 1
      /\ this + 1 <= line_end /\ line_end \in Nat
  BY <1>1, LoopFacts, Shape
<1>3. Rearranged(text_after_weak, rtl_span_start, this)
  BY <1>1, AfterWeak
<1>4. /\ rtl_span_start \in 1 .. Len(orig) + 1 /\ this \in 0 .. Len(orig) + 1
      /\ rtl_span_start \in rtl_span_start .. Len(orig) + 1 /\ this \in 0 .. this
      /\ rtl_span_start \in line_start .. Len(orig) + 1
      /\ this \in 0 .. line_end /\ this <= this + 1
  BY <1>2, Shape
<1>5. Rearranged(text', rtl_span_start, this)
  BY <1>1, <1>3, <1>4, ReversedIsRearranged
<1>6. \A i \in rtl_span_start .. this - 1 : ~LtrLetter(text[i])
  BY <1>1 DEF RtlInv, SpanHoldsNoLetter, span_seen, this_codept_ptr
<1>8. did_transform' \in BOOLEAN /\ rtl_span_start' \in Nat /\ weak_ltr_span_start' \in Nat
  BY <1>1 DEF NULL
<1> QED BY <1>1, <1>4, <1>5, <1>6, <1>8, IterateKeeps

LEMMA PassOverKeeps ==
  ASSUME RtlInv, PassOver, UNCHANGED wrap_vars
  PROVE  RtlInv' /\ Moves
<1>1. /\ ReadAhead /\ rtl_pc = "loop" /\ (in_span => is_rtl(this_codept))
      /\ text' = text_after_weak /\ did_transform' = did_transform
      /\ rtl_span_start' = rtl_span_start /\ weak_ltr_span_start' = weak_after
  BY DEF PassOver, ReadAhead, closes
<1>2. did_transform' \in BOOLEAN /\ rtl_span_start' \in Nat /\ weak_ltr_span_start' \in Nat
  BY <1>1, LoopFacts, AfterWeak DEF RtlInv, RtlType
<1> DEFINE this == this_codept_ptr
<1>3. this \in line_start .. Len(orig)
  BY <1>1, LoopFacts
<1>5. CASE ~in_span
  <2>1. text' = text /\ rtl_span_start' = NULL /\ weak_ltr_span_start' = NULL
    BY <1>1, <1>5, AfterWeak DEF in_span
  <2>2. Rearranged(text', line_start, 0)
    BY <2>1, Shape DEF Rearranged
  <2>3. /\ line_start \in line_start .. Len(orig) + 1 /\ line_start .. 0 - 1 = {}
        /\ 0 \in 0 .. line_end /\ 0 <= this + 1
    BY <1>1, <1>3, LoopFacts, Shape
  <2> QED BY <1>1, <1>2, <2>1, <2>2, <2>3, IterateKeeps
<1>6. CASE in_span
  <2>1. /\ rtl_span_start \in line_start .. this - 1 /\ iter_ptr <= line_end
        /\ this + 1 <= line_end /\ line_end \in Nat
    BY <1>1, <1>6, LoopFacts, Shape
  <2>2. Rearranged(text', rtl_span_start, this) /\ text'[this] = text[this]
    BY <1>1, <1>3, <1>6, AfterWeak, Shape
  <2>3. ~LtrLetter(text[this])
    BY <1>1, <1>6 DEF LtrLetter, StrongLtr, this_codept
  <2>4. \A i \in rtl_span_start .. this - 1 : ~LtrLetter(text[i])
    BY <1>1, <1>6 DEF RtlInv, SpanHoldsNoLetter, span_seen, this_codept_ptr
  <2>5. \A i \in rtl_span_start' .. this : ~LtrLetter(text'[i])
    BY <1>1, <1>3, <2>1, <2>2, <2>3, Shape DEF Rearranged
  <2>6. /\ rtl_span_start \in line_start .. Len(orig) + 1
        /\ rtl_span_start' \in line_start .. this
        /\ this \in 0 .. line_end /\ this <= this + 1
    BY <1>1, <1>3, <2>1, Shape
  <2>7. /\ rtl_span_start' # NULL
        /\ weak_ltr_span_start' # NULL => weak_ltr_span_start' \in rtl_span_start' .. this
    BY <1>1, <1>6, AfterWeak DEF in_span
  <2> QED BY <1>1, <1>2, <2>1, <2>2, <2>4, <2>5, <2>6, <2>7, IterateKeeps
<1> QED BY <1>5, <1>6

\* The reversals after the loop.
LEMMA ReturnKeeps ==
  ASSUME RtlInv, RtlReturn, UNCHANGED <<line_start, line_limit, in_ram, orig>>
  PROVE  RtlInv' /\ Moves /\ (~in_span => text' = text)
<1>1. /\ rtl_pc = "exit" /\ rtl_pc' = "idle"
      /\ did_transform' = (did_transform \/ in_span)
      /\ line_end' = line_end /\ iter_ptr' = iter_ptr /\ next_codept_ptr' = next_codept_ptr
      /\ rtl_span_start' = rtl_span_start /\ weak_ltr_span_start' = weak_ltr_span_start
      /\ orig' = orig /\ line_start' = line_start /\ line_limit' = line_limit
      /\ in_ram' = in_ram
  BY DEF RtlReturn
<1> DEFINE w == IF weak_ltr_span_start # NULL
                THEN reverse_span(text, weak_ltr_span_start, iter_ptr) ELSE text
<1>2. text' = IF in_span THEN reverse_span(w, rtl_span_start, iter_ptr) ELSE w
  BY DEF RtlReturn
<1>3. /\ iter_ptr \in line_start + 1 .. Len(orig) + 1
      /\ line_end \in line_start .. line_limit
      /\ in_span => rtl_span_start \in line_start .. iter_ptr - 1 /\ iter_ptr <= line_end
      /\ weak_ltr_span_start # NULL =>
           in_span /\ weak_ltr_span_start \in rtl_span_start .. iter_ptr - 1
  BY <1>1 DEF RtlInv, Pointers
<1>4. in_span => Rearranged(text', rtl_span_start, iter_ptr)
  <2>1. SUFFICES ASSUME in_span PROVE Rearranged(text', rtl_span_start, iter_ptr)
    OBVIOUS
  <2>2. /\ rtl_span_start \in 1 .. Len(orig) + 1 /\ iter_ptr \in 0 .. Len(orig) + 1
        /\ rtl_span_start \in rtl_span_start .. Len(orig) + 1 /\ iter_ptr \in 0 .. iter_ptr
        /\ weak_ltr_span_start # NULL => weak_ltr_span_start \in rtl_span_start .. Len(orig) + 1
    BY <1>3, <2>1, Shape
  <2>3. Rearranged(text, rtl_span_start, iter_ptr)
    BY <1>1, <2>1, Shape DEF RtlInv, SpanHoldsNoLetter, span_seen, Rearranged
  <2>4. Rearranged(w, rtl_span_start, iter_ptr)
    BY <2>2, <2>3, ReversedIsRearranged
  <2> HIDE DEF w
  <2>5. Rearranged(reverse_span(w, rtl_span_start, iter_ptr), rtl_span_start, iter_ptr)
    BY <2>2, <2>4, ReversedIsRearranged
  <2> QED BY <1>2, <2>1, <2>5
<1>5. ~in_span => text' = text
  BY <1>2, <1>3
<1>6. Moves
  <2>1. CASE in_span
    <3>1. rtl_span_start \in line_start .. Len(orig) + 1 /\ iter_ptr \in 0 .. line_end
      BY <1>3, <2>1, Shape
    <3>2. \A i \in rtl_span_start .. iter_ptr - 1 : ~LtrLetter(text[i])
      BY <1>1, <2>1 DEF RtlInv, SpanHoldsNoLetter, span_seen
    <3> QED BY <1>4, <2>1, <3>1, <3>2 DEF Moves
  <2>2. CASE ~in_span
    <3>1. Rearranged(text', line_start, 0)
      BY <1>5, <2>2, Shape DEF Rearranged
    <3>2. /\ line_start \in line_start .. Len(orig) + 1 /\ line_start .. 0 - 1 = {}
          /\ 0 \in 0 .. line_end
      BY <1>3, Shape
    <3> QED BY <3>1, <3>2 DEF Moves
  <2> QED BY <2>1, <2>2
<1> HIDE DEF w
<1>7. text' \in [1 .. Len(orig) -> Nat]
  BY <1>6 DEF Moves, Rearranged
<1>8. did_transform' \in BOOLEAN
  BY <1>1, Zenon DEF RtlInv, RtlType
<1>9. RtlType' /\ Pointers' /\ SpanHoldsNoLetter'
  BY <1>1, <1>7, <1>8 DEF RtlInv, RtlType, Pointers, SpanHoldsNoLetter
<1> QED BY <1>5, <1>6, <1>9 DEF RtlInv

\* An iteration of the loop.
LEMMA RtlIterateKeeps ==
  ASSUME RtlInv, RtlIterate, UNCHANGED wrap_vars
  PROVE  RtlInv' /\ Moves
BY OpenSpanKeeps, ContinueSpanKeeps, CloseSpanKeeps, PassOverKeeps DEF RtlIterate

\* As long as the loop meets no RTL rune it changes nothing.
LEMMA QuietStep ==
  ASSUME RtlInv, RtlIterate, ~in_span, weak_ltr_span_start = NULL, ~is_rtl(this_codept)
  PROVE  text' = text /\ rtl_span_start' = NULL /\ weak_ltr_span_start' = NULL
<1>1. rtl_pc = "loop"
  BY DEF RtlIterate, OpenSpan, ContinueSpan, CloseSpan, PassOver, ReadAhead
<1>2. PassOver
  BY DEF RtlIterate, OpenSpan, ContinueSpan, CloseSpan, opens, continues, closes
<1>3. text_after_weak = text /\ weak_after = NULL
  BY <1>1, AfterWeak
<1> QED BY <1>2, <1>3 DEF PassOver, in_span

\* The call of rtl_apply.
LEMMA CallKeepsRtl ==
  ASSUME RtlInv, render_rtl_step
  PROVE  RtlInv' /\ text' = text
<1>1. /\ in_ram /\ line_start \in DOMAIN text
      /\ rtl_pc' = "loop" /\ text' = text /\ did_transform' = FALSE
      /\ line_end' = trimmed(text, line_start, line_limit)
      /\ iter_ptr' = line_start + 1 /\ next_codept_ptr' = line_start
      /\ rtl_span_start' = NULL /\ weak_ltr_span_start' = NULL
      /\ orig' = orig /\ line_start' = line_start /\ line_limit' = line_limit
      /\ in_ram' = in_ram
  BY DEF render_rtl_step, touches_line, RtlCall
<1>2. line_start \in 1 .. Len(orig)
  BY <1>1, Shape
<1>3. line_end' \in line_start .. line_limit
  BY <1>1, Shape, TrimmedSpec DEF TrimPoint
<1>4. /\ line_end' \in 0 .. Len(orig) + 1 /\ iter_ptr' \in line_start + 1 .. Len(orig) + 1
      /\ iter_ptr' \in 0 .. Len(orig) + 1 /\ next_codept_ptr' \in 0 .. Len(orig)
      /\ 0 \in 0 .. Len(orig) /\ line_start = (line_start + 1) - 1
  BY <1>1, <1>2, <1>3, Shape
<1>5. RtlType'
  BY <1>1, <1>4 DEF RtlInv, RtlType, NULL
<1>6. Pointers' /\ SpanHoldsNoLetter'
  BY <1>1, <1>2, <1>3, <1>4, Shape DEF Pointers, SpanHoldsNoLetter, in_span
<1> QED BY <1>1, <1>5, <1>6 DEF RtlInv

-----------------------------------------------------------------------------
(* One lemma per action of the stub.                                       *)

\* The second pass trims at least as much as the first: it works on a line
\* that is no longer than the original one.
LEMMA TrimShrinks ==
  ASSUME IInv
  PROVE  trimmed(text, line_start, line_limit)
           \in line_start .. trimmed(orig, line_start, line_limit)
<1>0. RtlInv
  BY DEF IInv
<1> DEFINE e == trimmed(orig, line_start, line_limit)
           f == trimmed(text, line_start, line_limit)
<1>1. TrimPoint(orig, line_start, line_limit, e)
  BY <1>0, Shape, TrimmedSpec
<1>2. TrimPoint(text, line_start, line_limit, f)
  BY <1>0, Shape, TrimmedSpec
<1>3. \A i \in 1 .. Len(orig) : ~(line_start <= i /\ i < e) => text[i] = orig[i]
  <2>1. \A i \in DOMAIN orig \ (line_start .. e - 1) : text[i] = orig[i]
    BY DEF IInv, OnlyTheLine, line
  <2>2. DOMAIN orig = 1 .. Len(orig) /\ line_start \in Nat /\ e \in Nat
    BY <1>0, <1>1, Shape DEF TrimPoint
  <2> HIDE DEF e
  <2> QED BY <2>1, <2>2
<1> HIDE DEF e, f
<1>4. SUFFICES ASSUME e < f PROVE FALSE
  BY <1>0, <1>1, <1>2, Shape DEF e, f, TrimPoint
<1>5. f - 1 \in 1 .. Len(orig) /\ ~(f - 1 < e) /\ f \in e + 1 .. line_limit /\ f # line_start
  BY <1>0, <1>1, <1>2, <1>4, Shape DEF TrimPoint
<1>6. text[f - 1] = orig[f - 1] /\ orig[f - 1] = SPACE
  BY <1>1, <1>3, <1>5 DEF TrimPoint
<1> QED BY <1>2, <1>5, <1>6 DEF TrimPoint

\* Such a change inside the line keeps what is claimed of the buffer.
LEMMA RearrangedSafe ==
  ASSUME IInv, NEW u, NEW a \in line_start .. Len(orig) + 1,
         NEW b \in 0 .. trimmed(orig, line_start, line_limit),
         \A i \in a .. b - 1 : ~LtrLetter(text[i]),
         Rearranged(u, a, b)
  PROVE  /\ \A i \in DOMAIN orig \ line : u[i] = orig[i]
         /\ \A i \in DOMAIN orig : LtrLetter(orig[i]) \/ LtrLetter(u[i]) => u[i] = orig[i]
<1>0. RtlInv
  BY DEF IInv
<1>1. trimmed(orig, line_start, line_limit) \in line_start .. line_limit
  BY <1>0, Shape, TrimmedSpec DEF TrimPoint
<1>2. \A i \in DOMAIN orig \ line : u[i] = orig[i]
  <2>1. \A i \in DOMAIN orig : a <= i /\ i < b => i \in line
    BY <1>1, <1>0, Shape DEF line
  <2> QED BY <2>1, <1>0, Shape DEF Rearranged, IInv, OnlyTheLine
<1>3. ASSUME NEW i \in DOMAIN orig, LtrLetter(orig[i]) \/ LtrLetter(u[i])
      PROVE  u[i] = orig[i]
  <2>1. CASE a <= i /\ i < b
    <3>1. i \in a .. b - 1
      BY <1>1, <2>1, <1>0, Shape
    <3>2. ~LtrLetter(text[i]) /\ ~LtrLetter(u[i])
      BY <3>1 DEF Rearranged
    <3> QED BY <1>3, <3>2 DEF IInv, LettersFixed
  <2>2. CASE ~(a <= i /\ i < b)
    BY <1>3, <2>2, <1>0, Shape DEF Rearranged, IInv, LettersFixed
  <2> QED BY <2>1, <2>2
<1> QED BY <1>2, <1>3

\* So does a step of rtl_apply.
LEMMA MovesSafe ==
  ASSUME IInv, rtl_pc # "idle", Moves,
         UNCHANGED <<line_start, line_limit, in_ram, orig>>
  PROVE  OnlyTheLine' /\ LettersFixed' /\ FlashSafe'
<1>0. RtlInv /\ line_end \in Nat
  BY DEF IInv, RtlInv, RtlType
<1>1. line_end <= trimmed(orig, line_start, line_limit)
  BY DEF IInv, EndInLine
<1>2. PICK a \in line_start .. Len(orig) + 1, b \in 0 .. line_end :
        (\A i \in a .. b - 1 : ~LtrLetter(text[i])) /\ Rearranged(text', a, b)
  BY DEF Moves
<1>3. trimmed(orig, line_start, line_limit) \in line_start .. line_limit
  BY <1>0, Shape, TrimmedSpec DEF TrimPoint
<1>4. b \in 0 .. trimmed(orig, line_start, line_limit)
  BY <1>0, <1>1, <1>3, Shape
<1>5. /\ \A i \in DOMAIN orig \ line : text'[i] = orig[i]
      /\ \A i \in DOMAIN orig :
           LtrLetter(orig[i]) \/ LtrLetter(text'[i]) => text'[i] = orig[i]
  BY <1>2, <1>4, RearrangedSafe
<1>6. line' = line
  BY DEF line
<1>7. in_ram
  BY DEF IInv, RtlInv, Pointers
<1> QED BY <1>5, <1>6, <1>7 DEF OnlyTheLine, LettersFixed, FlashSafe

LEMMA IterationKeeps ==
  ASSUME IInv, RtlStep
  PROVE  IInv'
<1>1. RtlInv /\ RtlIterate /\ UNCHANGED wrap_vars
  BY DEF RtlStep, IInv
<1>2. /\ orig' = orig /\ line_start' = line_start /\ line_limit' = line_limit
      /\ in_ram' = in_ram /\ wrap_pc' = wrap_pc
  BY <1>1 DEF wrap_vars
<1>3. rtl_pc = "loop" /\ rtl_pc' \in {"loop", "exit"} /\ line_end' = line_end
  BY <1>1 DEF RtlIterate, OpenSpan, ContinueSpan, CloseSpan, PassOver, ReadAhead
<1>4. RtlInv' /\ Moves
  BY <1>1, RtlIterateKeeps
<1>5. OnlyTheLine' /\ LettersFixed' /\ FlashSafe'
  BY <1>2, <1>3, <1>4, MovesSafe
<1>6. TypeOK'
  BY <1>1, <1>2, <1>3, <1>4, Shape DEF IInv, TypeOK, RtlInv, RtlType
<1>7. EndInLine'
  BY <1>2, <1>3 DEF IInv, EndInLine
<1>8. NoSpanWithoutRtl'
  <2>1. NoRtl => text' = orig /\ rtl_span_start' = NULL /\ weak_ltr_span_start' = NULL
    <3>1. SUFFICES ASSUME NoRtl
                   PROVE  text' = orig /\ rtl_span_start' = NULL /\ weak_ltr_span_start' = NULL
      OBVIOUS
    <3>2. text = orig /\ ~in_span /\ weak_ltr_span_start = NULL
      BY <1>3, <3>1 DEF IInv, NoSpanWithoutRtl, in_span
    <3>3. this_codept_ptr \in DOMAIN orig
      BY <1>1, <1>3, LoopFacts, Shape
    <3>4. ~is_rtl(this_codept)
      BY <3>1, <3>2, <3>3 DEF NoRtl, this_codept
    <3> QED BY <1>1, <3>2, <3>4, QuietStep
  <2> QED BY <1>2, <2>1 DEF NoSpanWithoutRtl, NoRtl
<1> QED BY <1>2, <1>4, <1>5, <1>6, <1>7, <1>8 DEF IInv

LEMMA EndStepKeeps ==
  ASSUME IInv, EndStep
  PROVE  IInv'
<1>1. RtlInv /\ RtlReturn /\ rtl_pc = "exit" /\ rtl_pc' = "idle"
  BY DEF IInv, EndStep, RtlReturn
<1>2. /\ orig' = orig /\ line_start' = line_start /\ line_limit' = line_limit
      /\ in_ram' = in_ram /\ wrap_pc' = (IF wrap_pc = "rtl1" THEN "handler" ELSE "idle")
  BY DEF EndStep
<1>3. RtlInv' /\ Moves /\ (~in_span => text' = text)
  BY <1>1, <1>2, ReturnKeeps
<1>4. OnlyTheLine' /\ LettersFixed' /\ FlashSafe'
  BY <1>1, <1>2, <1>3, MovesSafe
<1>5. TypeOK'
  <2>1. wrap_pc \in {"rtl1", "rtl2"}
    BY <1>1 DEF IInv, TypeOK
  <2> QED BY <1>1, <1>2, <1>3, <2>1, Shape DEF IInv, TypeOK, RtlInv, RtlType
<1>6. EndInLine'
  BY <1>1 DEF EndInLine
<1>7. NoSpanWithoutRtl'
  <2>1. NoRtl => text = orig /\ ~in_span
    BY <1>1 DEF IInv, NoSpanWithoutRtl, in_span
  <2> QED BY <1>1, <1>2, <1>3, <2>1 DEF NoSpanWithoutRtl, NoRtl
<1> QED BY <1>2, <1>3, <1>4, <1>5, <1>6, <1>7 DEF IInv

LEMMA CallKeeps ==
  ASSUME IInv, render_rtl_step
  PROVE  IInv'
<1>1. RtlInv
  BY DEF IInv
<1>2. /\ rtl_pc = "idle" /\ rtl_pc' = "loop"
      /\ line_end' = trimmed(text, line_start, line_limit)
      /\ rtl_span_start' = NULL /\ weak_ltr_span_start' = NULL
      /\ wrap_pc' \in {"rtl1", "rtl2"}
      /\ orig' = orig /\ line_start' = line_start /\ line_limit' = line_limit
      /\ in_ram' = in_ram
  BY DEF render_rtl_step, RtlCall
<1>3. RtlInv' /\ text' = text
  BY <1>1, CallKeepsRtl
<1>4. EndInLine'
  <2>1. trimmed(orig, line_start, line_limit) \in line_start .. line_limit
    BY <1>1, Shape, TrimmedSpec DEF TrimPoint
  <2> QED BY <1>1, <1>2, <2>1, TrimShrinks, Shape DEF EndInLine
<1>5. TypeOK'
  BY <1>1, <1>2, <1>3, Shape DEF IInv, TypeOK, RtlInv, RtlType
<1>6. OnlyTheLine' /\ LettersFixed' /\ NoSpanWithoutRtl' /\ FlashSafe'
  BY <1>2, <1>3 DEF IInv, OnlyTheLine, LettersFixed, line, NoSpanWithoutRtl, NoRtl, FlashSafe
<1> QED BY <1>2, <1>3, <1>4, <1>5, <1>6 DEF IInv

\* The steps of the stub and of the handler that leave the buffer alone.
LEMMA OtherStepsKeep ==
  ASSUME IInv, Draw \/ SkipStep \/ RenderHandler \/ UNCHANGED vars
  PROVE  IInv'
<1>1. /\ text' = text /\ rtl_locals' = rtl_locals
      /\ orig' = orig /\ line_start' = line_start /\ line_limit' = line_limit
      /\ in_ram' = in_ram
      /\ \/ wrap_pc' = wrap_pc
         \/ /\ wrap_pc \in {"idle", "step1", "step2", "handler"}
            /\ wrap_pc' \in {"idle", "step1", "step2", "handler"}
  BY DEF Draw, SkipStep, RenderHandler, vars, wrap_vars
<1>2. /\ rtl_pc' = rtl_pc /\ line_end' = line_end /\ iter_ptr' = iter_ptr
      /\ next_codept_ptr' = next_codept_ptr /\ rtl_span_start' = rtl_span_start
      /\ weak_ltr_span_start' = weak_ltr_span_start /\ did_transform' = did_transform
  BY <1>1 DEF rtl_locals
<1>3. TypeOK'
  BY <1>1, <1>2 DEF IInv, TypeOK
<1>4. RtlInv'
  BY <1>1, <1>2 DEF IInv, RtlInv, RtlType, Pointers, SpanHoldsNoLetter, in_span, span_seen
<1>5. OnlyTheLine' /\ LettersFixed' /\ EndInLine'
  BY <1>1, <1>2 DEF IInv, OnlyTheLine, LettersFixed, line, EndInLine
<1>6. NoSpanWithoutRtl' /\ FlashSafe'
  BY <1>1, <1>2 DEF IInv, NoSpanWithoutRtl, NoRtl, FlashSafe
<1> QED BY <1>1, <1>3, <1>4, <1>5, <1>6 DEF IInv

LEMMA InitIInv ==
  Init => IInv
<1>1. SUFFICES ASSUME Init PROVE IInv
  OBVIOUS
<1>2. /\ orig \in Seq(Nat) /\ text = orig /\ orig \in Texts
      /\ <<line_start, line_limit>> \in Lines(orig)
  <2>1. PICK l \in Lines(text) : line_start = l[1] /\ line_limit = l[2]
    BY <1>1 DEF Init
  <2>2. l = <<l[1], l[2]>>
    BY <1>1, LinesAssumption DEF Init
  <2> QED BY <1>1, <2>1, <2>2, TextsAssumption DEF Init
<1>3. /\ line_start \in 1 .. Len(orig) + 1 /\ line_limit \in 1 .. Len(orig) + 1
      /\ line_start <= line_limit /\ Len(orig) \in Nat
  BY <1>2, LinesAssumption
<1>4. TypeOK
  <2>1. 0 \in 0 .. Len(orig) /\ 0 \in 0 .. Len(orig) + 1
        /\ line_limit \in line_start .. Len(orig) + 1
    BY <1>3
  <2>2. text \in [DOMAIN orig -> Nat]
    BY <1>2
  <2>3. did_transform \in BOOLEAN /\ in_ram \in BOOLEAN
    BY <1>1 DEF Init, RtlInit
  <2> QED BY <1>1, <1>2, <1>3, <2>1, <2>2, <2>3 DEF Init, RtlInit, TypeOK, NULL
<1>5. RtlInv
  <2>1. text \in [1 .. Len(orig) -> Nat]
    BY <1>2
  <2> QED BY <1>1, <1>2, <1>4, <2>1
          DEF Init, RtlInit, TypeOK, RtlInv, RtlType, Pointers, SpanHoldsNoLetter
<1>6. OnlyTheLine /\ LettersFixed /\ NoSpanWithoutRtl /\ FlashSafe /\ EndInLine
  BY <1>1, <1>2 DEF Init, RtlInit, OnlyTheLine, LettersFixed, NoSpanWithoutRtl, FlashSafe,
                    EndInLine
<1> QED BY <1>2, <1>4, <1>5, <1>6 DEF IInv

LEMMA NextIInv ==
  IInv /\ [Next]_vars => IInv'
<1>1. SUFFICES ASSUME IInv, [Next]_vars PROVE IInv'
  OBVIOUS
<1>2. CASE render_rtl_step
  BY <1>1, <1>2, CallKeeps
<1>3. CASE RtlStep
  BY <1>1, <1>3, IterationKeeps
<1>4. CASE EndStep
  BY <1>1, <1>4, EndStepKeeps
<1>5. CASE Draw \/ SkipStep \/ RenderHandler \/ UNCHANGED vars
  BY <1>1, <1>5, OtherStepsKeep
<1> QED BY <1>1, <1>2, <1>3, <1>4, <1>5 DEF Next

LEMMA Invariance ==
  Spec => []IInv
<1> QED BY InitIInv, NextIInv, PTL DEF Spec

-----------------------------------------------------------------------------
\* Every pointer of rtl_apply stays within the buffer, for every text and
\* every line the layout may choose.
THEOREM TypeCorrect == Spec => []TypeOK
<1>1. IInv => TypeOK
  BY DEF IInv
<1> QED BY <1>1, Invariance, PTL

\* render_rtl_step never writes outside the line it was called for.
THEOREM StaysInLine == Spec => []OnlyTheLine
<1>1. IInv => OnlyTheLine
  BY DEF IInv
<1> QED BY <1>1, Invariance, PTL

\* rtl_apply never moves a left-to-right letter.
THEOREM LettersNeverMove == Spec => []LtrLettersStay
<1>1. IInv => LtrLettersStay
  BY DEF IInv, LettersFixed, LtrLettersStay
<1> QED BY <1>1, Invariance, PTL

\* Text in flash and text without right-to-left runes is never written to.
THEOREM LeavesOtherTextAlone == Spec => []TextUntouched
<1>1. IInv => TextUntouched
  BY DEF IInv, NoSpanWithoutRtl, NoRtl, FlashSafe, TextUntouched
<1> QED BY <1>1, Invariance, PTL

-----------------------------------------------------------------------------
(***************************************************************************)
(* What one pass of rtl_apply makes of a line without marks, stated on     *)
(* positions: u is the buffer when it is called, a and z - 1 the first and *)
(* the last position of the line.                                          *)
(***************************************************************************)

\* Swapping a bracket for the other one of its pair stays within the pair.
LEMMA SwapInvolution ==
  ASSUME NEW x \in Nat
  PROVE  swapped(x) \in Nat /\ swapped(swapped(x)) = x
<1>1. DOMAIN RTL_SWAPS = 1 .. 8 /\ RTL_SWAPS \in [1 .. 8 -> Nat]
  BY DEF RTL_SWAPS
<1>2. \A i, j \in 1 .. 8 : RTL_SWAPS[i] = RTL_SWAPS[j] => i = j
  BY DEF RTL_SWAPS
<1> DEFINE other(i) == IF i % 2 = 1 THEN i + 1 ELSE i - 1
<1>3. \A i \in 1 .. 8 : other(i) \in 1 .. 8 /\ other(other(i)) = i
  OBVIOUS
<1>4. \A i \in 1 .. 8 : swapped(RTL_SWAPS[i]) = RTL_SWAPS[other(i)]
  <2>1. TAKE i \in 1 .. 8
  <2>2. (CHOOSE j \in DOMAIN RTL_SWAPS : RTL_SWAPS[j] = RTL_SWAPS[i]) = i
    BY <1>1, <1>2
  <2> QED BY <1>1, <2>2 DEF swapped
<1> HIDE DEF other
<1>5. CASE \E i \in 1 .. 8 : RTL_SWAPS[i] = x
  BY <1>5, <1>1, <1>3, <1>4
<1>6. CASE ~ \E i \in 1 .. 8 : RTL_SWAPS[i] = x
  BY <1>6, <1>1 DEF swapped
<1> QED BY <1>5, <1>6

Ctl(r) == codept(r) < \h20

\* rtl_apply reverses the positions s .. e - 1: from the first RTL rune after
\* a left-to-right one, up to the next left-to-right rune or the neutral or
\* numeral just before it.
LineSpan(u, a, z, s, e) ==
  /\ s \in a .. z - 1 /\ e \in s + 1 .. z
  /\ StrongRtl(u[s])
  /\ \A k \in s .. e - 1 : ~StrongLtr(u[k])
  /\ \A k \in a .. s - 1 : StrongRtl(u[k]) => \E j \in k + 1 .. s - 1 : StrongLtr(u[j])
  /\ \/ e = z
     \/ StrongLtr(u[e]) /\ (Soft(u[e - 1]) => Ctl(u[e]))
     \/ e + 1 < z /\ Soft(u[e]) /\ StrongLtr(u[e + 1]) /\ ~Ctl(u[e + 1])

\* In a span that opens at s, the positions b .. c - 1 hold no RTL rune and
\* begin with the first numeral after one.
NumeralRun(u, s, b, c) ==
  /\ s < b /\ b < c
  /\ Weak(u[b]) /\ \A k \in b .. c - 1 : Soft(u[k])
  /\ \A k \in s .. b - 1 : Weak(u[k]) => \E j \in k + 1 .. b - 1 : StrongRtl(u[j])

\* Where such a run is reversed on its own: at an RTL rune, and at the end of
\* the span unless a neutral or a numeral closes it.
Ends(u, s, t) == { c \in s .. t - 1 : StrongRtl(u[c]) }
LastEnds(u, z, s, e) == Ends(u, s, e) \union { c \in {e} : e = z \/ StrongLtr(u[e]) }

\* The rune of position p comes from q when the runs that end at C are reversed.
Source(u, s, C, p, q) ==
  \/ \E c \in C : \E b \in s + 1 .. c - 1 :
       NumeralRun(u, s, b, c) /\ p \in b .. c - 1 /\ q = b + c - 1 - p
  \/ /\ q = p
     /\ \A c \in C : \A b \in s + 1 .. c - 1 : NumeralRun(u, s, b, c) => p \notin b .. c - 1

\* The positions s .. t - 1 of an open span, before the reversal of the span.
Folded(u, w, s, t, C) ==
  \A p \in s .. t - 1 : \E q \in s .. t - 1 : Source(u, s, C, p, q) /\ w[p] = swapped(u[q])

\* The positions of a closed one.
Turned(u, v, z, s, e) ==
  \A p \in s .. e - 1 : \E q \in s .. e - 1 :
    Source(u, s, LastEnds(u, z, s, e), p, q) /\ v[s + e - 1 - p] = swapped(u[q])

\* The spans that open before m are turned, and nothing else is changed there.
TurnedBefore(u, v, a, z, m) ==
  /\ \A s, e \in Nat : LineSpan(u, a, z, s, e) /\ s < m => Turned(u, v, z, s, e)
  /\ \A k \in 1 .. m - 1 :
       (\A s, e \in Nat : LineSpan(u, a, z, s, e) => k \notin s .. e - 1) => v[k] = u[k]

\* A whole pass makes v of u.
Pass(n, u, v, a, z) ==
  /\ v \in [1 .. n -> Nat]
  /\ TurnedBefore(u, v, a, z, z)
  /\ \A k \in z .. n : v[k] = u[k]

\* What a pass leaves: spans end with an RTL rune, and numerals in them come
\* before the neutrals.
SettledSpan(u, s, e) ==
  /\ StrongRtl(u[e - 1])
  /\ \A b, c \in s .. e : NumeralRun(u, s, b, c) => StrongRtl(u[b - 1])
Settled(u, a, z) == \A s, e \in Nat : LineSpan(u, a, z, s, e) => SettledSpan(u, s, e)

\* The classes of a rune, and of the other bracket of its pair.
LEMMA DisjointClasses ==
  ASSUME NEW cp \in Nat
  PROVE  /\ cp \in RTL => cp \notin WEAK_LTR
         /\ cp \in RTL /\ cp \in NEUTRAL => cp \in ZERO_WIDTH
         /\ cp \in RTL => cp >= 1422
         /\ cp \in ZERO_WIDTH => cp >= 1422
<1>1. cp \in ARABIC_SHAPER_RANGE => 1792 <= cp /\ cp <= 2047
  BY ShaperRangeAssumption, SMT DEF RANGE
<1>2. cp \in RTL =>
        \/ 1550 <= cp /\ cp <= 1631
        \/ 1645 <= cp /\ cp <= 2047
        \/ 1424 <= cp /\ cp <= 1535
  BY <1>1, SMT DEF RTL, RANGE
<1>3. cp \in WEAK_LTR => cp <= 57 \/ (1632 <= cp /\ cp <= 1644)
  BY SMT DEF WEAK_LTR, RANGE
<1>4. cp \in NEUTRAL => cp <= 190 \/ (1536 <= cp /\ cp <= 1549) \/ cp \in ZERO_WIDTH
  BY SMT DEF NEUTRAL, RANGE
<1>5. cp \in ZERO_WIDTH => cp >= 1425
  BY SMT DEF ZERO_WIDTH, RANGE
<1> QED BY <1>2, <1>3, <1>4, <1>5, SMT

LEMMA RuneClasses ==
  ASSUME NEW x \in Nat
  PROVE  /\ StrongRtl(x) => ~StrongLtr(x)
         /\ Weak(x) => Soft(x)
         /\ Soft(x) <=> ~StrongLtr(x) /\ ~StrongRtl(x)
         /\ ~Mark(x) => (is_rtl(codept(x)) <=> StrongRtl(x))
         /\ StrongRtl(x) => x # SPACE
<1>1. codept(x) \in Nat
  BY DEF codept
<1>2. /\ codept(x) \in RTL => codept(x) \notin WEAK_LTR
      /\ codept(x) \in RTL /\ codept(x) \in NEUTRAL => codept(x) \in ZERO_WIDTH
      /\ codept(x) \in RTL => codept(x) >= 1422
  BY <1>1, DisjointClasses
<1>3. x = SPACE => codept(x) = 32
  BY DEF SPACE, codept
<1>4. StrongRtl(x) => x # SPACE
  BY <1>2, <1>3 DEF StrongRtl, is_rtl
<1> QED BY <1>2, <1>4 DEF StrongRtl, StrongLtr, Weak, Soft, Mark, is_rtl, is_neutral, is_weak_ltr, is_zero_width

LEMMA SwapKeepsClass ==
  ASSUME NEW x \in Nat
  PROVE  /\ StrongRtl(x) => swapped(x) = x
         /\ StrongRtl(swapped(x)) <=> StrongRtl(x)
         /\ StrongLtr(swapped(x)) <=> StrongLtr(x)
         /\ Weak(swapped(x)) <=> Weak(x)
         /\ Soft(swapped(x)) <=> Soft(x)
         /\ Mark(swapped(x)) <=> Mark(x)
         /\ codept(swapped(x)) = 0 <=> codept(x) = 0
<1> DEFINE Brackets == {\h7B, \h7D, \h5B, \h5D, \h28, \h29, \h3C, \h3E}
<1>1. DOMAIN RTL_SWAPS = 1 .. 8 /\ \A i \in 1 .. 8 : RTL_SWAPS[i] \in Brackets
  BY DEF RTL_SWAPS
<1>2. \A i \in 1 .. 8 : (IF i % 2 = 1 THEN i + 1 ELSE i - 1) \in 1 .. 8
  OBVIOUS
<1>3. swapped(x) = x \/ (swapped(x) \in Brackets /\ x \in Brackets)
  BY <1>1, <1>2 DEF swapped
<1>4. ASSUME NEW b \in Brackets
      PROVE  ~StrongRtl(b) /\ ~StrongLtr(b) /\ ~Weak(b) /\ Soft(b) /\ ~Mark(b) /\ codept(b) # 0
  <2>1. b \in Nat /\ codept(b) = b /\ b # 0
    BY DEF codept
  <2>2. b \in RANGE(\h26, \h30) \cup RANGE(\h3A, \h41) \cup RANGE(\h5B, \h61) \cup RANGE(\h7B, \hA2)
    BY DEF RANGE
  <2>3. b \in NEUTRAL
    BY <2>2 DEF NEUTRAL
  <2>4. b \notin WEAK_LTR
    BY SMT DEF WEAK_LTR, RANGE
  <2>5. b < 1422
    BY SMT
  <2>6. b \notin RTL /\ b \notin ZERO_WIDTH
    BY <2>1, <2>5, DisjointClasses, SMT
  <2> QED BY <2>1, <2>3, <2>4, <2>6 DEF StrongRtl, StrongLtr, Weak, Soft, Mark, is_rtl, is_neutral,
                                        is_weak_ltr, is_zero_width
<1> HIDE DEF Brackets
<1> QED BY <1>3, <1>4

-----------------------------------------------------------------------------
(* Spans and runs of numerals are well defined.                            *)

LEMMA SpanBounds ==
  ASSUME NEW n \in Nat, NEW u \in [1 .. n -> Nat], NEW a \in 1 .. n + 1, NEW z \in a .. n + 1,
         NEW s \in Nat, NEW e \in Nat, LineSpan(u, a, z, s, e)
  PROVE  /\ a <= s /\ s < e /\ e <= z /\ s \in 1 .. n /\ e \in s .. n + 1 /\ e \in s + 1 .. n + 1
         /\ StrongRtl(u[s]) /\ \A k \in s .. e - 1 : ~StrongLtr(u[k])
<1>1. /\ s \in a .. z - 1 /\ e \in s + 1 .. z
      /\ StrongRtl(u[s]) /\ \A k \in s .. e - 1 : ~StrongLtr(u[k])
  BY DEF LineSpan
<1>2. a <= s /\ s < e /\ e <= z /\ s \in 1 .. n /\ e \in s .. n + 1 /\ e \in s + 1 .. n + 1
  BY <1>1
<1> QED BY <1>1, <1>2

LEMMA SpanOrder ==
  ASSUME NEW n \in Nat, NEW u \in [1 .. n -> Nat], NEW a \in 1 .. n + 1, NEW z \in a .. n + 1,
         NEW s \in Nat, NEW e \in Nat, NEW s2 \in Nat, NEW e2 \in Nat,
         LineSpan(u, a, z, s, e), LineSpan(u, a, z, s2, e2),
         s < e2, s2 < e
  PROVE  s2 <= s /\ e2 <= e
<1>1. /\ a <= s /\ s < e /\ e <= z /\ a <= s2 /\ s2 < e2 /\ e2 <= z
      /\ z <= n + 1 /\ 1 <= a
  BY DEF LineSpan
<1>2. ~(s < s2)
  <2>1. SUFFICES ASSUME s < s2 PROVE FALSE
    OBVIOUS
  <2>2. StrongRtl(u[s]) /\ s \in a .. s2 - 1
    BY <1>1, <2>1 DEF LineSpan
  <2>3. PICK j \in s + 1 .. s2 - 1 : StrongLtr(u[j])
    BY <2>2 DEF LineSpan
  <2>4. j \in s .. e - 1
    BY <1>1
  <2> QED BY <2>3, <2>4 DEF LineSpan
<1>3. ~(e < e2)
  <2>1. SUFFICES ASSUME e < e2 PROVE FALSE
    OBVIOUS
  <2>2. e \in s2 .. e2 - 1 /\ e # z /\ u[e] \in Nat
    BY <1>1, <2>1
  <2>3. ~StrongLtr(u[e])
    BY <2>2 DEF LineSpan
  <2>4. e + 1 < z /\ Soft(u[e]) /\ StrongLtr(u[e + 1]) /\ ~Ctl(u[e + 1])
    BY <2>2, <2>3 DEF LineSpan
  <2>5. e2 = e + 1
    <3>1. e + 1 \notin s2 .. e2 - 1
      BY <2>4 DEF LineSpan
    <3> QED BY <1>1, <2>1, <3>1
  <2>6. e2 # z /\ e2 - 1 = e /\ u[e2] \in Nat
    BY <1>1, <2>4, <2>5
  <2>7. ~Soft(u[e2])
    BY <2>4, <2>5, <2>6, RuneClasses
  <2>8. Soft(u[e2 - 1]) => Ctl(u[e2])
    BY <2>6, <2>7 DEF LineSpan
  <2> QED BY <2>4, <2>5, <2>6, <2>8
<1> QED BY <1>2, <1>3

\* Spans that overlap are the same.
LEMMA SpanUnique ==
  ASSUME NEW n \in Nat, NEW u \in [1 .. n -> Nat], NEW a \in 1 .. n + 1, NEW z \in a .. n + 1,
         NEW s \in Nat, NEW e \in Nat, NEW s2 \in Nat, NEW e2 \in Nat,
         LineSpan(u, a, z, s, e), LineSpan(u, a, z, s2, e2),
         s < e2, s2 < e
  PROVE  s2 = s /\ e2 = e
<1>1. s2 <= s /\ e2 <= e
  BY SpanOrder
<1>2. s <= s2 /\ e <= e2
  BY SpanOrder
<1> QED BY <1>1, <1>2

\* Every RTL rune of the line is in a span.
LEMMA SpanCovers ==
  ASSUME NEW n \in Nat, NEW u \in [1 .. n -> Nat], NEW a \in 1 .. n + 1, NEW z \in a .. n + 1,
         NEW k \in a .. z - 1, StrongRtl(u[k])
  PROVE  \E s, e \in Nat : LineSpan(u, a, z, s, e) /\ k \in s .. e - 1
<1>0. k \in Nat /\ a <= k /\ k < z /\ u[k] \in Nat /\ 1 <= a /\ z <= n + 1
  OBVIOUS
<1> DEFINE S == { i \in a .. k : StrongRtl(u[i]) /\ \A j \in i .. k : ~StrongLtr(u[j]) }
           T == { i \in k + 1 .. z - 1 : StrongLtr(u[i]) }
<1>1. S \subseteq Nat /\ k \in S
  <2>1. ~StrongLtr(u[k])
    BY <1>0, RuneClasses
  <2> QED BY <1>0, <2>1
<1>2. PICK s \in S : \A i \in S : s <= i
  <2> HIDE DEF S
  <2> QED BY <1>1, LeastNat
<1>3. s \in a .. k /\ StrongRtl(u[s]) /\ \A j \in s .. k : ~StrongLtr(u[j])
  OBVIOUS
<1>4. ASSUME NEW i \in a .. s - 1, StrongRtl(u[i])
      PROVE  \E j \in i + 1 .. s - 1 : StrongLtr(u[j])
  <2>1. i \in a .. k /\ i \notin S /\ u[i] \in Nat
    BY <1>0, <1>2, <1>3
  <2>2. PICK j \in i .. k : StrongLtr(u[j])
    BY <1>4, <2>1
  <2>3. j # i
    BY <1>4, <2>1, <2>2, RuneClasses
  <2>4. ~(s <= j)
    BY <1>0, <1>3, <2>2
  <2> QED BY <1>0, <1>3, <2>2, <2>3, <2>4
<1>5. CASE T = {}
  <2>0. \A j \in k + 1 .. z - 1 : ~StrongLtr(u[j])
    BY <1>5
  <2>1. \A j \in s .. z - 1 : ~StrongLtr(u[j])
    <3>1. \A j \in s .. z - 1 : j \in s .. k \/ j \in k + 1 .. z - 1
      BY <1>0, <1>3
    <3> QED BY <1>3, <2>0, <3>1
  <2>2. LineSpan(u, a, z, s, z)
    BY <1>0, <1>3, <1>4, <2>1 DEF LineSpan
  <2>3. s \in Nat /\ z \in Nat /\ k \in s .. z - 1
    BY <1>0, <1>3
  <2> QED BY <2>2, <2>3
<1>6. CASE T # {}
  <2>1. PICK m \in T : \A i \in T : m <= i
    <3>1. T \subseteq Nat
      BY <1>0
    <3> HIDE DEF T
    <3> QED BY <3>1, <1>6, LeastNat
  <2>2. m \in k + 1 .. z - 1 /\ StrongLtr(u[m]) /\ m \in Nat
    BY <1>0
  <2>3. \A j \in s .. m - 1 : ~StrongLtr(u[j])
    <3>1. SUFFICES ASSUME NEW j \in s .. m - 1, StrongLtr(u[j]) PROVE FALSE
      OBVIOUS
    <3>2. j \in k + 1 .. z - 1
      BY <1>0, <1>3, <2>2, <3>1
    <3>3. j \in T /\ ~(m <= j)
      BY <2>2, <3>1, <3>2
    <3> QED BY <2>1, <3>3
  <2> HIDE DEF S, T
  <2>4. CASE Soft(u[m - 1]) /\ ~Ctl(u[m])
    <3>1. m - 1 # k
      BY <1>0, <2>4, RuneClasses
    <3>2. m - 1 \in s + 1 .. z /\ (m - 1) + 1 < z /\ (m - 1) + 1 = m /\ k \in s .. (m - 1) - 1
      BY <1>0, <1>3, <2>2, <3>1
    <3>3. \A j \in s .. (m - 1) - 1 : ~StrongLtr(u[j])
      BY <2>3, <3>2
    <3>4. s \in a .. z - 1 /\ s \in Nat /\ m - 1 \in Nat
      BY <1>0, <1>3, <2>2
    <3>5. LineSpan(u, a, z, s, m - 1)
      BY <1>3, <1>4, <2>2, <2>4, <3>2, <3>3, <3>4 DEF LineSpan
    <3> QED BY <3>2, <3>4, <3>5
  <2>5. CASE ~(Soft(u[m - 1]) /\ ~Ctl(u[m]))
    <3>1. s \in a .. z - 1 /\ m \in s + 1 .. z /\ k \in s .. m - 1 /\ s \in Nat
      BY <1>0, <1>3, <2>2
    <3>2. LineSpan(u, a, z, s, m)
      BY <1>3, <1>4, <2>2, <2>3, <2>5, <3>1 DEF LineSpan
    <3> QED BY <2>2, <3>1, <3>2
  <2> QED BY <2>4, <2>5
<1> QED BY <1>5, <1>6

\* Every numeral of a span is in a run.
LEMMA RunCovers ==
  ASSUME NEW n \in Nat, NEW u \in [1 .. n -> Nat],
         NEW s \in 1 .. n, NEW e \in s + 1 .. n + 1,
         StrongRtl(u[s]), \A k \in s .. e - 1 : ~StrongLtr(u[k]),
         NEW p \in s .. e - 1, Weak(u[p])
  PROVE  \E b \in s + 1 .. p, c \in p + 1 .. e :
           NumeralRun(u, s, b, c) /\ (c # e => StrongRtl(u[c]))
<1>0. p \in Nat /\ s <= p /\ p < e /\ \A i \in s .. e - 1 : i \in Nat /\ u[i] \in Nat
  OBVIOUS
<1> DEFINE S == { i \in s .. p : Weak(u[i]) /\ \A j \in i .. p : Soft(u[j]) }
           T == { i \in p + 1 .. e : i # e => StrongRtl(u[i]) }
<1>1. S \subseteq Nat /\ p \in S
  BY <1>0, RuneClasses
<1>2. PICK b \in S : \A i \in S : b <= i
  <2> HIDE DEF S
  <2> QED BY <1>1, LeastNat
<1>3. b \in s .. p /\ Weak(u[b]) /\ \A j \in b .. p : Soft(u[j])
  OBVIOUS
<1>4. b # s
  BY <1>0, <1>3, RuneClasses
<1>5. ASSUME NEW k \in s .. b - 1, Weak(u[k])
      PROVE  \E j \in k + 1 .. b - 1 : StrongRtl(u[j])
  <2>1. k \in s .. p /\ k \notin S /\ u[k] \in Nat
    BY <1>0, <1>2, <1>3
  <2>2. PICK j \in k .. p : ~Soft(u[j])
    BY <1>5, <2>1
  <2>3. j # k /\ j \in s .. e - 1
    BY <1>0, <1>5, <2>1, <2>2, RuneClasses
  <2>4. ~(b <= j)
    BY <1>0, <1>3, <2>2
  <2>5. StrongRtl(u[j])
    BY <1>0, <2>2, <2>3, RuneClasses
  <2> QED BY <1>0, <1>3, <2>2, <2>3, <2>4, <2>5
<1>6. PICK c \in T : \A i \in T : c <= i
  <2>1. T \subseteq Nat /\ e \in T
    BY <1>0
  <2> HIDE DEF T
  <2> QED BY <2>1, LeastNat
<1>7. c \in p + 1 .. e /\ (c # e => StrongRtl(u[c])) /\ c \in Nat
  BY <1>0
<1>8. ASSUME NEW j \in b .. c - 1 PROVE Soft(u[j])
  <2>1. CASE j <= p
    BY <1>0, <1>3, <2>1
  <2>2. CASE ~(j <= p)
    <3>1. j \in p + 1 .. e /\ j # e /\ ~(c <= j)
      BY <1>0, <1>3, <1>7, <2>2
    <3>2. ~StrongRtl(u[j])
      BY <1>6, <3>1
    <3>3. j \in s .. e - 1
      BY <1>0, <3>1
    <3> QED BY <1>0, <3>2, <3>3, RuneClasses
  <2> QED BY <2>1, <2>2
<1> HIDE DEF S, T
<1>9. NumeralRun(u, s, b, c)
  <2>1. s < b /\ b < c
    BY <1>0, <1>3, <1>4, <1>7
  <2> QED BY <1>3, <1>5, <1>8, <2>1 DEF NumeralRun
<1>10. b \in s + 1 .. p
  BY <1>0, <1>3, <1>4
<1> QED BY <1>7, <1>9, <1>10

\* Places where runs of a span end: at RTL runes, and perhaps at its own end.
EndsOK(u, s, t, C) == C \subseteq s .. t /\ \A c \in C : c # t => StrongRtl(u[c])

LEMMA RunUnique ==
  ASSUME NEW n \in Nat, NEW u \in [1 .. n -> Nat], NEW s \in 1 .. n, NEW t \in s .. n + 1,
         NEW C, EndsOK(u, s, t, C), NEW c \in C, NEW c2 \in C, NEW b \in Nat, NEW b2 \in Nat,
         NumeralRun(u, s, b, c), NumeralRun(u, s, b2, c2),
         b < c2, b2 < c
  PROVE  b = b2 /\ c = c2
<1>0. c \in Nat /\ c2 \in Nat /\ s < b /\ b < c /\ s < b2 /\ b2 < c2
      /\ c <= t /\ c2 <= t /\ t <= n + 1 /\ s \in Nat
  BY DEF EndsOK, NumeralRun
<1>1. ASSUME NEW x \in Nat, NEW x2 \in Nat, NEW y \in Nat, NEW y2 \in Nat,
             NumeralRun(u, s, x, y), NumeralRun(u, s, x2, y2), s < x, x < x2, x2 < y, y <= t
      PROVE  FALSE
  <2>1. Weak(u[x]) /\ x \in s .. x2 - 1
    BY <1>0, <1>1 DEF NumeralRun
  <2>2. PICK j \in x + 1 .. x2 - 1 : StrongRtl(u[j])
    BY <1>1, <2>1 DEF NumeralRun
  <2>3. j \in x .. y - 1 /\ u[j] \in Nat
    BY <1>0, <1>1
  <2>4. Soft(u[j])
    BY <1>1, <2>3 DEF NumeralRun
  <2> QED BY <2>2, <2>3, <2>4, RuneClasses
<1>2. b = b2
  BY <1>0, <1>1
<1>3. ASSUME NEW y \in C, NEW y2 \in C, NEW x2 \in Nat, NumeralRun(u, s, x2, y2), x2 < y,
             y < y2, y \in Nat, y2 <= t, y2 \in Nat
      PROVE  FALSE
  <2>1. StrongRtl(u[y]) /\ u[y] \in Nat
    BY <1>0, <1>3 DEF EndsOK
  <2>2. Soft(u[y])
    BY <1>0, <1>3 DEF NumeralRun
  <2> QED BY <2>1, <2>2, RuneClasses
<1>4. c = c2
  BY <1>0, <1>3
<1> QED BY <1>2, <1>4

\* Each position has one source, of the same kind.
LEMMA SourceExists ==
  ASSUME NEW n \in Nat, NEW u \in [1 .. n -> Nat], NEW s \in 1 .. n, NEW t \in s .. n + 1,
         NEW C, EndsOK(u, s, t, C), NEW p \in s .. t - 1
  PROVE  \E q \in s .. t - 1 : Source(u, s, C, p, q)
<1>1. CASE \E c \in C : \E b \in s + 1 .. c - 1 : NumeralRun(u, s, b, c) /\ p \in b .. c - 1
  <2>1. PICK c \in C : \E b \in s + 1 .. c - 1 : NumeralRun(u, s, b, c) /\ p \in b .. c - 1
    BY <1>1
  <2>2. PICK b \in s + 1 .. c - 1 : NumeralRun(u, s, b, c) /\ p \in b .. c - 1
    BY <2>1
  <2>3. b + c - 1 - p \in s .. t - 1
    BY <2>2 DEF EndsOK
  <2> QED BY <2>2, <2>3 DEF Source
<1>2. CASE ~ \E c \in C : \E b \in s + 1 .. c - 1 : NumeralRun(u, s, b, c) /\ p \in b .. c - 1
  BY <1>2 DEF Source
<1> QED BY <1>1, <1>2

LEMMA SourceUnique ==
  ASSUME NEW n \in Nat, NEW u \in [1 .. n -> Nat], NEW s \in 1 .. n, NEW t \in s .. n + 1,
         NEW C, EndsOK(u, s, t, C), NEW p \in s .. t - 1, NEW q, NEW q2,
         Source(u, s, C, p, q), Source(u, s, C, p, q2)
  PROVE  q = q2
<1>1. CASE \E c \in C : \E b \in s + 1 .. c - 1 : NumeralRun(u, s, b, c) /\ p \in b .. c - 1
  <2>1. PICK c \in C : \E b \in s + 1 .. c - 1 : NumeralRun(u, s, b, c) /\ p \in b .. c - 1 /\ q = b + c - 1 - p
    BY <1>1 DEF Source
  <2>2. PICK b \in s + 1 .. c - 1 : NumeralRun(u, s, b, c) /\ p \in b .. c - 1 /\ q = b + c - 1 - p
    BY <2>1
  <2>3. PICK d \in C : \E b2 \in s + 1 .. d - 1 : NumeralRun(u, s, b2, d) /\ p \in b2 .. d - 1 /\ q2 = b2 + d - 1 - p
    BY <1>1 DEF Source
  <2>4. PICK b2 \in s + 1 .. d - 1 : NumeralRun(u, s, b2, d) /\ p \in b2 .. d - 1 /\ q2 = b2 + d - 1 - p
    BY <2>3
  <2>5. b \in Nat /\ b2 \in Nat /\ b < d /\ b2 < c
    BY <2>2, <2>4 DEF EndsOK
  <2>6. b = b2 /\ c = d
    BY <2>2, <2>4, <2>5, RunUnique
  <2> QED BY <2>2, <2>4, <2>6
<1>2. CASE ~ \E c \in C : \E b \in s + 1 .. c - 1 : NumeralRun(u, s, b, c) /\ p \in b .. c - 1
  BY <1>2 DEF Source
<1> QED BY <1>1, <1>2

LEMMA SourceKind ==
  ASSUME NEW n \in Nat, NEW u \in [1 .. n -> Nat], NEW s \in 1 .. n, NEW t \in s .. n + 1,
         NEW C, EndsOK(u, s, t, C), NEW p \in s .. t - 1, NEW q, Source(u, s, C, p, q)
  PROVE  q \in s .. t - 1 /\ (q = p \/ (Soft(u[p]) /\ Soft(u[q])))
<1>1. CASE q = p
  BY <1>1
<1>2. CASE q # p
  <2>1. PICK c \in C : \E b \in s + 1 .. c - 1 : NumeralRun(u, s, b, c) /\ p \in b .. c - 1 /\ q = b + c - 1 - p
    BY <1>2 DEF Source
  <2>2. PICK b \in s + 1 .. c - 1 : NumeralRun(u, s, b, c) /\ p \in b .. c - 1 /\ q = b + c - 1 - p
    BY <2>1
  <2>3. q \in s .. t - 1 /\ q \in b .. c - 1
    BY <2>2 DEF EndsOK
  <2> QED BY <2>2, <2>3 DEF NumeralRun
<1> QED BY <1>1, <1>2

LEMMA EndsAreOK ==
  ASSUME NEW n \in Nat, NEW u \in [1 .. n -> Nat], NEW s \in 1 .. n, NEW t \in s .. n + 1, NEW z
  PROVE  /\ EndsOK(u, s, t, Ends(u, s, t)) /\ EndsOK(u, s, t, Ends(u, s, t) \union {t})
         /\ EndsOK(u, s, t, LastEnds(u, z, s, t))
BY DEF EndsOK, Ends, LastEnds

\* Reversing the run of numerals that is open at t, or knowing there is none.
LEMMA CloseRun ==
  ASSUME NEW n \in Nat, NEW u \in [1 .. n -> Nat], NEW w \in [1 .. n -> Nat],
         NEW s \in 1 .. n, NEW t \in s + 1 .. n + 1, NEW k \in Nat,
         Folded(u, w, s, t, Ends(u, s, t)),
         k # NULL => NumeralRun(u, s, k, t),
         k = NULL => \A i \in s .. t - 1 : Weak(u[i]) => \E j \in i + 1 .. t - 1 : StrongRtl(u[j])
  PROVE  Folded(u, IF k # NULL THEN reverse_span(w, k, t) ELSE w, s, t, Ends(u, s, t) \union {t})
<1> DEFINE C == Ends(u, s, t)
           D == C \union {t}
<1>0. C \subseteq s .. t - 1 /\ (\A c \in C : StrongRtl(u[c])) /\ t \in Nat /\ s < t /\ t <= n + 1
  BY DEF Ends
<1>a. EndsOK(u, s, t, C) /\ EndsOK(u, s, t, D)
  BY <1>0 DEF EndsOK
<1>1. CASE k = NULL
  <2>1. ASSUME NEW b \in s + 1 .. t - 1 PROVE ~NumeralRun(u, s, b, t)
    <3>1. SUFFICES ASSUME NumeralRun(u, s, b, t) PROVE FALSE
      OBVIOUS
    <3>2. PICK j \in b + 1 .. t - 1 : StrongRtl(u[j])
      BY <1>1, <3>1 DEF NumeralRun
    <3>3. Soft(u[j]) /\ u[j] \in Nat
      BY <1>0, <3>1 DEF NumeralRun
    <3> QED BY <3>2, <3>3, RuneClasses
  <2>2. ASSUME NEW p, NEW q, Source(u, s, C, p, q) PROVE Source(u, s, D, p, q)
    BY <2>1, <2>2 DEF Source
  <2> QED BY <1>1, <2>2 DEF Folded
<1>2. CASE k # NULL
  <2> DEFINE v == reverse_span(w, k, t)
  <2>0. NumeralRun(u, s, k, t) /\ s < k /\ k < t
    BY <1>2 DEF NumeralRun
  <2>1. \A i \in 1 .. n : v[i] = IF k <= i /\ i < t THEN w[k + t - 1 - i] ELSE w[i]
    BY DEF reverse_span
  <2> HIDE DEF v, C, D
  <2>2. ASSUME NEW p \in k .. t - 1 PROVE w[p] = swapped(u[p])
    <3>0. p \in s .. t - 1
      BY <2>0
    <3>1. PICK q \in s .. t - 1 : Source(u, s, C, p, q) /\ w[p] = swapped(u[q])
      BY <3>0 DEF Folded, C
    <3>2. ASSUME NEW c \in C, NEW b \in s + 1 .. c - 1, NumeralRun(u, s, b, c), p \in b .. c - 1
          PROVE  FALSE
      <4>1. c \in k .. t - 1 /\ u[c] \in Nat /\ StrongRtl(u[c])
        BY <1>0, <3>2
      <4>2. Soft(u[c])
        BY <2>0, <4>1 DEF NumeralRun
      <4> QED BY <4>1, <4>2, RuneClasses
    <3>3. q = p
      BY <3>1, <3>2 DEF Source
    <3> QED BY <3>1, <3>3
  <2>3. ASSUME NEW p \in k .. t - 1 PROVE \E q \in s .. t - 1 : Source(u, s, D, p, q) /\ v[p] = swapped(u[q])
    <3>1. k + t - 1 - p \in k .. t - 1 /\ k + t - 1 - p \in s .. t - 1 /\ p \in 1 .. n
      BY <1>0, <2>0
    <3>2. Source(u, s, D, p, k + t - 1 - p)
      <4>1. t \in D /\ k \in s + 1 .. t - 1
        BY <1>0, <2>0 DEF D
      <4> QED BY <2>0, <4>1 DEF Source
    <3>3. v[p] = swapped(u[k + t - 1 - p])
      BY <2>1, <2>2, <3>1
    <3> QED BY <3>1, <3>2, <3>3
  <2>4. ASSUME NEW p \in s .. k - 1 PROVE \E q \in s .. t - 1 : Source(u, s, D, p, q) /\ v[p] = swapped(u[q])
    <3>0. p \in s .. t - 1 /\ p \in 1 .. n
      BY <1>0, <2>0
    <3>1. PICK q \in s .. t - 1 : Source(u, s, C, p, q) /\ w[p] = swapped(u[q])
      BY <3>0 DEF Folded, C
    <3>2. v[p] = w[p]
      <4>1. ~(k <= p /\ p < t)
        BY <1>0, <2>0
      <4> QED BY <2>1, <3>0, <4>1
    <3>3. ASSUME NEW b \in s + 1 .. t - 1, NumeralRun(u, s, b, t), p \in b .. t - 1 PROVE FALSE
      <4>1. b \in s .. k - 1 /\ Weak(u[b])
        BY <3>3, <2>0 DEF NumeralRun
      <4>2. PICK j \in b + 1 .. k - 1 : StrongRtl(u[j])
        BY <4>1, <2>0 DEF NumeralRun
      <4>3. j \in b .. t - 1 /\ u[j] \in Nat
        BY <1>0, <2>0, <4>1
      <4>4. Soft(u[j])
        BY <3>3, <4>3 DEF NumeralRun
      <4> QED BY <4>2, <4>3, <4>4, RuneClasses
    <3>4. Source(u, s, D, p, q)
      BY <3>1, <3>3 DEF Source, D
    <3> QED BY <3>1, <3>2, <3>4
  <2>5. \A p \in s .. t - 1 : p \in s .. k - 1 \/ p \in k .. t - 1
    BY <1>0, <2>0
  <2>6. Folded(u, v, s, t, D)
    BY <2>3, <2>4, <2>5 DEF Folded
  <2> QED BY <1>2, <2>6 DEF v, D, C
<1> QED BY <1>1, <1>2

-----------------------------------------------------------------------------
(***************************************************************************)
(* The loop of rtl_apply, one lemma per branch: u is the buffer at the     *)
(* call, w the buffer now, t the rune the loop has come to.                *)
(***************************************************************************)

\* A span is open since s.
Opened(u, a, z, s, t) ==
  /\ s \in a .. t - 1 /\ t <= z
  /\ StrongRtl(u[s])
  /\ \A k \in s .. t - 1 : ~StrongLtr(u[k])
  /\ \A k \in a .. s - 1 : StrongRtl(u[k]) => \E j \in k + 1 .. s - 1 : StrongLtr(u[j])
  /\ t < z /\ Soft(u[t - 1]) /\ StrongLtr(u[t]) => Ctl(u[t])

\* A run of numerals is open since k, or none is.
OpenRun(u, s, t, k) ==
  /\ k # NULL => NumeralRun(u, s, k, t)
  /\ k = NULL => \A i \in s .. t - 1 : Weak(u[i]) => \E j \in i + 1 .. t - 1 : StrongRtl(u[j])

InSpanAt(n, u, w, a, z, s, t, k) ==
  /\ Opened(u, a, z, s, t)
  /\ Folded(u, w, s, t, Ends(u, s, t))
  /\ OpenRun(u, s, t, k)
  /\ TurnedBefore(u, w, a, z, s)
  /\ \A i \in t .. n : w[i] = u[i]

OutsideAt(n, u, w, a, z, t) ==
  /\ \A k \in a .. t - 1 : StrongRtl(u[k]) => \E j \in k + 1 .. t : StrongLtr(u[j])
  /\ TurnedBefore(u, w, a, z, t)
  /\ \A i \in t .. n : w[i] = u[i]

\* The spans before an open one are closed.
LEMMA SpansBefore ==
  ASSUME NEW n \in Nat, NEW u \in [1 .. n -> Nat], NEW a \in 1 .. n + 1, NEW z \in a .. n + 1,
         NEW m \in a .. z,
         \A k \in a .. m - 1 : StrongRtl(u[k]) => \E j \in k + 1 .. m - 1 : StrongLtr(u[j]),
         NEW s \in Nat, NEW e \in Nat, LineSpan(u, a, z, s, e), s < m
  PROVE  e <= m
<1>1. s \in a .. m - 1 /\ StrongRtl(u[s])
  BY DEF LineSpan
<1>2. PICK j \in s + 1 .. m - 1 : StrongLtr(u[j])
  BY <1>1
<1>3. ~(j \in s .. e - 1)
  BY <1>2 DEF LineSpan
<1> QED BY <1>1, <1>2, <1>3

\* They stay as they are when only what follows is changed.
LEMMA TurnedFrame ==
  ASSUME NEW n \in Nat, NEW u \in [1 .. n -> Nat], NEW a \in 1 .. n + 1, NEW z \in a .. n + 1,
         NEW m \in a .. z,
         \A k \in a .. m - 1 : StrongRtl(u[k]) => \E j \in k + 1 .. m - 1 : StrongLtr(u[j]),
         NEW w, NEW v, \A i \in 1 .. m - 1 : v[i] = w[i],
         TurnedBefore(u, w, a, z, m)
  PROVE  TurnedBefore(u, v, a, z, m)
<1>1. ASSUME NEW s \in Nat, NEW e \in Nat, LineSpan(u, a, z, s, e), s < m
      PROVE  Turned(u, v, z, s, e)
  <2>1. Turned(u, w, z, s, e)
    BY <1>1 DEF TurnedBefore
  <2>2. e <= m /\ a <= s
    BY <1>1, SpansBefore DEF LineSpan
  <2>3. \A p \in s .. e - 1 : s + e - 1 - p \in 1 .. m - 1
    BY <2>2
  <2> QED BY <2>1, <2>3 DEF Turned
<1>2. ASSUME NEW k \in 1 .. m - 1, \A s, e \in Nat : LineSpan(u, a, z, s, e) => k \notin s .. e - 1
      PROVE  v[k] = u[k]
  BY <1>2 DEF TurnedBefore
<1> QED BY <1>1, <1>2 DEF TurnedBefore

LEMMA StepOpen ==
  ASSUME NEW n \in Nat, NEW u \in [1 .. n -> Nat], NEW a \in 1 .. n + 1, NEW z \in a .. n + 1,
         NEW w \in [1 .. n -> Nat], NEW t \in a .. z - 1,
         OutsideAt(n, u, w, a, z, t), StrongRtl(u[t]), t + 1 < z
  PROVE  InSpanAt(n, u, w, a, z, t, t + 1, NULL)
<1>0. t \in Nat /\ a <= t /\ t < z /\ u[t] \in Nat /\ (t + 1) - 1 = t /\ t \in 1 .. n
  OBVIOUS
<1>1. ~StrongLtr(u[t]) /\ ~Soft(u[t]) /\ ~Weak(u[t]) /\ swapped(u[t]) = u[t]
  BY <1>0, RuneClasses, SwapKeepsClass
<1>2. Opened(u, a, z, t, t + 1)
  <2>1. ASSUME NEW k \in a .. t - 1, StrongRtl(u[k]) PROVE \E j \in k + 1 .. t - 1 : StrongLtr(u[j])
    <3>1. PICK j \in k + 1 .. t : StrongLtr(u[j])
      BY <2>1 DEF OutsideAt
    <3>2. j # t
      BY <1>1, <3>1
    <3>3. j \in k + 1 .. t - 1
      BY <1>0, <3>2
    <3> QED BY <3>1, <3>3
  <2>2. t \in a .. (t + 1) - 1 /\ \A k \in t .. (t + 1) - 1 : k = t
    BY <1>0
  <2> QED BY <1>0, <1>1, <2>1, <2>2 DEF Opened
<1>3. Folded(u, w, t, t + 1, Ends(u, t, t + 1))
  <2>1. SUFFICES ASSUME NEW p \in t .. (t + 1) - 1
                 PROVE  Source(u, t, Ends(u, t, t + 1), p, p) /\ w[p] = swapped(u[p])
    BY DEF Folded
  <2>2. p = t /\ w[t] = u[t]
    BY <1>0 DEF OutsideAt
  <2>3. ASSUME NEW c, NEW b \in t + 1 .. c - 1 PROVE t \notin b .. c - 1
    BY <1>0
  <2> QED BY <1>1, <2>2, <2>3 DEF Source
<1>4. OpenRun(u, t, t + 1, NULL)
  BY <1>0, <1>1 DEF OpenRun
<1>5. TurnedBefore(u, w, a, z, t) /\ \A i \in t + 1 .. n : w[i] = u[i]
  BY <1>0 DEF OutsideAt
<1> QED BY <1>2, <1>3, <1>4, <1>5 DEF InSpanAt

LEMMA StepContinue ==
  ASSUME NEW n \in Nat, NEW u \in [1 .. n -> Nat], NEW a \in 1 .. n + 1, NEW z \in a .. n + 1,
         NEW w \in [1 .. n -> Nat], NEW t \in a .. z - 1, NEW s, NEW k \in Nat,
         InSpanAt(n, u, w, a, z, s, t, k), Soft(u[t]),
         t + 1 < z /\ StrongLtr(u[t + 1]) => Ctl(u[t + 1])
  PROVE  InSpanAt(n, u, apply_swaps(w, t), a, z, s, t + 1,
                  IF Weak(u[t]) /\ k = NULL THEN t ELSE k)
<1> DEFINE v == apply_swaps(w, t)
           m == IF Weak(u[t]) /\ k = NULL THEN t ELSE k
<1>0. t \in Nat /\ a <= t /\ t < z /\ u[t] \in Nat /\ (t + 1) - 1 = t /\ t \in 1 .. n /\ t \in a .. z
  OBVIOUS
<1>1. Opened(u, a, z, s, t) /\ Folded(u, w, s, t, Ends(u, s, t)) /\ OpenRun(u, s, t, k)
      /\ TurnedBefore(u, w, a, z, s) /\ \A i \in t .. n : w[i] = u[i]
  BY DEF InSpanAt
<1>2. /\ s \in Nat /\ a <= s /\ s < t /\ s \in a .. z /\ s \in 1 .. n /\ t \in s + 1 .. n + 1
      /\ \A i \in a .. s - 1 : StrongRtl(u[i]) => \E j \in i + 1 .. s - 1 : StrongLtr(u[j])
  BY <1>0, <1>1 DEF Opened
<1>3. \A i \in 1 .. n : v[i] = IF i = t THEN swapped(u[t]) ELSE w[i]
  BY <1>0, <1>1 DEF apply_swaps
<1>4. ~StrongLtr(u[t]) /\ ~StrongRtl(u[t])
  BY <1>0, RuneClasses
<1>5. Opened(u, a, z, s, t + 1)
  <2>1. s \in a .. (t + 1) - 1 /\ t + 1 <= z /\ \A i \in s .. (t + 1) - 1 : i \in s .. t - 1 \/ i = t
    BY <1>0, <1>2
  <2> QED BY <1>0, <1>1, <1>2, <1>4, <2>1 DEF Opened
<1> HIDE DEF v, m
<1>6. Folded(u, v, s, t + 1, Ends(u, s, t + 1))
  <2>1. Ends(u, s, t + 1) = Ends(u, s, t)
    <3>1. s \in Int /\ t \in Int /\ s <= t
      BY <1>0, <1>2
    <3>2. s .. (t + 1) - 1 = (s .. t - 1) \union {t}
      BY ONLY <3>1
    <3> QED BY <1>4, <3>2 DEF Ends
  <2>2. ASSUME NEW p \in s .. t - 1
        PROVE  \E q \in s .. (t + 1) - 1 : Source(u, s, Ends(u, s, t), p, q) /\ v[p] = swapped(u[q])
    <3>1. PICK q \in s .. t - 1 : Source(u, s, Ends(u, s, t), p, q) /\ w[p] = swapped(u[q])
      BY <1>1 DEF Folded
    <3>2. v[p] = w[p] /\ q \in s .. (t + 1) - 1
      BY <1>0, <1>2, <1>3
    <3> QED BY <3>1, <3>2
  <2>3. Source(u, s, Ends(u, s, t), t, t) /\ v[t] = swapped(u[t]) /\ t \in s .. (t + 1) - 1
    <3>1. ASSUME NEW c \in Ends(u, s, t), NEW b \in s + 1 .. c - 1 PROVE t \notin b .. c - 1
      BY <1>0, <1>2 DEF Ends
    <3>2. Source(u, s, Ends(u, s, t), t, t)
      BY <3>1 DEF Source
    <3>3. v[t] = swapped(u[t])
      BY <1>0, <1>3
    <3>4. t \in s .. (t + 1) - 1
      BY <1>0, <1>2
    <3> QED BY <3>2, <3>3, <3>4
  <2>4. \A p \in s .. (t + 1) - 1 : p \in s .. t - 1 \/ p = t
    BY <1>0, <1>2
  <2> QED BY <2>1, <2>2, <2>3, <2>4 DEF Folded
<1>7. OpenRun(u, s, t + 1, m)
  <2>1. CASE k # NULL
    <3>1. m = k /\ NumeralRun(u, s, k, t)
      BY <1>1, <2>1 DEF m, OpenRun
    <3>2. \A i \in k .. (t + 1) - 1 : i \in k .. t - 1 \/ i = t
      BY <1>0, <1>2
    <3>3. k < t + 1
      BY <1>0, <3>1 DEF NumeralRun
    <3> QED BY <2>1, <3>1, <3>2, <3>3 DEF OpenRun, NumeralRun
  <2>2. CASE k = NULL /\ Weak(u[t])
    <3>1. m = t /\ t # NULL
      BY <1>0, <2>2 DEF m, NULL
    <3>2. \A i \in t .. (t + 1) - 1 : i = t
      BY <1>0
    <3>3. NumeralRun(u, s, t, t + 1)
      BY <1>0, <1>1, <1>2, <2>2, <3>2 DEF NumeralRun, OpenRun
    <3> QED BY <3>1, <3>3 DEF OpenRun
  <2>3. CASE k = NULL /\ ~Weak(u[t])
    <3>1. m = NULL
      BY <2>3 DEF m
    <3>2. ASSUME NEW i \in s .. (t + 1) - 1, Weak(u[i]) PROVE \E j \in i + 1 .. (t + 1) - 1 : StrongRtl(u[j])
      <4>1. i \in s .. t - 1
        BY <1>0, <1>2, <2>3, <3>2
      <4>2. PICK j \in i + 1 .. t - 1 : StrongRtl(u[j])
        BY <1>1, <2>3, <3>2, <4>1 DEF OpenRun
      <4>3. j \in i + 1 .. (t + 1) - 1
        BY <1>0, <4>1
      <4> QED BY <4>2, <4>3
    <3> QED BY <3>1, <3>2 DEF OpenRun
  <2> QED BY <2>1, <2>2, <2>3
<1>8. TurnedBefore(u, v, a, z, s)
  <2>1. \A i \in 1 .. s - 1 : v[i] = w[i]
    BY <1>0, <1>2, <1>3
  <2> QED BY <1>1, <1>2, <2>1, TurnedFrame
<1>9. \A i \in t + 1 .. n : v[i] = u[i]
  BY <1>0, <1>1, <1>3
<1> QED BY <1>5, <1>6, <1>7, <1>8, <1>9 DEF InSpanAt, v, m

LEMMA StepStrong ==
  ASSUME NEW n \in Nat, NEW u \in [1 .. n -> Nat], NEW a \in 1 .. n + 1, NEW z \in a .. n + 1,
         NEW w \in [1 .. n -> Nat], NEW t \in a .. z - 1, NEW s, NEW k \in Nat,
         InSpanAt(n, u, w, a, z, s, t, k), StrongRtl(u[t])
  PROVE  InSpanAt(n, u, IF k # NULL THEN reverse_span(w, k, t) ELSE w, a, z, s, t + 1, NULL)
<1> DEFINE v == IF k # NULL THEN reverse_span(w, k, t) ELSE w
<1>0. t \in Nat /\ a <= t /\ t < z /\ u[t] \in Nat /\ (t + 1) - 1 = t /\ t \in 1 .. n /\ t \in a .. z
  OBVIOUS
<1>1. Opened(u, a, z, s, t) /\ Folded(u, w, s, t, Ends(u, s, t)) /\ OpenRun(u, s, t, k)
      /\ TurnedBefore(u, w, a, z, s) /\ \A i \in t .. n : w[i] = u[i]
  BY DEF InSpanAt
<1>2. /\ s \in Nat /\ a <= s /\ s < t /\ s \in a .. z /\ s \in 1 .. n /\ t \in s + 1 .. n + 1
      /\ \A i \in a .. s - 1 : StrongRtl(u[i]) => \E j \in i + 1 .. s - 1 : StrongLtr(u[j])
  BY <1>0, <1>1 DEF Opened
<1>3. \A i \in 1 .. n : i < s \/ i >= t => v[i] = w[i]
  <2>1. k # NULL => s < k
    BY <1>1 DEF OpenRun, NumeralRun
  <2> QED BY <1>0, <1>2, <2>1 DEF reverse_span
<1>4. ~StrongLtr(u[t]) /\ ~Soft(u[t]) /\ ~Weak(u[t]) /\ swapped(u[t]) = u[t]
  BY <1>0, RuneClasses, SwapKeepsClass
<1>5. Opened(u, a, z, s, t + 1)
  <2>1. s \in a .. (t + 1) - 1 /\ t + 1 <= z /\ \A i \in s .. (t + 1) - 1 : i \in s .. t - 1 \/ i = t
    BY <1>0, <1>2
  <2> QED BY <1>0, <1>1, <1>2, <1>4, <2>1 DEF Opened
<1>6. Folded(u, v, s, t, Ends(u, s, t) \union {t})
  <2>1. /\ k # NULL => NumeralRun(u, s, k, t)
        /\ k = NULL => \A i \in s .. t - 1 : Weak(u[i]) => \E j \in i + 1 .. t - 1 : StrongRtl(u[j])
    BY <1>1 DEF OpenRun
  <2> QED BY <1>1, <1>2, <2>1, CloseRun
<1> HIDE DEF v
<1>7. Folded(u, v, s, t + 1, Ends(u, s, t + 1))
  <2>1. Ends(u, s, t + 1) = Ends(u, s, t) \union {t}
    <3>1. s \in Int /\ t \in Int /\ s <= t
      BY <1>0, <1>2
    <3>2. s .. (t + 1) - 1 = (s .. t - 1) \union {t}
      BY ONLY <3>1
    <3> QED BY <3>2 DEF Ends
  <2>2. ASSUME NEW p \in s .. t - 1
        PROVE  \E q \in s .. (t + 1) - 1 : Source(u, s, Ends(u, s, t + 1), p, q) /\ v[p] = swapped(u[q])
    <3>1. PICK q \in s .. t - 1 : Source(u, s, Ends(u, s, t) \union {t}, p, q) /\ v[p] = swapped(u[q])
      BY <1>6 DEF Folded
    <3>2. q \in s .. (t + 1) - 1
      BY <1>0, <1>2
    <3> QED BY <2>1, <3>1, <3>2
  <2>3. Source(u, s, Ends(u, s, t + 1), t, t) /\ v[t] = swapped(u[t]) /\ t \in s .. (t + 1) - 1
    <3>1. ASSUME NEW c \in Ends(u, s, t + 1), NEW b \in s + 1 .. c - 1 PROVE t \notin b .. c - 1
      BY <1>0, <1>2 DEF Ends
    <3>2. v[t] = u[t]
      BY <1>0, <1>1, <1>3
    <3> QED BY <1>0, <1>2, <1>4, <3>1, <3>2 DEF Source
  <2>4. \A p \in s .. (t + 1) - 1 : p \in s .. t - 1 \/ p = t
    BY <1>0, <1>2
  <2> QED BY <2>2, <2>3, <2>4 DEF Folded
<1>8. OpenRun(u, s, t + 1, NULL)
  <2>1. ASSUME NEW i \in s .. (t + 1) - 1, Weak(u[i]) PROVE \E j \in i + 1 .. (t + 1) - 1 : StrongRtl(u[j])
    <3>1. i # t
      BY <1>4, <2>1
    <3>2. t \in i + 1 .. (t + 1) - 1
      BY <1>0, <1>2, <3>1
    <3> QED BY <3>2
  <2> QED BY <2>1 DEF OpenRun
<1>9. TurnedBefore(u, v, a, z, s)
  <2> HIDE DEF v
  <2>0. \A i \in 1 .. s - 1 : i \in 1 .. n /\ i < s
    BY <1>2
  <2>1. \A i \in 1 .. s - 1 : v[i] = w[i]
    BY <1>3, <2>0
  <2> QED BY <1>1, <1>2, <2>1, TurnedFrame
<1>10. \A i \in t + 1 .. n : v[i] = u[i]
  BY <1>0, <1>1, <1>3
<1> QED BY <1>5, <1>7, <1>8, <1>9, <1>10 DEF InSpanAt, v

\* At the end e of a span the open run of numerals is reversed, unless a
\* neutral or a numeral ends the span; then the span is.
RunClosed(u, w, z, e, k) ==
  IF k # NULL /\ (e = z \/ StrongLtr(u[e])) THEN reverse_span(w, k, e) ELSE w

LEMMA TurnRun ==
  ASSUME NEW n \in Nat, NEW u \in [1 .. n -> Nat], NEW a \in 1 .. n + 1, NEW z \in a .. n + 1,
         NEW w \in [1 .. n -> Nat], NEW e \in a .. z, NEW s \in Nat, NEW k \in Nat,
         InSpanAt(n, u, w, a, z, s, e, k)
  PROVE  /\ RunClosed(u, w, z, e, k) \in [1 .. n -> Nat]
         /\ \A i \in 1 .. n : i < s \/ i >= e => RunClosed(u, w, z, e, k)[i] = w[i]
         /\ Folded(u, RunClosed(u, w, z, e, k), s, e, LastEnds(u, z, s, e))
<1> DEFINE x == RunClosed(u, w, z, e, k)
<1>0. x = IF k # NULL /\ (e = z \/ StrongLtr(u[e])) THEN reverse_span(w, k, e) ELSE w
  BY DEF RunClosed
<1> HIDE DEF x
<1>1. Opened(u, a, z, s, e) /\ Folded(u, w, s, e, Ends(u, s, e)) /\ OpenRun(u, s, e, k)
  BY DEF InSpanAt
<1>2. /\ a <= s /\ s < e /\ s \in a .. z /\ s \in 1 .. n /\ e \in s + 1 .. n + 1
  BY <1>1 DEF Opened
<1>3. /\ x \in [1 .. n -> Nat]
      /\ \A i \in 1 .. n : i < s \/ i >= e => x[i] = w[i]
      /\ Folded(u, x, s, e, LastEnds(u, z, s, e))
  <2>1. CASE e = z \/ StrongLtr(u[e])
    <3>1. /\ k # NULL => NumeralRun(u, s, k, e)
          /\ k = NULL => \A i \in s .. e - 1 : Weak(u[i]) => \E j \in i + 1 .. e - 1 : StrongRtl(u[j])
      BY <1>1 DEF OpenRun
    <3>2. Folded(u, IF k # NULL THEN reverse_span(w, k, e) ELSE w, s, e, Ends(u, s, e) \union {e})
      BY <1>1, <1>2, <3>1, CloseRun
    <3>3. LastEnds(u, z, s, e) = Ends(u, s, e) \union {e}
      BY <2>1 DEF LastEnds
    <3>4. x = IF k # NULL THEN reverse_span(w, k, e) ELSE w
      BY <1>0, <2>1
    <3>5. Folded(u, x, s, e, LastEnds(u, z, s, e))
      BY <3>2, <3>3, <3>4
    <3>6. CASE k = NULL
      BY <3>4, <3>5, <3>6
    <3>7. CASE k # NULL
      <4>1. s < k /\ k < e
        BY <3>1, <3>7 DEF NumeralRun
      <4>2. k \in 1 .. n + 1 /\ e \in 0 .. n + 1 /\ x = reverse_span(w, k, e)
        BY <1>2, <3>4, <3>7, <4>1
      <4>3. /\ reverse_span(w, k, e) \in [1 .. n -> Nat]
            /\ \A i \in 1 .. n : ~(k <= i /\ i < e) => reverse_span(w, k, e)[i] = w[i]
        BY <4>2, ReverseSpec, ZenonT(30)
      <4>4. \A i \in 1 .. n : i < s \/ i >= e => ~(k <= i /\ i < e)
        BY <1>2, <4>1
      <4> QED BY <3>5, <4>2, <4>3, <4>4, Zenon
    <3> QED BY <3>6, <3>7
  <2>2. CASE ~(e = z \/ StrongLtr(u[e]))
    <3>1. LastEnds(u, z, s, e) = Ends(u, s, e) /\ x = w
      BY <1>0, <2>2 DEF LastEnds
    <3> QED BY <1>1, <3>1
  <2> QED BY <2>1, <2>2
<1> QED BY <1>3 DEF x

\* In the buffer x the runs of the span are reversed, in v the span too.
Reversing(n, u, a, z, w, e, s, x, v) ==
  /\ n \in Nat /\ u \in [1 .. n -> Nat] /\ a \in 1 .. n + 1 /\ z \in a .. n + 1
  /\ w \in [1 .. n -> Nat] /\ e \in a .. z /\ s \in Nat
  /\ TurnedBefore(u, w, a, z, s) /\ \A i \in e .. n : w[i] = u[i]
  /\ LineSpan(u, a, z, s, e)
  /\ x \in [1 .. n -> Nat] /\ \A i \in 1 .. n : i < s \/ i >= e => x[i] = w[i]
  /\ Folded(u, x, s, e, LastEnds(u, z, s, e))
  /\ v \in [1 .. n -> Nat]
  /\ \A i \in 1 .. n : v[i] = IF s <= i /\ i < e THEN x[s + e - 1 - i] ELSE x[i]

TurnedUpTo(n, u, v, a, z, e) == TurnedBefore(u, v, a, z, e) /\ \A i \in e .. n : v[i] = u[i]

LEMMA TurnSpan ==
  ASSUME NEW n, NEW u, NEW a, NEW z, NEW w, NEW e, NEW s, NEW x, NEW v,
         Reversing(n, u, a, z, w, e, s, x, v)
  PROVE  TurnedUpTo(n, u, v, a, z, e)
<1> SUFFICES
      ASSUME n \in Nat, u \in [1 .. n -> Nat], a \in 1 .. n + 1, z \in a .. n + 1,
             w \in [1 .. n -> Nat], e \in a .. z, s \in Nat,
             TurnedBefore(u, w, a, z, s), \A i \in e .. n : w[i] = u[i],
             LineSpan(u, a, z, s, e),
             x \in [1 .. n -> Nat], \A i \in 1 .. n : i < s \/ i >= e => x[i] = w[i],
             Folded(u, x, s, e, LastEnds(u, z, s, e)),
             v \in [1 .. n -> Nat],
             \A i \in 1 .. n : v[i] = IF s <= i /\ i < e THEN x[s + e - 1 - i] ELSE x[i]
      PROVE  TurnedBefore(u, v, a, z, e) /\ \A i \in e .. n : v[i] = u[i]
  BY DEF Reversing, TurnedUpTo
<1>2. /\ a <= s /\ s < e /\ s \in a .. z /\ s \in 1 .. n /\ e \in s + 1 .. n + 1 /\ e \in Nat /\ 1 <= a
  BY DEF LineSpan
<1>3. \A i \in a .. s - 1 : StrongRtl(u[i]) => \E j \in i + 1 .. s - 1 : StrongLtr(u[j])
  BY Zenon DEF LineSpan
<1>6. Turned(u, v, z, s, e)
  <2>1. SUFFICES ASSUME NEW p \in s .. e - 1
                 PROVE  \E q \in s .. e - 1 : Source(u, s, LastEnds(u, z, s, e), p, q)
                                              /\ v[s + e - 1 - p] = swapped(u[q])
    BY DEF Turned
  <2>2. s + e - 1 - p \in 1 .. n /\ s <= s + e - 1 - p /\ s + e - 1 - p < e /\ s + e - 1 - (s + e - 1 - p) = p
    BY <1>2
  <2>3. v[s + e - 1 - p] = x[p]
    BY <2>2
  <2> QED BY <2>3 DEF Folded
<1>7. TurnedBefore(u, v, a, z, s)
  <2>1. \A i \in 1 .. s - 1 : v[i] = w[i]
    BY <1>2
  <2> QED BY <1>2, <1>3, <2>1, TurnedFrame, ZenonT(30)
<1>8. ASSUME NEW s2 \in Nat, NEW e2 \in Nat, LineSpan(u, a, z, s2, e2), s2 < e
      PROVE  Turned(u, v, z, s2, e2)
  <2>1. CASE s2 < s
    BY <1>7, <1>8, <2>1 DEF TurnedBefore
  <2>2. CASE s <= s2 /\ s2 < e
    <3>1. s < e2 /\ s2 < e
      BY <1>2, <1>8, <2>2 DEF LineSpan
    <3>2. s2 = s /\ e2 = e
      BY <1>2, <1>8, <3>1, SpanUnique
    <3> QED BY <1>6, <3>2
  <2> QED BY <1>2, <1>8, <2>1, <2>2
<1>9. \A i \in e .. n : v[i] = u[i]
  BY <1>2
<1>10. ASSUME NEW i \in 1 .. e - 1, \A s2, e2 \in Nat : LineSpan(u, a, z, s2, e2) => i \notin s2 .. e2 - 1
       PROVE  v[i] = u[i]
  <2>1. i \notin s .. e - 1 /\ i \in 1 .. n
    BY <1>2, <1>10
  <2>2. CASE i < s
    BY <1>2, <1>7, <1>10, <2>2 DEF TurnedBefore
  <2>3. CASE i >= e
    BY <1>2, <1>9, <2>1, <2>3
  <2> QED BY <1>2, <2>1, <2>2, <2>3
<1> QED BY <1>8, <1>9, <1>10 DEF TurnedBefore

SpanClosed(u, w, z, s, e, k) == reverse_span(RunClosed(u, w, z, e, k), s, e)

LEMMA CloseTurns ==
  ASSUME NEW n \in Nat, NEW u \in [1 .. n -> Nat], NEW a \in 1 .. n + 1, NEW z \in a .. n + 1,
         NEW w \in [1 .. n -> Nat], NEW e \in a .. z, NEW s \in Nat, NEW k \in Nat,
         InSpanAt(n, u, w, a, z, s, e, k),
         LineSpan(u, a, z, s, e)
  PROVE  /\ SpanClosed(u, w, z, s, e, k) \in [1 .. n -> Nat]
         /\ TurnedUpTo(n, u, SpanClosed(u, w, z, s, e, k), a, z, e)
<1> DEFINE x == RunClosed(u, w, z, e, k)
           v == reverse_span(x, s, e)
<1>1. /\ x \in [1 .. n -> Nat]
      /\ \A i \in 1 .. n : i < s \/ i >= e => x[i] = w[i]
      /\ Folded(u, x, s, e, LastEnds(u, z, s, e))
  BY TurnRun
<1>2. TurnedBefore(u, w, a, z, s) /\ \A i \in e .. n : w[i] = u[i]
  BY DEF InSpanAt
<1>3. s \in 1 .. n + 1 /\ e \in 0 .. n + 1
  BY DEF LineSpan
<1> HIDE DEF x
<1>4. v \in [1 .. n -> Nat]
  BY <1>1, <1>3, ReverseSpec
<1>5. \A i \in 1 .. n : v[i] = IF s <= i /\ i < e THEN x[s + e - 1 - i] ELSE x[i]
  BY <1>1 DEF reverse_span
<1> HIDE DEF v
<1>6. Reversing(n, u, a, z, w, e, s, x, v)
  BY <1>1, <1>2, <1>4, <1>5 DEF Reversing
<1>7. TurnedUpTo(n, u, v, a, z, e)
  BY ONLY <1>6, TurnSpan
<1> QED BY <1>4, <1>7 DEF v, x, SpanClosed

\* A rune that is not RTL opens no span.
LEMMA TurnedNext ==
  ASSUME NEW n \in Nat, NEW u \in [1 .. n -> Nat], NEW a \in 1 .. n + 1, NEW z \in a .. n + 1,
         NEW w, NEW t \in a .. z - 1,
         TurnedBefore(u, w, a, z, t), ~StrongRtl(u[t]), w[t] = u[t]
  PROVE  TurnedBefore(u, w, a, z, t + 1)
<1>0. t \in Nat /\ (t + 1) - 1 = t
  OBVIOUS
<1>2. ASSUME NEW s \in Nat, NEW e \in Nat, LineSpan(u, a, z, s, e), s < t + 1 PROVE Turned(u, w, z, s, e)
  <2>1. s # t
    BY <1>2 DEF LineSpan
  <2>2. s < t
    BY <1>0, <1>2, <2>1
  <2> QED BY <1>2, <2>2 DEF TurnedBefore
<1>3. ASSUME NEW i \in 1 .. (t + 1) - 1,
             \A s, e \in Nat : LineSpan(u, a, z, s, e) => i \notin s .. e - 1
      PROVE  w[i] = u[i]
  <2>1. i \in 1 .. t - 1 \/ i = t
    BY <1>0
  <2> QED BY <1>3, <2>1 DEF TurnedBefore
<1> QED BY <1>2, <1>3 DEF TurnedBefore

LEMMA StepClose ==
  ASSUME NEW n \in Nat, NEW u \in [1 .. n -> Nat], NEW a \in 1 .. n + 1, NEW z \in a .. n + 1,
         NEW w \in [1 .. n -> Nat], NEW t \in a .. z - 1, NEW s \in Nat, NEW k \in Nat,
         InSpanAt(n, u, w, a, z, s, t, k),
         StrongLtr(u[t]) \/ (Soft(u[t]) /\ t + 1 < z /\ StrongLtr(u[t + 1]) /\ ~Ctl(u[t + 1]))
  PROVE  OutsideAt(n, u, SpanClosed(u, w, z, s, t, k), a, z, t + 1)
<1> DEFINE v == SpanClosed(u, w, z, s, t, k)
<1> HIDE DEF v
<1>0. t \in Nat /\ a <= t /\ t < z /\ u[t] \in Nat /\ (t + 1) - 1 = t /\ t \in 1 .. n /\ t \in a .. z
      /\ t + 1 \in t .. z /\ t # z
  OBVIOUS
<1>1. Opened(u, a, z, s, t)
  BY DEF InSpanAt
<1>2. s \in Nat /\ a <= s /\ s < t
  BY <1>0, <1>1 DEF Opened
<1>3. LineSpan(u, a, z, s, t)
  BY <1>0, <1>1, <1>2 DEF Opened, LineSpan
<1>4. ~StrongRtl(u[t])
  BY <1>0, RuneClasses
<1>5. TurnedBefore(u, v, a, z, t) /\ \A i \in t .. n : v[i] = u[i]
  <2>1. t \in a .. z
    BY <1>0
  <2>2. TurnedUpTo(n, u, SpanClosed(u, w, z, s, t, k), a, z, t)
    BY <1>3, <2>1, CloseTurns
  <2> QED BY <2>2 DEF TurnedUpTo, v
<1>6. t \in t .. n
  BY <1>0
<1>7. TurnedBefore(u, v, a, z, t + 1)
  BY <1>4, <1>5, <1>6, TurnedNext
<1>8. ASSUME NEW i \in a .. (t + 1) - 1, StrongRtl(u[i]) PROVE \E j \in i + 1 .. t + 1 : StrongLtr(u[j])
  <2>1. t \in i + 1 .. t + 1 /\ t + 1 \in i + 1 .. t + 1
    BY <1>0, <1>4, <1>8
  <2> QED BY <2>1
<1>9. \A i \in t + 1 .. n : i \in t .. n
  BY <1>0
<1>10. OutsideAt(n, u, v, a, z, t + 1)
  BY <1>5, <1>7, <1>8, <1>9 DEF OutsideAt
<1> QED BY <1>10 DEF v

LEMMA StepEnd ==
  ASSUME NEW n \in Nat, NEW u \in [1 .. n -> Nat], NEW a \in 1 .. n + 1, NEW z \in a .. n + 1,
         NEW w \in [1 .. n -> Nat], NEW s \in Nat, NEW k \in Nat,
         InSpanAt(n, u, w, a, z, s, z, k)
  PROVE  Pass(n, u, SpanClosed(u, w, z, s, z, k), a, z)
<1>1. Opened(u, a, z, s, z) /\ z \in Nat /\ z \in a .. z
  BY DEF InSpanAt
<1>3. LineSpan(u, a, z, s, z)
  BY <1>1 DEF Opened, LineSpan
<1>4. SpanClosed(u, w, z, s, z, k) \in [1 .. n -> Nat] /\ TurnedUpTo(n, u, SpanClosed(u, w, z, s, z, k), a, z, z)
  BY <1>1, <1>3, CloseTurns
<1> QED BY <1>4 DEF Pass, TurnedUpTo

LEMMA StepOutside ==
  ASSUME NEW n \in Nat, NEW u \in [1 .. n -> Nat], NEW a \in 1 .. n + 1, NEW z \in a .. n + 1,
         NEW w \in [1 .. n -> Nat], NEW t \in a .. z - 1,
         OutsideAt(n, u, w, a, z, t), ~StrongRtl(u[t])
  PROVE  OutsideAt(n, u, w, a, z, t + 1)
<1>0. t \in Nat /\ a <= t /\ t < z /\ u[t] \in Nat /\ (t + 1) - 1 = t /\ t \in 1 .. n /\ t \in a .. z
  OBVIOUS
<1>1. ASSUME NEW i \in a .. (t + 1) - 1, StrongRtl(u[i]) PROVE \E j \in i + 1 .. t + 1 : StrongLtr(u[j])
  <2>1. i \in a .. t - 1
    BY <1>0, <1>1
  <2>2. PICK j \in i + 1 .. t : StrongLtr(u[j])
    BY <1>1, <2>1 DEF OutsideAt
  <2>3. j \in i + 1 .. t + 1
    BY <1>0, <2>1
  <2> QED BY <2>2, <2>3
<1>2. t \in t .. n
  BY <1>0
<1>3. TurnedBefore(u, w, a, z, t + 1)
  BY <1>2, TurnedNext DEF OutsideAt
<1>4. \A i \in t + 1 .. n : w[i] = u[i]
  BY <1>0 DEF OutsideAt
<1> QED BY <1>1, <1>3, <1>4 DEF OutsideAt

\* The last rune of the line opens no span.
LEMMA StepLast ==
  ASSUME NEW n \in Nat, NEW u \in [1 .. n -> Nat], NEW a \in 1 .. n + 1, NEW z \in a .. n + 1,
         NEW w \in [1 .. n -> Nat], NEW t \in a .. z - 1, t + 1 = z,
         OutsideAt(n, u, w, a, z, t)
  PROVE  Pass(n, u, w, a, z)
<1>0. t \in Nat /\ a <= t /\ t < z /\ u[t] \in Nat /\ z - 1 = t /\ t \in 1 .. n /\ t \in a .. z /\ t \in t .. n
  OBVIOUS
<1>1. CASE ~StrongRtl(u[t])
  <2>1. OutsideAt(n, u, w, a, z, t + 1)
    BY <1>1, StepOutside
  <2> QED BY <2>1 DEF OutsideAt, Pass
<1>2. CASE StrongRtl(u[t])
  <2>1. ASSUME NEW s \in Nat, NEW e \in Nat, LineSpan(u, a, z, s, e), s < z PROVE Turned(u, w, z, s, e)
    <3>1. CASE s < t
      BY <2>1, <3>1 DEF OutsideAt, TurnedBefore
    <3>2. CASE s = t
      <4>0. s < e /\ e <= z /\ s \in Nat /\ e \in Nat
        BY <2>1 DEF LineSpan
      <4>1. e = z /\ s .. e - 1 = {t} /\ s + e - 1 - t = t
        BY <1>0, <3>2, <4>0
      <4>2. w[t] = u[t] /\ swapped(u[t]) = u[t]
        BY <1>0, <1>2, SwapKeepsClass DEF OutsideAt
      <4>3. ASSUME NEW c, NEW b \in s + 1 .. c - 1 PROVE t \notin b .. c - 1
        BY <1>0, <3>2
      <4>4. Source(u, s, LastEnds(u, z, s, e), t, t)
        BY <4>3 DEF Source
      <4> QED BY <4>1, <4>2, <4>4 DEF Turned
    <3> QED BY <1>0, <2>1, <3>1, <3>2
  <2>2. ASSUME NEW i \in 1 .. z - 1,
               \A s, e \in Nat : LineSpan(u, a, z, s, e) => i \notin s .. e - 1
        PROVE  w[i] = u[i]
    <3>1. i \in 1 .. t - 1 \/ i = t
      BY <1>0
    <3> QED BY <1>0, <2>2, <3>1 DEF OutsideAt, TurnedBefore
  <2>3. \A i \in z .. n : w[i] = u[i]
    BY <1>0 DEF OutsideAt
  <2> QED BY <2>1, <2>2, <2>3 DEF TurnedBefore, Pass
<1> QED BY <1>1, <1>2

-----------------------------------------------------------------------------
(* What a pass leaves of the classes of the runes.                         *)

\* The rune that comes to k is of the class of the one at the mirror position.
MirrorAt(u, v, s, e, k) ==
  /\ s + e - 1 - k \in s .. e - 1
  /\ ~StrongLtr(v[k])
  /\ StrongRtl(v[k]) <=> StrongRtl(u[s + e - 1 - k])
  /\ Soft(v[k]) <=> Soft(u[s + e - 1 - k])
Mirrors(u, v, s, e) == \A k \in s .. e - 1 : MirrorAt(u, v, s, e, k)

\* A closed span: the rune at k is of the kind of its mirror image.
LEMMA TurnedAt ==
  ASSUME NEW n \in Nat, NEW u \in [1 .. n -> Nat], NEW a \in 1 .. n + 1, NEW z \in a .. n + 1,
         NEW v \in [1 .. n -> Nat], NEW s \in Nat, NEW e \in Nat,
         LineSpan(u, a, z, s, e), Turned(u, v, z, s, e), NEW k \in s .. e - 1
  PROVE  /\ \E q \in s .. e - 1 :
              Source(u, s, LastEnds(u, z, s, e), s + e - 1 - k, q) /\ v[k] = swapped(u[q])
         /\ MirrorAt(u, v, s, e, k)
<1> DEFINE p == s + e - 1 - k
           C == LastEnds(u, z, s, e)
<1>0. /\ s < e /\ s \in 1 .. n /\ e \in s .. n + 1
      /\ \A i \in s .. e - 1 : ~StrongLtr(u[i])
  BY SpanBounds
<1>1. /\ p \in s .. e - 1 /\ s + e - 1 - p = k
      /\ s \in 1 .. n /\ e \in s .. n + 1 /\ k \in 1 .. n
      /\ \A i \in s .. e - 1 : ~StrongLtr(u[i])
  BY <1>0
<1>2. EndsOK(u, s, e, C)
  BY <1>1, EndsAreOK
<1> HIDE DEF p, C
<1>3. PICK q \in s .. e - 1 : Source(u, s, C, p, q) /\ v[k] = swapped(u[q])
  BY <1>1 DEF Turned, C
<1>4. q = p \/ (Soft(u[p]) /\ Soft(u[q]))
  BY <1>1, <1>2, <1>3, SourceKind
<1>5. u[q] \in Nat /\ u[p] \in Nat /\ ~StrongLtr(u[q])
  BY <1>1
<1>6. /\ StrongRtl(v[k]) <=> StrongRtl(u[q])
      /\ StrongLtr(v[k]) <=> StrongLtr(u[q])
      /\ Soft(v[k]) <=> Soft(u[q])
  BY <1>3, <1>5, SwapKeepsClass
<1>7. /\ StrongRtl(u[q]) <=> StrongRtl(u[p])
      /\ Soft(u[q]) <=> Soft(u[p])
  BY <1>4, <1>5, RuneClasses
<1> QED BY <1>1, <1>3, <1>5, <1>6, <1>7 DEF p, C, MirrorAt

LEMMA TurnedMirrors ==
  ASSUME NEW n \in Nat, NEW u \in [1 .. n -> Nat], NEW a \in 1 .. n + 1, NEW z \in a .. n + 1,
         NEW v \in [1 .. n -> Nat], NEW s \in Nat, NEW e \in Nat,
         LineSpan(u, a, z, s, e), Turned(u, v, z, s, e)
  PROVE  Mirrors(u, v, s, e)
BY TurnedAt DEF Mirrors

\* A span and what a pass makes of it.
LEMMA PassTurns ==
  ASSUME NEW n \in Nat, NEW u \in [1 .. n -> Nat], NEW a \in 1 .. n + 1, NEW z \in a .. n + 1,
         NEW v, Pass(n, u, v, a, z),
         NEW s \in Nat, NEW e \in Nat, LineSpan(u, a, z, s, e)
  PROVE  Turned(u, v, z, s, e)
<1>1. s < z
  BY DEF LineSpan
<1> QED BY <1>1 DEF Pass, TurnedBefore

InSpan(u, a, z, k) == \E s, e \in Nat : LineSpan(u, a, z, s, e) /\ k \in s .. e - 1

LEMMA PassOutside ==
  ASSUME NEW n \in Nat, NEW u \in [1 .. n -> Nat], NEW a \in 1 .. n + 1, NEW z \in a .. n + 1,
         NEW v, Pass(n, u, v, a, z), NEW k \in 1 .. n, ~InSpan(u, a, z, k)
  PROVE  v[k] = u[k]
<1>1. CASE k < z
  <2>1. k \in 1 .. z - 1
    BY <1>1
  <2> QED BY <2>1 DEF Pass, TurnedBefore, InSpan
<1>2. CASE k >= z
  <2>1. k \in z .. n
    BY <1>2
  <2> QED BY <2>1 DEF Pass
<1> QED BY <1>1, <1>2

\* Left-to-right runes stay where they are, and no others come up.
LEMMA PassLtr ==
  ASSUME NEW n \in Nat, NEW u \in [1 .. n -> Nat], NEW a \in 1 .. n + 1, NEW z \in a .. n + 1,
         NEW v, Pass(n, u, v, a, z), NEW k \in 1 .. n
  PROVE  /\ StrongLtr(v[k]) <=> StrongLtr(u[k])
         /\ StrongLtr(u[k]) => v[k] = u[k]
<1>0. v \in [1 .. n -> Nat]
  BY DEF Pass
<1>1. CASE InSpan(u, a, z, k)
  <2>1. PICK s \in Nat, e \in Nat : LineSpan(u, a, z, s, e) /\ k \in s .. e - 1
    BY <1>1 DEF InSpan
  <2>2. ~StrongLtr(u[k])
    BY <2>1 DEF LineSpan
  <2>3. Turned(u, v, z, s, e)
    BY <2>1, PassTurns
  <2>m. Mirrors(u, v, s, e)
    BY <1>0, <2>1, <2>3, TurnedMirrors
  <2>4. ~StrongLtr(v[k])
    BY <2>1, <2>m DEF Mirrors, MirrorAt
  <2> QED BY <2>2, <2>4
<1>2. CASE ~InSpan(u, a, z, k)
  BY <1>2, PassOutside
<1> QED BY <1>1, <1>2

\* Each rune after a pass is one before it, or the other bracket of its pair.
Stems(n, u, r) == \E i \in 1 .. n : r = u[i] \/ r = swapped(u[i])

LEMMA PassFrom ==
  ASSUME NEW n \in Nat, NEW u \in [1 .. n -> Nat], NEW a \in 1 .. n + 1, NEW z \in a .. n + 1,
         NEW v, Pass(n, u, v, a, z), NEW k \in 1 .. n
  PROVE  Stems(n, u, v[k])
<1>0. v \in [1 .. n -> Nat]
  BY DEF Pass
<1>1. CASE InSpan(u, a, z, k)
  <2>1. PICK s \in Nat, e \in Nat : LineSpan(u, a, z, s, e) /\ k \in s .. e - 1
    BY <1>1 DEF InSpan
  <2>2. Turned(u, v, z, s, e)
    BY <2>1, PassTurns
  <2>3. PICK q \in s .. e - 1 : v[k] = swapped(u[q])
    <3>1. s + e - 1 - k \in s .. e - 1 /\ s + e - 1 - (s + e - 1 - k) = k
      BY <2>1
    <3> QED BY <2>2, <3>1 DEF Turned
  <2>4. q \in 1 .. n
    BY <2>1 DEF LineSpan
  <2> QED BY <2>3, <2>4 DEF Stems
<1>2. CASE ~InSpan(u, a, z, k)
  BY <1>2, PassOutside DEF Stems
<1> QED BY <1>1, <1>2

\* The ends of a span hold the runes of its other end.
LEMMA PassEdges ==
  ASSUME NEW n \in Nat, NEW u \in [1 .. n -> Nat], NEW a \in 1 .. n + 1, NEW z \in a .. n + 1,
         NEW v, Pass(n, u, v, a, z),
         NEW s \in Nat, NEW e \in Nat, LineSpan(u, a, z, s, e)
  PROVE  StrongRtl(v[e - 1]) /\ (StrongRtl(u[e - 1]) => StrongRtl(v[s]))
<1>0. v \in [1 .. n -> Nat]
  BY DEF Pass
<1>1. s \in s .. e - 1 /\ e - 1 \in s .. e - 1 /\ s + e - 1 - (e - 1) = s /\ s + e - 1 - s = e - 1
      /\ StrongRtl(u[s])
  BY DEF LineSpan
<1>2. Turned(u, v, z, s, e)
  BY PassTurns
<1>3. Mirrors(u, v, s, e)
  BY <1>0, <1>2, TurnedMirrors
<1>4. \A k \in s .. e - 1 : StrongRtl(v[k]) <=> StrongRtl(u[s + e - 1 - k])
  BY <1>3 DEF Mirrors, MirrorAt
<1> QED BY <1>1, <1>4

\* The spans after a pass are ends of the spans before it.
LEMMA SpanWithin ==
  ASSUME NEW n \in Nat, NEW u \in [1 .. n -> Nat], NEW a \in 1 .. n + 1, NEW z \in a .. n + 1,
         NEW v, Pass(n, u, v, a, z),
         NEW s2 \in Nat, NEW e2 \in Nat, LineSpan(v, a, z, s2, e2)
  PROVE  \E s \in Nat : LineSpan(u, a, z, s, e2) /\ s <= s2
<1>0. v \in [1 .. n -> Nat]
  BY DEF Pass
<1>1. /\ a <= s2 /\ s2 < e2 /\ e2 <= z /\ StrongRtl(v[s2]) /\ 1 <= a /\ z <= n + 1
      /\ \A i \in s2 .. e2 - 1 : ~StrongLtr(v[i])
  BY DEF LineSpan
<1>2. s2 \in 1 .. n /\ s2 \in a .. z - 1
  BY <1>1
<1>3. InSpan(u, a, z, s2)
  <2>1. SUFFICES ASSUME ~InSpan(u, a, z, s2) PROVE FALSE
    OBVIOUS
  <2>2. v[s2] = u[s2]
    BY <1>2, <2>1, PassOutside
  <2> QED BY <1>1, <1>2, <2>1, <2>2, SpanCovers DEF InSpan
<1>4. PICK s \in Nat, e \in Nat : LineSpan(u, a, z, s, e) /\ s2 \in s .. e - 1
  BY <1>3 DEF InSpan
<1>b. a <= s /\ s < e /\ e <= z /\ \A i \in s .. e - 1 : ~StrongLtr(u[i])
  BY <1>4, SpanBounds
<1>5. /\ a <= s /\ s < e /\ e <= z /\ s <= s2 /\ s2 < e
      /\ \A i \in s .. e - 1 : ~StrongLtr(u[i])
  BY <1>4, <1>b
<1>6. \A k \in 1 .. n : (StrongLtr(v[k]) <=> StrongLtr(u[k])) /\ (StrongLtr(u[k]) => v[k] = u[k])
  BY PassLtr
<1>7. ~(e2 < e)
  <2>1. SUFFICES ASSUME e2 < e PROVE FALSE
    OBVIOUS
  <2>2. e2 # z /\ e2 \in s .. e - 1 /\ e2 \in 1 .. n
    BY <1>1, <1>5, <2>1
  <2>3. ~StrongLtr(v[e2])
    BY <1>5, <1>6, <2>2
  <2>4. e2 + 1 < z /\ Soft(v[e2]) /\ StrongLtr(v[e2 + 1])
    BY <2>2, <2>3 DEF LineSpan
  <2>5. e2 + 1 \in 1 .. n /\ ~(e2 + 1 \in s .. e - 1)
    BY <1>1, <1>5, <1>6, <2>2, <2>4
  <2>6. e2 = e - 1
    BY <2>1, <2>2, <2>5
  <2>7. StrongRtl(v[e - 1])
    BY <1>4, PassEdges
  <2> QED BY <1>0, <2>2, <2>4, <2>6, <2>7, RuneClasses
<1>8. ~(e < e2)
  <2>1. SUFFICES ASSUME e < e2 PROVE FALSE
    OBVIOUS
  <2>2. e # z /\ e \in s2 .. e2 - 1 /\ e \in 1 .. n
    BY <1>1, <1>5, <2>1
  <2>3. ~StrongLtr(u[e])
    BY <1>1, <1>6, <2>2
  <2>4. e + 1 < z /\ Soft(u[e]) /\ StrongLtr(u[e + 1]) /\ ~Ctl(u[e + 1])
    BY <1>4, <2>2, <2>3 DEF LineSpan
  <2>5. e + 1 \in 1 .. n
    BY <1>1, <2>4
  <2>6. StrongLtr(v[e + 1]) /\ v[e + 1] = u[e + 1]
    BY <1>6, <2>4, <2>5
  <2>7. e2 = e + 1
    <3>1. e + 1 \notin s2 .. e2 - 1
      BY <1>1, <2>6
    <3> QED BY <1>1, <1>5, <2>1, <3>1
  <2>8. ~InSpan(u, a, z, e)
    <3>1. SUFFICES ASSUME NEW s3 \in Nat, NEW e3 \in Nat, LineSpan(u, a, z, s3, e3), e \in s3 .. e3 - 1
                   PROVE  FALSE
      BY DEF InSpan
    <3>2. s3 # e
      BY <2>2, <2>4, <3>1, RuneClasses DEF LineSpan
    <3>3. s3 < e /\ s < e3
      BY <1>5, <3>1, <3>2
    <3>4. e3 = e
      <4>1. /\ n \in Nat /\ u \in [1 .. n -> Nat] /\ a \in 1 .. n + 1 /\ z \in a .. n + 1
            /\ s \in Nat /\ e \in Nat /\ s3 \in Nat /\ e3 \in Nat
            /\ LineSpan(u, a, z, s, e) /\ LineSpan(u, a, z, s3, e3)
        BY <1>4, <3>1
      <4> QED BY ONLY <3>3, <4>1, SpanUnique, Zenon
    <3> QED BY <3>1, <3>4
  <2>9. v[e] = u[e] /\ e2 - 1 = e /\ e2 # z
    BY <2>2, <2>4, <2>7, <2>8, PassOutside
  <2>10. ~Soft(v[e2]) /\ Soft(v[e2 - 1]) /\ ~Ctl(v[e2])
    BY <1>0, <2>4, <2>5, <2>6, <2>7, <2>9, RuneClasses
  <2> QED BY <2>9, <2>10 DEF LineSpan
<1>9. e = e2
  BY <1>7, <1>8
<1> QED BY <1>4, <1>5, <1>9

\* A span that ends with an RTL rune is one after the pass as well.
LEMMA SpanKept ==
  ASSUME NEW n \in Nat, NEW u \in [1 .. n -> Nat], NEW a \in 1 .. n + 1, NEW z \in a .. n + 1,
         NEW v, Pass(n, u, v, a, z),
         NEW s \in Nat, NEW e \in Nat, LineSpan(u, a, z, s, e), StrongRtl(u[e - 1])
  PROVE  LineSpan(v, a, z, s, e)
<1>0. v \in [1 .. n -> Nat] /\ s \in a .. z - 1 /\ s < e
  <2>1. v \in [1 .. n -> Nat]
    BY DEF Pass
  <2>2. s \in a .. z - 1 /\ s < e
    BY DEF LineSpan
  <2> QED BY <2>1, <2>2
<1>1. StrongRtl(v[s])
  BY PassEdges
<1>2. PICK s2 \in Nat, e2 \in Nat : LineSpan(v, a, z, s2, e2) /\ s \in s2 .. e2 - 1
  BY <1>0, <1>1, SpanCovers
<1>3. PICK s3 \in Nat : LineSpan(u, a, z, s3, e2) /\ s3 <= s2
  BY <1>2, SpanWithin
<1>4. s < e2 /\ s3 < e
  BY <1>0, <1>2, <1>3
<1>5. s3 = s /\ e2 = e
  BY <1>3, <1>4, SpanUnique
<1>6. s2 = s
  BY <1>2, <1>3, <1>5
<1> QED BY <1>2, <1>5, <1>6

LEMMA SpansSame ==
  ASSUME NEW n \in Nat, NEW u \in [1 .. n -> Nat], NEW a \in 1 .. n + 1, NEW z \in a .. n + 1,
         NEW v, Pass(n, u, v, a, z), Settled(u, a, z),
         NEW s \in Nat, NEW e \in Nat
  PROVE  LineSpan(v, a, z, s, e) <=> LineSpan(u, a, z, s, e)
<1>0. v \in [1 .. n -> Nat]
  BY DEF Pass
<1>1. ASSUME LineSpan(u, a, z, s, e) PROVE LineSpan(v, a, z, s, e)
  <2>1. StrongRtl(u[e - 1])
    BY <1>1 DEF Settled, SettledSpan
  <2> QED BY <1>1, <2>1, SpanKept
<1>2. ASSUME LineSpan(v, a, z, s, e) PROVE LineSpan(u, a, z, s, e)
  <2>1. PICK s3 \in Nat : LineSpan(u, a, z, s3, e) /\ s3 <= s
    BY <1>2, SpanWithin
  <2>2. StrongRtl(u[e - 1])
    BY <2>1 DEF Settled, SettledSpan
  <2>3. LineSpan(v, a, z, s3, e)
    BY <2>1, <2>2, SpanKept
  <2>4. s3 < e /\ s < e
    BY <1>2, <2>1 DEF LineSpan
  <2>5. s3 = s
    BY <1>0, <1>2, <2>3, <2>4, SpanUnique
  <2> QED BY <2>1, <2>5
<1> QED BY <1>1, <1>2

\* A numeral of a closed span comes from a run of numerals with its mirror image.
LEMMA TurnedNumeral ==
  ASSUME NEW n \in Nat, NEW u \in [1 .. n -> Nat], NEW a \in 1 .. n + 1, NEW z \in a .. n + 1,
         NEW v \in [1 .. n -> Nat], NEW s \in Nat, NEW e \in Nat,
         LineSpan(u, a, z, s, e), Turned(u, v, z, s, e),
         NEW k \in s .. e - 1, Weak(v[k])
  PROVE  \E b, c \in s + 1 .. e :
           /\ NumeralRun(u, s, b, c) /\ (c # e => StrongRtl(u[c]))
           /\ b <= s + e - 1 - k /\ s + e - 1 - k < c
<1> DEFINE p == s + e - 1 - k
           C == LastEnds(u, z, s, e)
           D == Ends(u, s, e) \union {e}
<1>0. /\ s < e /\ s \in 1 .. n /\ e \in s .. n + 1 /\ e \in s + 1 .. n + 1
      /\ StrongRtl(u[s]) /\ \A i \in s .. e - 1 : ~StrongLtr(u[i])
  BY SpanBounds
<1>1. /\ p \in s .. e - 1 /\ s + e - 1 - p = k
      /\ s \in 1 .. n /\ e \in s .. n + 1 /\ e \in s + 1 .. n + 1 /\ k \in 1 .. n
      /\ StrongRtl(u[s]) /\ \A i \in s .. e - 1 : ~StrongLtr(u[i])
  BY <1>0
<1>2. EndsOK(u, s, e, C) /\ EndsOK(u, s, e, D) /\ C \subseteq D
  <2>1. EndsOK(u, s, e, C) /\ EndsOK(u, s, e, D)
    BY <1>1, EndsAreOK
  <2>2. C \subseteq D
    BY DEF LastEnds
  <2> QED BY <2>1, <2>2
<1>a. \A c \in s + 1 .. e : (c # e => StrongRtl(u[c])) => c \in D
  BY <1>1 DEF Ends
<1> HIDE DEF p, C, D
<1>3. PICK q \in s .. e - 1 : Source(u, s, C, p, q) /\ v[k] = swapped(u[q])
  BY <1>1 DEF Turned, C
<1>4. u[q] \in Nat /\ Weak(u[q])
  BY <1>1, <1>3, SwapKeepsClass
<1>5. PICK b \in s + 1 .. q, c \in q + 1 .. e : NumeralRun(u, s, b, c) /\ (c # e => StrongRtl(u[c]))
  BY <1>1, <1>4, RunCovers
<1>6. b \in s + 1 .. e /\ c \in s + 1 .. e /\ c \in D /\ b \in Nat /\ b <= q /\ q < c
  BY <1>1, <1>a, <1>5
<1>7. b <= p /\ p < c
  <2>1. CASE q = p
    BY <1>6, <2>1
  <2>2. CASE q # p
    <3>1. PICK d \in C : \E f \in s + 1 .. d - 1 : NumeralRun(u, s, f, d) /\ p \in f .. d - 1 /\ q = f + d - 1 - p
      BY <1>3, <2>2 DEF Source
    <3>2. PICK f \in s + 1 .. d - 1 : NumeralRun(u, s, f, d) /\ p \in f .. d - 1 /\ q = f + d - 1 - p
      BY <3>1
    <3>3. d \in D /\ d \in Nat /\ f \in Nat
      BY <1>2, <3>1, <3>2 DEF EndsOK
    <3>4. f < c /\ b < d /\ f <= p /\ p < d
      BY <1>1, <1>6, <3>2, <3>3
    <3>5. f = b /\ d = c
      BY <1>1, <1>2, <1>5, <1>6, <3>2, <3>3, <3>4, RunUnique
    <3> QED BY <3>4, <3>5
  <2> QED BY <2>1, <2>2
<1> QED BY <1>5, <1>6, <1>7 DEF p

\* Inside a run that is reversed with the span, the runes keep their order.
RunKept(u, v, s, e, b, c) ==
  \A k \in b .. c - 1 : v[k + s + e - b - c] = swapped(u[k])

LEMMA TurnedRun ==
  ASSUME NEW n \in Nat, NEW u \in [1 .. n -> Nat], NEW a \in 1 .. n + 1, NEW z \in a .. n + 1,
         NEW v \in [1 .. n -> Nat], NEW s \in Nat, NEW e \in Nat,
         LineSpan(u, a, z, s, e), Turned(u, v, z, s, e),
         NEW b \in Nat, NEW c \in LastEnds(u, z, s, e), NumeralRun(u, s, b, c)
  PROVE  RunKept(u, v, s, e, b, c)
<1>0. SUFFICES ASSUME NEW k \in b .. c - 1 PROVE v[k + s + e - b - c] = swapped(u[k])
  BY DEF RunKept
<1> DEFINE C == LastEnds(u, z, s, e)
           p == b + c - 1 - k
<1>1. /\ s \in 1 .. n /\ e \in s .. n + 1 /\ s < b /\ b < c /\ c \in Nat
  BY DEF LineSpan, NumeralRun, LastEnds, Ends
<1>2. EndsOK(u, s, e, C)
  BY <1>1, EndsAreOK
<1>3. c <= e
  BY <1>1, <1>2 DEF EndsOK
<1>4. p \in b .. c - 1 /\ p \in s .. e - 1 /\ b \in s + 1 .. c - 1 /\ b + c - 1 - p = k /\ k \in s .. e - 1
  BY <1>1, <1>3
<1>5. s + e - 1 - p = k + s + e - b - c
  BY <1>1, <1>3, <1>4
<1> HIDE DEF C, p
<1>6. Source(u, s, C, p, k)
  BY <1>4 DEF Source, C
<1>7. PICK q \in s .. e - 1 : Source(u, s, C, p, q) /\ v[s + e - 1 - p] = swapped(u[q])
  BY <1>4 DEF Turned, C
<1>8. q = k
  <2>1. s \in 1 .. n /\ e \in s .. n + 1 /\ p \in s .. e - 1
    BY <1>1, <1>4
  <2> QED BY <1>2, <1>6, <1>7, <2>1, SourceUnique
<1> QED BY <1>5, <1>7, <1>8

\* A pass leaves a settled line.
LEMMA PassSettles ==
  ASSUME NEW n \in Nat, NEW u \in [1 .. n -> Nat], NEW a \in 1 .. n + 1, NEW z \in a .. n + 1,
         NEW v, Pass(n, u, v, a, z)
  PROVE  Settled(v, a, z)
<1>0. v \in [1 .. n -> Nat]
  BY DEF Pass
<1>1. SUFFICES ASSUME NEW s2 \in Nat, NEW e \in Nat, LineSpan(v, a, z, s2, e)
               PROVE  /\ StrongRtl(v[e - 1])
                      /\ \A b, c \in s2 .. e : NumeralRun(v, s2, b, c) => StrongRtl(v[b - 1])
  BY DEF Settled, SettledSpan
<1>2. PICK s \in Nat : LineSpan(u, a, z, s, e) /\ s <= s2
  BY <1>1, SpanWithin
<1>3. StrongRtl(v[e - 1])
  BY <1>2, PassEdges
<1>4. Turned(u, v, z, s, e)
  BY <1>2, PassTurns
<1>5. \A k \in s .. e - 1 : /\ s + e - 1 - k \in s .. e - 1 /\ ~StrongLtr(v[k])
                            /\ StrongRtl(v[k]) <=> StrongRtl(u[s + e - 1 - k])
                            /\ Soft(v[k]) <=> Soft(u[s + e - 1 - k])
  <2>1. Mirrors(u, v, s, e)
    BY <1>0, <1>2, <1>4, TurnedMirrors
  <2> QED BY <2>1 DEF Mirrors, MirrorAt
<1>6. StrongRtl(v[s2]) /\ s2 < e /\ s \in 1 .. n /\ e <= n + 1
  BY <1>1, <1>2 DEF LineSpan
<1>7. \A k \in s .. e - 1 : v[k] \in Nat /\ u[k] \in Nat
  BY <1>0, <1>6
<1>8. ASSUME NEW b \in s2 .. e, NEW c \in s2 .. e, NumeralRun(v, s2, b, c), ~StrongRtl(v[b - 1])
      PROVE  FALSE
  <2> DEFINE p == s + e - 1 - b
  <2>1. s2 < b /\ b < c /\ b \in s .. e - 1 /\ b - 1 \in s .. e - 1 /\ s2 \in s .. e - 1
    BY <1>2, <1>6, <1>8 DEF NumeralRun
  <2>2. Soft(v[b - 1]) /\ s2 # b - 1
    <3>1. ~StrongLtr(v[b - 1])
      BY <1>5, <2>1
    <3> QED BY <1>6, <1>7, <1>8, <2>1, <3>1, RuneClasses
  <2>3. Weak(v[b])
    BY <1>8 DEF NumeralRun
  <2>4. PICK f \in s + 1 .. e, d \in s + 1 .. e :
               /\ NumeralRun(u, s, f, d) /\ (d # e => StrongRtl(u[d]))
               /\ f <= p /\ p < d
    BY <1>0, <1>2, <1>4, <2>1, <2>3, TurnedNumeral
  <2>5. \A i \in f .. d - 1 : Soft(u[i])
    BY <2>4 DEF NumeralRun
  <2>6. d # e
    <3>1. SUFFICES ASSUME d = e PROVE FALSE
      OBVIOUS
    <3>2. StrongRtl(u[s + e - 1 - s2]) /\ s + e - 1 - s2 \in s .. e - 1
      BY <1>5, <1>6, <2>1
    <3>3. s + e - 1 - s2 \in f .. d - 1
      BY <2>1, <2>4, <3>1, <3>2
    <3> QED BY <1>7, <2>5, <3>2, <3>3, RuneClasses
  <2>7. d \in LastEnds(u, z, s, e) /\ d \in s .. e - 1 /\ StrongRtl(u[d])
    BY <2>4, <2>6 DEF LastEnds, Ends
  <2>8. p + 1 # d
    <3>1. Soft(u[s + e - 1 - (b - 1)]) /\ s + e - 1 - (b - 1) = p + 1
      BY <1>5, <2>1, <2>2
    <3> QED BY <1>7, <2>7, <3>1, RuneClasses
  <2>9. s + e - d \in s .. b - 1
    BY <2>1, <2>4, <2>7, <2>8
  <2>10. Weak(v[s + e - d])
    <3>1. f \in f .. d - 1 /\ f \in Nat /\ f + s + e - f - d = s + e - d /\ f \in s .. e - 1
      BY <2>1, <2>4
    <3>2. RunKept(u, v, s, e, f, d)
      BY <1>0, <1>2, <1>4, <2>4, <2>7, <3>1, TurnedRun
    <3>4. v[f + s + e - f - d] = swapped(u[f])
      BY <3>1, <3>2 DEF RunKept
    <3>3. Weak(u[f])
      BY <2>4 DEF NumeralRun
    <3> QED BY <1>7, <3>1, <3>3, <3>4, SwapKeepsClass
  <2>11. \A i \in s + e - d .. b : Soft(v[i]) /\ ~StrongRtl(v[i])
    <3>1. SUFFICES ASSUME NEW i \in s + e - d .. b PROVE Soft(v[i]) /\ ~StrongRtl(v[i])
      OBVIOUS
    <3>2. i \in s .. e - 1 /\ s + e - 1 - i \in f .. d - 1
      BY <2>1, <2>4, <2>7, <2>9
    <3> QED BY <1>5, <1>7, <2>5, <3>2, RuneClasses
  <2>12. s + e - d \in s2 .. b - 1
    <3>1. s2 \notin s + e - d .. b
      BY <1>6, <2>11
    <3> QED BY <2>1, <2>9, <3>1
  <2>13. PICK j \in s + e - d + 1 .. b - 1 : StrongRtl(v[j])
    BY <1>8, <2>10, <2>12 DEF NumeralRun
  <2>14. j \in s + e - d .. b
    BY <2>9
  <2> QED BY <2>11, <2>13, <2>14
<1> QED BY <1>3, <1>8

\* Two passes over a settled span give it back.
TurnedTwice(n, u, v, w, a, z, s, e) ==
  /\ n \in Nat /\ u \in [1 .. n -> Nat] /\ a \in 1 .. n + 1 /\ z \in a .. n + 1
  /\ v \in [1 .. n -> Nat] /\ w \in [1 .. n -> Nat] /\ s \in Nat /\ e \in Nat
  /\ LineSpan(u, a, z, s, e) /\ LineSpan(v, a, z, s, e)
  /\ Turned(u, v, z, s, e) /\ Turned(v, w, z, s, e)
  /\ SettledSpan(u, s, e) /\ SettledSpan(v, s, e)

LEMMA SpanTwice ==
  ASSUME NEW n, NEW u, NEW v, NEW w, NEW a, NEW z, NEW s, NEW e,
         TurnedTwice(n, u, v, w, a, z, s, e)
  PROVE  \A x \in s .. e - 1 : w[x] = u[x]
<1> SUFFICES
      ASSUME n \in Nat, u \in [1 .. n -> Nat], a \in 1 .. n + 1, z \in a .. n + 1,
             v \in [1 .. n -> Nat], w \in [1 .. n -> Nat], s \in Nat, e \in Nat,
             LineSpan(u, a, z, s, e), LineSpan(v, a, z, s, e),
             Turned(u, v, z, s, e), Turned(v, w, z, s, e),
             SettledSpan(u, s, e), SettledSpan(v, s, e)
      PROVE  \A x \in s .. e - 1 : w[x] = u[x]
  BY DEF TurnedTwice
<1> SUFFICES ASSUME NEW x \in s .. e - 1 PROVE w[x] = u[x]
  OBVIOUS
<1>1. s \in 1 .. n /\ s < e /\ e <= n + 1 /\ StrongRtl(u[s]) /\ e - 1 \in s .. e - 1
  BY DEF LineSpan
<1>a. /\ StrongRtl(u[e - 1]) /\ StrongRtl(v[e - 1])
      /\ \A b, c \in s .. e : NumeralRun(u, s, b, c) => StrongRtl(u[b - 1])
  BY DEF SettledSpan
<1>2. \A k \in s .. e - 1 : v[k] \in Nat /\ u[k] \in Nat /\ w[k] \in Nat
  BY <1>1
<1>3. \A k \in s .. e - 1 : /\ s + e - 1 - k \in s .. e - 1
                            /\ StrongRtl(v[k]) <=> StrongRtl(u[s + e - 1 - k])
                            /\ Soft(v[k]) <=> Soft(u[s + e - 1 - k])
  <2>1. Mirrors(u, v, s, e)
    BY TurnedMirrors
  <2> QED BY <2>1 DEF Mirrors, MirrorAt
<1>4. ASSUME NEW t \in [1 .. n -> Nat], StrongRtl(t[e - 1]), NEW b \in Nat, NEW c \in Nat, c <= e, NumeralRun(t, s, b, c)
      PROVE  c # e /\ s < b /\ b < c
  <2>1. s < b /\ b < c
    BY <1>4 DEF NumeralRun
  <2>2. SUFFICES ASSUME c = e PROVE FALSE
    BY <2>1
  <2>3. e - 1 \in b .. c - 1
    BY <1>1, <2>1, <2>2
  <2>4. Soft(t[e - 1]) /\ t[e - 1] \in Nat
    BY <1>1, <1>4, <2>3 DEF NumeralRun
  <2> QED BY <1>4, <2>4, RuneClasses
<1>5. \A t : \A c \in LastEnds(t, z, s, e) : c \in Nat /\ s <= c /\ c <= e /\ (c # e => StrongRtl(t[c]))
  BY <1>1 DEF LastEnds, Ends
<1>6. CASE \E c \in LastEnds(u, z, s, e) : \E b \in s + 1 .. c - 1 : NumeralRun(u, s, b, c) /\ x \in b .. c - 1
  <2>1. PICK c \in LastEnds(u, z, s, e) : \E b \in s + 1 .. c - 1 : NumeralRun(u, s, b, c) /\ x \in b .. c - 1
    BY <1>6
  <2>2. PICK b \in s + 1 .. c - 1 : NumeralRun(u, s, b, c) /\ x \in b .. c - 1
    BY <2>1
  <2>3. c \in Nat /\ b \in Nat /\ s < b /\ b < c /\ c <= e /\ b \in s .. e /\ c \in s .. e
    BY <1>1, <1>5, <2>2
  <2>4. c # e /\ StrongRtl(u[c])
    BY <1>a, <1>4, <1>5, <2>2, <2>3
  <2>5. StrongRtl(u[b - 1])
    BY <1>a, <2>2, <2>3
  <2> DEFINE f == s + e - c
             d == s + e - b
  <2>6. /\ f \in s + 1 .. e - 1 /\ d \in s + 1 .. e - 1 /\ f < d /\ f - 1 \in s .. e - 1
        /\ s + e - 1 - (f - 1) = c /\ s + e - 1 - d = b - 1 /\ d \in s .. e - 1
    BY <2>3, <2>4
  <2>7. b + s + e - b - c = f /\ b \in b .. c - 1 /\ b \in s .. e - 1
    BY <2>3
  <2>8. RunKept(u, v, s, e, b, c)
    BY <2>2, <2>3, TurnedRun
  <2>9. Weak(v[f])
    <3>1. Weak(u[b])
      BY <2>2 DEF NumeralRun
    <3>2. v[f] = swapped(u[b])
      BY <2>7, <2>8 DEF RunKept
    <3> QED BY <1>2, <2>7, <3>1, <3>2, SwapKeepsClass
  <2>10. StrongRtl(v[f - 1])
    BY <1>3, <2>4, <2>6
  <2>11. StrongRtl(v[d])
    BY <1>3, <2>5, <2>6
  <2>12. \A k \in f .. d - 1 : Soft(v[k])
    <3>1. SUFFICES ASSUME NEW k \in f .. d - 1 PROVE Soft(v[k])
      OBVIOUS
    <3>2. k \in s .. e - 1 /\ s + e - 1 - k \in b .. c - 1
      BY <2>3, <2>6
    <3> QED BY <1>3, <2>2, <3>2 DEF NumeralRun
  <2>13. NumeralRun(v, s, f, d)
    <3> HIDE DEF f, d
    <3>1. ASSUME NEW k \in s .. f - 1, Weak(v[k]) PROVE \E j \in k + 1 .. f - 1 : StrongRtl(v[j])
      <4>0. ~Weak(v[f - 1])
        BY <1>2, <2>6, <2>10, RuneClasses
      <4>1. k # f - 1
        BY <3>1, <4>0
      <4>2. f - 1 \in k + 1 .. f - 1
        BY <2>6, <4>1
      <4> QED BY <2>10, <4>2
    <3>2. s < f
      BY <2>6
    <3> QED BY <2>6, <2>9, <2>12, <3>1, <3>2 DEF NumeralRun
  <2>14. d \in LastEnds(v, z, s, e)
    BY <2>6, <2>11 DEF LastEnds, Ends
  <2>15. x + s + e - b - c \in f .. d - 1 /\ (x + s + e - b - c) + s + e - f - d = x
    BY <2>2, <2>3
  <2>16. v[x + s + e - b - c] = swapped(u[x])
    BY <2>2, <2>8 DEF RunKept
  <2>17. RunKept(v, w, s, e, f, d)
    <3>1. f \in Nat
      BY <2>6
    <3> HIDE DEF f, d
    <3> QED BY <2>13, <2>14, <3>1, TurnedRun
  <2>18. w[x] = swapped(swapped(u[x]))
    <3> DEFINE k == x + s + e - b - c
    <3>1. k \in f .. d - 1 /\ k + s + e - f - d = x /\ v[k] = swapped(u[x])
      BY <2>15, <2>16
    <3> HIDE DEF k
    <3>2. w[k + s + e - f - d] = swapped(v[k])
      BY <2>17, <3>1 DEF RunKept
    <3> QED BY <3>1, <3>2
  <2> QED BY <1>2, <2>18, SwapInvolution
<1>7. CASE ~ \E c \in LastEnds(u, z, s, e) : \E b \in s + 1 .. c - 1 : NumeralRun(u, s, b, c) /\ x \in b .. c - 1
  <2> DEFINE p == s + e - 1 - x
  <2>1. p \in s .. e - 1 /\ s + e - 1 - p = x
    OBVIOUS
  <2>2. v[p] = swapped(u[x])
    <3>1. PICK q \in s .. e - 1 : Source(u, s, LastEnds(u, z, s, e), x, q) /\ v[s + e - 1 - x] = swapped(u[q])
      BY DEF Turned
    <3>2. q = x
      BY <1>7, <3>1 DEF Source
    <3> QED BY <3>1, <3>2
  <2> HIDE DEF p
  <2>3. ASSUME NEW c \in LastEnds(v, z, s, e), NEW b \in s + 1 .. c - 1, NumeralRun(v, s, b, c), p \in b .. c - 1
        PROVE  FALSE
    <3>1. c \in Nat /\ b \in Nat /\ s < b /\ b < c /\ c <= e /\ b \in s .. e /\ c \in s .. e /\ b \in s .. e - 1
      BY <1>1, <1>5, <2>3
    <3>2. Weak(v[b]) /\ \A i \in b .. c - 1 : Soft(v[i])
      BY <2>3 DEF NumeralRun
    <3>3. PICK f \in s + 1 .. e, d \in s + 1 .. e :
               /\ NumeralRun(u, s, f, d) /\ (d # e => StrongRtl(u[d]))
               /\ f <= s + e - 1 - b /\ s + e - 1 - b < d
      BY <3>1, <3>2, TurnedNumeral
    <3>4. f \in Nat /\ d \in Nat /\ d <= e /\ f \in s .. e /\ d \in s .. e /\ s < f
      BY <1>1
    <3>5. d # e /\ f < d
      BY <1>a, <1>4, <3>3, <3>4
    <3>6. d \in LastEnds(u, z, s, e) /\ f \in s + 1 .. d - 1
      BY <3>3, <3>4, <3>5 DEF LastEnds, Ends
    <3>7. x < d
      BY <2>1, <2>3, <3>1, <3>3, <3>4
    <3>8. ~(x < f)
      <4>1. SUFFICES ASSUME x < f PROVE FALSE
        OBVIOUS
      <4>2. s + e - f \in b .. c - 1 /\ s + e - f \in s .. e - 1 /\ s + e - 1 - (s + e - f) = f - 1 /\ f - 1 \in s .. e - 1
        BY <2>1, <2>3, <3>1, <3>3, <3>4, <4>1
      <4>3. Soft(u[f - 1])
        BY <1>3, <3>2, <4>2
      <4>4. StrongRtl(u[f - 1])
        BY <1>a, <3>3, <3>4
      <4> QED BY <1>2, <4>2, <4>3, <4>4, RuneClasses
    <3>9. x \in f .. d - 1
      BY <3>4, <3>7, <3>8
    <3> QED BY <1>7, <3>3, <3>6, <3>9
  <2>4. w[x] = swapped(v[p])
    <3>1. PICK q \in s .. e - 1 : Source(v, s, LastEnds(v, z, s, e), p, q) /\ w[s + e - 1 - p] = swapped(v[q])
      BY <2>1 DEF Turned
    <3>2. q = p
      BY <2>3, <3>1 DEF Source
    <3> QED BY <2>1, <3>1, <3>2
  <2> QED BY <1>2, <2>2, <2>4, SwapInvolution
<1> QED BY <1>6, <1>7

\* Two passes over a settled line give it back.
LEMMA PassTwice ==
  ASSUME NEW n \in Nat, NEW u \in [1 .. n -> Nat], NEW a \in 1 .. n + 1, NEW z \in a .. n + 1,
         NEW v, NEW w, Settled(u, a, z), Pass(n, u, v, a, z), Pass(n, v, w, a, z)
  PROVE  w = u
<1>1. v \in [1 .. n -> Nat] /\ w \in [1 .. n -> Nat]
  BY DEF Pass
<1>2. Settled(v, a, z)
  BY PassSettles
<1>3. \A s, e \in Nat : LineSpan(v, a, z, s, e) <=> LineSpan(u, a, z, s, e)
  BY SpansSame
<1>4. SUFFICES ASSUME NEW x \in 1 .. n PROVE w[x] = u[x]
  BY <1>1
<1>5. CASE InSpan(u, a, z, x)
  <2>1. PICK s \in Nat, e \in Nat : LineSpan(u, a, z, s, e) /\ x \in s .. e - 1
    BY <1>5 DEF InSpan
  <2>2. LineSpan(v, a, z, s, e)
    BY <1>3, <2>1
  <2>3. Turned(u, v, z, s, e)
    BY <2>1, PassTurns
  <2>4. Turned(v, w, z, s, e)
    BY <1>1, <2>2, PassTurns
  <2>5. SettledSpan(u, s, e) /\ SettledSpan(v, s, e)
    BY <1>2, <2>1, <2>2 DEF Settled
  <2>6. \A y \in s .. e - 1 : w[y] = u[y]
    <3>1. TurnedTwice(n, u, v, w, a, z, s, e)
      BY <1>1, <2>1, <2>2, <2>3, <2>4, <2>5 DEF TurnedTwice
    <3> QED BY ONLY <3>1, SpanTwice
  <2> QED BY <2>1, <2>6
<1>6. CASE ~InSpan(u, a, z, x)
  <2>1. v[x] = u[x]
    BY <1>6, PassOutside
  <2>2. ~InSpan(v, a, z, x)
    BY <1>3, <1>6 DEF InSpan
  <2>3. w[x] = v[x]
    <3>1. /\ n \in Nat /\ v \in [1 .. n -> Nat] /\ a \in 1 .. n + 1 /\ z \in a .. n + 1
          /\ Pass(n, v, w, a, z) /\ x \in 1 .. n
      BY <1>1
    <3> QED BY ONLY <2>2, <3>1, PassOutside
  <2> QED BY <2>1, <2>3
<1> QED BY <1>5, <1>6

\* A text without marks, in which no rune reads as NUL.
PlainRunes(n, u) == u \in [1 .. n -> Nat] /\ \A i \in 1 .. n : ~Mark(u[i]) /\ codept(u[i]) # 0

LEMMA PassPlain ==
  ASSUME NEW n \in Nat, NEW u, PlainRunes(n, u), NEW a \in 1 .. n + 1, NEW z \in a .. n + 1,
         NEW v, Pass(n, u, v, a, z)
  PROVE  PlainRunes(n, v)
<1>1. u \in [1 .. n -> Nat] /\ v \in [1 .. n -> Nat]
  BY DEF PlainRunes, Pass
<1>2. ASSUME NEW k \in 1 .. n PROVE ~Mark(v[k]) /\ codept(v[k]) # 0
  <2>0. Stems(n, u, v[k])
    BY <1>1, <1>2, PassFrom
  <2>1. PICK i \in 1 .. n : v[k] = u[i] \/ v[k] = swapped(u[i])
    BY <2>0 DEF Stems
  <2>2. ~Mark(u[i]) /\ codept(u[i]) # 0 /\ u[i] \in Nat
    BY <1>1 DEF PlainRunes
  <2> QED BY <2>1, <2>2, SwapKeepsClass
<1> QED BY <1>1, <1>2 DEF PlainRunes

LEMMA PassTrim ==
  ASSUME NEW n \in Nat, NEW u \in [1 .. n -> Nat], NEW a \in 1 .. n + 1, NEW z \in a .. n + 1,
         NEW v, Pass(n, u, v, a, z), NEW b \in a .. n + 1, TrimPoint(u, a, b, z)
  PROVE  TrimPoint(v, a, b, z)
<1>1. v \in [1 .. n -> Nat] /\ \A k \in z .. n : v[k] = u[k]
  BY DEF Pass
<1>2. z \in a .. b
  BY DEF TrimPoint
<1>3. ASSUME NEW k \in z + 1 .. b PROVE v[k - 1] = SPACE
  <2>1. k - 1 \in z .. n
    OBVIOUS
  <2> QED BY <1>1, <2>1 DEF TrimPoint
<1>4. ASSUME z # a PROVE v[z - 1] # SPACE
  <2>1. z - 1 \in a .. z - 1 /\ z - 1 \in 1 .. n
    BY <1>4
  <2>2. CASE InSpan(u, a, z, z - 1)
    <3>1. PICK s \in Nat, e \in Nat : LineSpan(u, a, z, s, e) /\ z - 1 \in s .. e - 1
      BY <2>2 DEF InSpan
    <3>2. e = z
      BY <3>1 DEF LineSpan
    <3>3. StrongRtl(v[z - 1])
      BY <3>1, <3>2, PassEdges
    <3> QED BY <1>1, <2>1, <3>3, RuneClasses
  <2>3. CASE ~InSpan(u, a, z, z - 1)
    <3>1. v[z - 1] = u[z - 1]
      BY <2>1, <2>3, PassOutside
    <3> QED BY <1>4, <3>1 DEF TrimPoint
  <2> QED BY <2>2, <2>3
<1> QED BY <1>2, <1>3, <1>4 DEF TrimPoint

LEMMA TrimUnique ==
  ASSUME NEW n \in Nat, NEW t, NEW a \in 1 .. n + 1, NEW b \in a .. n + 1,
         NEW y, NEW z, TrimPoint(t, a, b, y), TrimPoint(t, a, b, z)
  PROVE  y = z
<1>1. y \in a .. b /\ z \in a .. b
  BY DEF TrimPoint
<1>2. ~(y < z)
  <2>1. SUFFICES ASSUME y < z PROVE FALSE
    OBVIOUS
  <2>2. z # a /\ z \in y + 1 .. b
    BY <1>1, <2>1
  <2> QED BY <2>2 DEF TrimPoint
<1>3. ~(z < y)
  <2>1. SUFFICES ASSUME z < y PROVE FALSE
    OBVIOUS
  <2>2. y # a /\ y \in z + 1 .. b
    BY <1>1, <2>1
  <2> QED BY <2>2 DEF TrimPoint
<1> QED BY <1>1, <1>2, <1>3

\* Where rtl_apply begins.
LEMMA StepCall ==
  ASSUME NEW n \in Nat, NEW u \in [1 .. n -> Nat], NEW a \in 1 .. n + 1, NEW z \in a .. n + 1
  PROVE  OutsideAt(n, u, u, a, z, a)
<1>1. ASSUME NEW s \in Nat, NEW e \in Nat, LineSpan(u, a, z, s, e) PROVE ~(s < a)
  BY <1>1 DEF LineSpan
<1>2. \A k \in a .. a - 1 : FALSE
  OBVIOUS
<1> QED BY <1>1, <1>2 DEF OutsideAt, TurnedBefore

\* And where it has come to the end of the line.
LEMMA OutsideEnds ==
  ASSUME NEW n \in Nat, NEW u, NEW a, NEW z, NEW w \in [1 .. n -> Nat], OutsideAt(n, u, w, a, z, z)
  PROVE  Pass(n, u, w, a, z)
BY DEF OutsideAt, Pass

-----------------------------------------------------------------------------
(* rtl_apply was called with the buffer u.                                 *)

Progress(u) ==
  /\ rtl_pc = "loop" =>
       IF in_span
       THEN /\ next_codept_ptr < line_end
            /\ InSpanAt(Len(orig), u, text, line_start, line_end, rtl_span_start,
                        next_codept_ptr, weak_ltr_span_start)
       ELSE /\ next_codept_ptr <= line_end
            /\ OutsideAt(Len(orig), u, text, line_start, line_end, next_codept_ptr)
  /\ rtl_pc = "exit" =>
       IF in_span
       THEN /\ iter_ptr = line_end
            /\ InSpanAt(Len(orig), u, text, line_start, line_end, rtl_span_start,
                        line_end, weak_ltr_span_start)
       ELSE Pass(Len(orig), u, text, line_start, line_end)

\* What an iteration reads.
LEMMA Reads ==
  ASSUME RtlInv, rtl_pc = "loop", NEW u, PlainRunes(Len(orig), u), Progress(u)
  PROVE  /\ Len(orig) \in Nat /\ u \in [1 .. Len(orig) -> Nat] /\ text \in [1 .. Len(orig) -> Nat]
         /\ line_start \in 1 .. Len(orig) + 1 /\ line_end \in line_start .. Len(orig) + 1
         /\ this_codept_ptr \in 1 .. Len(orig) /\ iter_ptr = this_codept_ptr + 1
         /\ this_codept_ptr \in line_start .. line_end
         /\ rtl_span_start \in Nat /\ weak_ltr_span_start \in Nat
         /\ ~in_span => weak_ltr_span_start = NULL
         /\ more <=> this_codept_ptr + 1 < line_end
         /\ next_codept # 0 <=> more
         /\ more => this_codept_ptr + 1 \in 1 .. Len(orig) /\ next_codept = codept(u[this_codept_ptr + 1])
         /\ this_codept = codept(u[this_codept_ptr])
         /\ is_rtl(this_codept) <=> StrongRtl(u[this_codept_ptr])
<1> DEFINE n == Len(orig)
           t == this_codept_ptr
<1>1. /\ n \in Nat /\ u \in [1 .. n -> Nat] /\ text \in [1 .. n -> Nat]
      /\ line_start \in 1 .. n + 1 /\ line_end \in line_start .. n + 1
      /\ t \in 1 .. n /\ iter_ptr = t + 1 /\ t >= line_start /\ t = next_codept_ptr
      /\ rtl_span_start \in Nat /\ weak_ltr_span_start \in Nat
      /\ ~in_span => weak_ltr_span_start = NULL
  BY Shape, LoopFacts DEF PlainRunes, this_codept_ptr
<1>2. (t < line_end \/ t = line_end) /\ \A i \in t .. n : text[i] = u[i]
  BY <1>1 DEF Progress, InSpanAt, OutsideAt
<1> HIDE DEF n, t
<1>3. more <=> t + 1 < line_end
  <2>1. DOMAIN text = 1 .. n
    BY <1>1
  <2> QED BY <1>1, <2>1 DEF more
<1>4. t \in t .. n /\ (more => t + 1 \in t .. n /\ t + 1 \in 1 .. n)
  BY <1>1, <1>3
<1>5. this_codept = codept(u[t]) /\ (more => next_codept = codept(u[t + 1]))
  BY <1>1, <1>2, <1>4 DEF this_codept, next_codept, t
<1>6. next_codept # 0 <=> more
  <2>1. more => codept(u[t + 1]) # 0
    BY <1>4 DEF PlainRunes, n
  <2> QED BY <1>5, <2>1 DEF next_codept
<1>7. is_rtl(this_codept) <=> StrongRtl(u[t])
  <2>1. ~Mark(u[t]) /\ u[t] \in Nat
    BY <1>1 DEF PlainRunes, n
  <2> QED BY <1>5, <2>1, RuneClasses
<1> QED BY <1>1, <1>2, <1>3, <1>4, <1>5, <1>6, <1>7 DEF n, t

\* After an iteration: the read-ahead leads to the next rune or out of the loop.
LEMMA ProgressInSpan ==
  ASSUME RtlInv, NEW u, PlainRunes(Len(orig), u), Progress(u), ReadAhead, UNCHANGED wrap_vars,
         this_codept_ptr < line_end, rtl_span_start' # NULL,
         InSpanAt(Len(orig), u, text', line_start, line_end, rtl_span_start',
                  this_codept_ptr + 1, weak_ltr_span_start')
  PROVE  Progress(u)'
<1>1. /\ rtl_pc = "loop" /\ line_end' = line_end
      /\ iter_ptr' = IF more THEN iter_ptr + 1 ELSE iter_ptr
      /\ next_codept_ptr' = IF more THEN iter_ptr ELSE NULL
      /\ rtl_pc' = IF next_codept # 0 THEN "loop" ELSE "exit"
      /\ orig' = orig /\ line_start' = line_start
  BY DEF ReadAhead, wrap_vars
<1>2. /\ iter_ptr = this_codept_ptr + 1 /\ (more <=> this_codept_ptr + 1 < line_end)
      /\ (next_codept # 0 <=> more) /\ this_codept_ptr \in Int /\ line_end \in Int
  BY <1>1, Reads
<1>3. in_span'
  BY DEF in_span
<1>4. CASE more
  BY <1>1, <1>2, <1>3, <1>4 DEF Progress
<1>5. CASE ~more
  <2>1. this_codept_ptr + 1 = line_end
    BY <1>2, <1>5
  <2> QED BY <1>1, <1>2, <1>3, <1>5, <2>1 DEF Progress
<1> QED BY <1>4, <1>5

LEMMA ProgressOutside ==
  ASSUME RtlInv, NEW u, PlainRunes(Len(orig), u), Progress(u), ReadAhead, UNCHANGED wrap_vars,
         rtl_span_start' = NULL,
         more => OutsideAt(Len(orig), u, text', line_start, line_end, this_codept_ptr + 1),
         ~more => Pass(Len(orig), u, text', line_start, line_end)
  PROVE  Progress(u)'
<1>1. /\ rtl_pc = "loop" /\ line_end' = line_end
      /\ iter_ptr' = IF more THEN iter_ptr + 1 ELSE iter_ptr
      /\ next_codept_ptr' = IF more THEN iter_ptr ELSE NULL
      /\ rtl_pc' = IF next_codept # 0 THEN "loop" ELSE "exit"
      /\ orig' = orig /\ line_start' = line_start
  BY DEF ReadAhead, wrap_vars
<1>2. /\ iter_ptr = this_codept_ptr + 1 /\ (more <=> this_codept_ptr + 1 < line_end)
      /\ (next_codept # 0 <=> more) /\ this_codept_ptr \in Int /\ line_end \in Int
  BY <1>1, Reads
<1>3. ~in_span'
  BY DEF in_span
<1>4. CASE more
  BY <1>1, <1>2, <1>3, <1>4 DEF Progress
<1>5. CASE ~more
  BY <1>1, <1>2, <1>3, <1>5 DEF Progress
<1> QED BY <1>4, <1>5

LEMMA OpenProgress ==
  ASSUME RtlInv, NEW u, PlainRunes(Len(orig), u), Progress(u), OpenSpan, UNCHANGED wrap_vars
  PROVE  Progress(u)'
<1> DEFINE n == Len(orig)
           t == this_codept_ptr
           a == line_start
           z == line_end
<1>1. /\ ReadAhead /\ rtl_pc = "loop" /\ more /\ ~in_span /\ is_rtl(this_codept)
      /\ text' = text /\ rtl_span_start' = t /\ weak_ltr_span_start' = weak_after
  BY DEF OpenSpan, ReadAhead, opens, next_codept
<1>2. weak_after = NULL
  BY <1>1, AfterWeak
<1>3. /\ n \in Nat /\ u \in [1 .. n -> Nat] /\ text \in [1 .. n -> Nat]
      /\ a \in 1 .. n + 1 /\ z \in a .. n + 1 /\ t \in a .. z /\ t \in 1 .. n
      /\ t + 1 < z /\ StrongRtl(u[t])
  BY <1>1, Reads
<1>4. OutsideAt(n, u, text, a, z, t)
  BY <1>1 DEF Progress, this_codept_ptr
<1> HIDE DEF n, t, a, z
<1>5. t \in a .. z - 1 /\ t < z /\ t # NULL
  BY <1>3 DEF NULL
<1>6. InSpanAt(n, u, text, a, z, t, t + 1, NULL)
  BY <1>3, <1>4, <1>5, StepOpen
<1>7. InSpanAt(n, u, text', a, z, rtl_span_start', t + 1, weak_ltr_span_start')
  BY <1>1, <1>2, <1>6
<1> QED BY <1>1, <1>5, <1>7, ProgressInSpan DEF n, t, a, z

LEMMA ContinueProgress ==
  ASSUME RtlInv, NEW u, PlainRunes(Len(orig), u), Progress(u), ContinueSpan, UNCHANGED wrap_vars
  PROVE  Progress(u)'
<1> DEFINE n == Len(orig)
           t == this_codept_ptr
           a == line_start
           z == line_end
           s == rtl_span_start
           k == weak_ltr_span_start
<1>1. /\ ReadAhead /\ rtl_pc = "loop" /\ in_span /\ neutral
      /\ is_rtl(next_codept) \/ is_neutral(next_codept) \/ is_weak_ltr(next_codept) \/ next_codept < \h20
      /\ text' = apply_swaps(text_after_weak, t)
      /\ rtl_span_start' = s /\ weak_ltr_span_start' = weak_after
  BY DEF ContinueSpan, ReadAhead, continues
<1>2. /\ n \in Nat /\ u \in [1 .. n -> Nat] /\ text \in [1 .. n -> Nat]
      /\ a \in 1 .. n + 1 /\ z \in a .. n + 1 /\ t \in a .. z /\ t \in 1 .. n /\ k \in Nat
      /\ more <=> t + 1 < z
      /\ more => t + 1 \in 1 .. n /\ next_codept = codept(u[t + 1])
      /\ this_codept = codept(u[t])
  BY <1>1, Reads
<1>3. InSpanAt(n, u, text, a, z, s, t, k) /\ t < z /\ s # NULL
  BY <1>1 DEF Progress, this_codept_ptr, in_span
<1>4. /\ text_after_weak = text
      /\ weak_after = IF Weak(u[t]) /\ k = NULL THEN t ELSE k
      /\ Soft(u[t])
  <2>1. is_neutral(this_codept) \/ is_weak_ltr(this_codept)
    BY <1>1 DEF neutral, weak_in_span
  <2>2. ~ends_weak_span
    BY <2>1 DEF ends_weak_span
  <2>3. weak_in_span <=> Weak(u[t])
    BY <1>1, <1>2 DEF weak_in_span, Weak
  <2>4. u[t] \in Nat
    BY <1>2
  <2>5. Weak(u[t]) => Soft(u[t])
    BY <2>4, RuneClasses
  <2>6. Soft(u[t])
    BY <1>2, <2>1, <2>5 DEF Soft, StrongLtr, StrongRtl, Weak
  <2> QED BY <2>2, <2>3, <2>6 DEF text_after_weak, weak_after
<1>5. t + 1 < z /\ StrongLtr(u[t + 1]) => Ctl(u[t + 1])
  BY <1>1, <1>2 DEF StrongLtr, Ctl
<1> HIDE DEF n, t, a, z, s, k
<1>6. t \in a .. z - 1
  BY <1>2, <1>3
<1>7. InSpanAt(n, u, apply_swaps(text, t), a, z, s, t + 1, IF Weak(u[t]) /\ k = NULL THEN t ELSE k)
  BY <1>2, <1>3, <1>4, <1>5, <1>6, StepContinue
<1>8. InSpanAt(n, u, text', a, z, rtl_span_start', t + 1, weak_ltr_span_start')
  BY <1>1, <1>4, <1>7
<1> QED BY <1>1, <1>3, <1>8, ProgressInSpan DEF n, t, a, z, s

LEMMA CloseProgress ==
  ASSUME RtlInv, NEW u, PlainRunes(Len(orig), u), Progress(u), CloseSpan, UNCHANGED wrap_vars
  PROVE  Progress(u)'
<1> DEFINE n == Len(orig)
           t == this_codept_ptr
           a == line_start
           z == line_end
           s == rtl_span_start
           k == weak_ltr_span_start
<1>1. /\ ReadAhead /\ rtl_pc = "loop" /\ in_span /\ ~is_rtl(this_codept) /\ ~continues
      /\ text' = reverse_span(text_after_weak, s, t)
      /\ rtl_span_start' = NULL
  BY DEF CloseSpan, ReadAhead, closes
<1>2. /\ n \in Nat /\ u \in [1 .. n -> Nat] /\ text \in [1 .. n -> Nat]
      /\ a \in 1 .. n + 1 /\ z \in a .. n + 1 /\ t \in a .. z /\ t \in 1 .. n /\ k \in Nat /\ s \in Nat
      /\ more <=> t + 1 < z
      /\ next_codept # 0 <=> more
      /\ more => t + 1 \in 1 .. n /\ next_codept = codept(u[t + 1])
      /\ this_codept = codept(u[t])
  BY <1>1, Reads
<1>3. InSpanAt(n, u, text, a, z, s, t, k) /\ t < z /\ s # NULL
  BY <1>1 DEF Progress, this_codept_ptr, in_span
<1>4. StrongLtr(u[t]) \/ (Soft(u[t]) /\ t + 1 < z /\ StrongLtr(u[t + 1]) /\ ~Ctl(u[t + 1]))
  <2>1. SUFFICES ASSUME ~StrongLtr(u[t])
                 PROVE  Soft(u[t]) /\ t + 1 < z /\ StrongLtr(u[t + 1]) /\ ~Ctl(u[t + 1])
    OBVIOUS
  <2>2. Soft(u[t])
    BY <1>1, <1>2, <2>1 DEF Soft, StrongRtl
  <2>3. neutral
    BY <1>1, <1>2, <2>1 DEF neutral, weak_in_span, StrongLtr
  <2>4. ~is_rtl(next_codept) /\ ~is_neutral(next_codept) /\ ~is_weak_ltr(next_codept) /\ ~(next_codept < \h20)
    BY <1>1, <2>3 DEF continues
  <2>5. more
    <3>1. next_codept # 0
      BY <2>4
    <3> QED BY <1>2, <3>1
  <2> QED BY <1>2, <2>2, <2>4, <2>5 DEF StrongLtr, Ctl
<1>5. text_after_weak = RunClosed(u, text, z, t, k)
  <2>1. t # z
    BY <1>2, <1>3
  <2>2. ends_weak_span <=> k # NULL /\ StrongLtr(u[t])
    BY <1>1, <1>2 DEF ends_weak_span, StrongLtr
  <2> QED BY <2>1, <2>2 DEF text_after_weak, RunClosed
<1> HIDE DEF n, t, a, z, s, k
<1>6. t \in a .. z - 1
  BY <1>2, <1>3
<1>7. OutsideAt(n, u, SpanClosed(u, text, z, s, t, k), a, z, t + 1)
  BY <1>2, <1>3, <1>4, <1>6, StepClose
<1>8. text' = SpanClosed(u, text, z, s, t, k)
  BY <1>1, <1>5 DEF SpanClosed
<1>9. OutsideAt(n, u, text', a, z, t + 1)
  BY <1>7, <1>8
<1>10. ~more => Pass(n, u, text', a, z)
  <2>1. ~more => t + 1 = z
    BY <1>2, <1>3
  <2>2. text' \in [1 .. n -> Nat]
    <3>1. RtlInv'
      BY CloseSpanKeeps
    <3>2. text' \in [1 .. Len(orig') -> Nat] /\ orig' = orig
      BY <3>1 DEF RtlInv, RtlType, wrap_vars
    <3> QED BY <3>2 DEF n
  <2>3. ~more => OutsideAt(n, u, text', a, z, z)
    BY <1>9, <2>1
  <2> QED BY <1>2, <2>2, <2>3, OutsideEnds
<1> QED BY <1>1, <1>9, <1>10, ProgressOutside DEF n, t, a, z

LEMMA PassOverProgress ==
  ASSUME RtlInv, NEW u, PlainRunes(Len(orig), u), Progress(u), PassOver, UNCHANGED wrap_vars
  PROVE  Progress(u)'
<1> DEFINE n == Len(orig)
           t == this_codept_ptr
           a == line_start
           z == line_end
           s == rtl_span_start
           k == weak_ltr_span_start
<1>1. /\ ReadAhead /\ rtl_pc = "loop" /\ ~opens /\ ~closes
      /\ text' = text_after_weak
      /\ rtl_span_start' = s /\ weak_ltr_span_start' = weak_after
  BY DEF PassOver, ReadAhead
<1>2. /\ n \in Nat /\ u \in [1 .. n -> Nat] /\ text \in [1 .. n -> Nat]
      /\ a \in 1 .. n + 1 /\ z \in a .. n + 1 /\ t \in a .. z /\ t \in 1 .. n /\ k \in Nat /\ s \in Nat
      /\ ~in_span => k = NULL
      /\ more <=> t + 1 < z
      /\ next_codept # 0 <=> more
      /\ this_codept = codept(u[t])
      /\ is_rtl(this_codept) <=> StrongRtl(u[t])
  BY <1>1, Reads
<1>3. CASE in_span
  <2>1. InSpanAt(n, u, text, a, z, s, t, k) /\ t < z /\ s # NULL
    BY <1>1, <1>3 DEF Progress, this_codept_ptr, in_span
  <2>2. StrongRtl(u[t]) /\ u[t] \in Nat
    BY <1>1, <1>2, <1>3 DEF closes
  <2>3. ~Weak(u[t]) /\ ~is_neutral(this_codept)
    BY <1>2, <2>2, RuneClasses DEF StrongRtl
  <2>4. /\ text_after_weak = IF k # NULL THEN reverse_span(text, k, t) ELSE text
        /\ weak_after = NULL
    BY <1>2, <1>3, <2>3 DEF text_after_weak, weak_after, ends_weak_span, weak_in_span, Weak
  <2> HIDE DEF n, t, a, z, s, k
  <2>5. t \in a .. z - 1
    BY <1>2, <2>1
  <2>6. InSpanAt(n, u, IF k # NULL THEN reverse_span(text, k, t) ELSE text, a, z, s, t + 1, NULL)
    BY <1>2, <2>1, <2>2, <2>5, StepStrong
  <2>7. InSpanAt(n, u, text', a, z, rtl_span_start', t + 1, weak_ltr_span_start')
    BY <1>1, <2>4, <2>6
  <2> QED BY <1>1, <2>1, <2>7, ProgressInSpan DEF n, t, a, z, s
<1>4. CASE ~in_span
  <2>1. OutsideAt(n, u, text, a, z, t) /\ t <= z /\ s = NULL
    BY <1>1, <1>4 DEF Progress, this_codept_ptr, in_span
  <2>2. text' = text
    BY <1>1, <1>4 DEF text_after_weak, ends_weak_span
  <2>3. more => ~StrongRtl(u[t])
    BY <1>1, <1>2, <1>4 DEF opens
  <2> HIDE DEF n, t, a, z, s, k
  <2>4. more => OutsideAt(n, u, text', a, z, t + 1)
    <3>1. SUFFICES ASSUME more PROVE OutsideAt(n, u, text, a, z, t + 1)
      BY <2>2
    <3>2. t \in a .. z - 1
      BY <1>2, <3>1
    <3> QED BY <1>2, <2>1, <2>3, <3>1, <3>2, StepOutside
  <2>5. ~more => Pass(n, u, text', a, z)
    <3>1. SUFFICES ASSUME ~more PROVE Pass(n, u, text, a, z)
      BY <2>2
    <3>2. CASE t = z
      BY <1>2, <2>1, <3>2, OutsideEnds
    <3>3. CASE t # z
      <4>1. t \in a .. z - 1 /\ t + 1 = z
        BY <1>2, <3>1, <3>3
      <4> QED BY <1>2, <2>1, <4>1, StepLast
    <3> QED BY <3>2, <3>3
  <2> QED BY <1>1, <2>1, <2>4, <2>5, ProgressOutside DEF n, t, a, z, s
<1> QED BY <1>3, <1>4

LEMMA IterateProgress ==
  ASSUME RtlInv, NEW u, PlainRunes(Len(orig), u), Progress(u), RtlIterate, UNCHANGED wrap_vars
  PROVE  Progress(u)'
BY OpenProgress, ContinueProgress, CloseProgress, PassOverProgress DEF RtlIterate

LEMMA ReturnPasses ==
  ASSUME RtlInv, NEW u, PlainRunes(Len(orig), u), Progress(u), RtlReturn
  PROVE  Pass(Len(orig), u, text', line_start, line_end)
<1> DEFINE n == Len(orig)
           a == line_start
           z == line_end
           s == rtl_span_start
           k == weak_ltr_span_start
           w == IF k # NULL THEN reverse_span(text, k, iter_ptr) ELSE text
<1>1. rtl_pc = "exit" /\ text' = IF in_span THEN reverse_span(w, s, iter_ptr) ELSE w
  BY DEF RtlReturn
<1>2. /\ n \in Nat /\ text \in [1 .. n -> Nat] /\ u \in [1 .. n -> Nat]
      /\ a \in 1 .. n + 1 /\ z \in a .. n + 1 /\ k \in Nat /\ s \in Nat
      /\ ~in_span => k = NULL
  <2>1. /\ n \in Nat /\ text \in [1 .. n -> Nat] /\ a \in 1 .. n + 1 /\ line_limit \in a .. n + 1
    BY Shape
  <2>2. z \in a .. line_limit /\ (~in_span => k = NULL)
    BY <1>1 DEF RtlInv, Pointers
  <2>3. k \in Nat /\ s \in Nat /\ u \in [1 .. n -> Nat]
    BY <2>1 DEF RtlInv, RtlType, PlainRunes
  <2> QED BY <2>1, <2>2, <2>3
<1>3. CASE ~in_span
  BY <1>1, <1>2, <1>3 DEF Progress
<1>4. CASE in_span
  <2>1. iter_ptr = z /\ InSpanAt(n, u, text, a, z, s, z, k)
    BY <1>1, <1>4 DEF Progress
  <2>2. w = RunClosed(u, text, z, z, k)
    BY <2>1 DEF RunClosed
  <2>3. text' = SpanClosed(u, text, z, s, z, k)
    BY <1>1, <1>4, <2>1, <2>2 DEF SpanClosed
  <2> HIDE DEF n, a, z, s, k, w
  <2>4. Pass(n, u, SpanClosed(u, text, z, s, z, k), a, z)
    BY <1>2, <2>1, StepEnd
  <2> QED BY <2>3, <2>4 DEF n, a, z
<1> QED BY <1>3, <1>4

-----------------------------------------------------------------------------
(***************************************************************************)
(* The draws of a line, on a text without marks and without NULs.          *)
(***************************************************************************)

UnmarkedText == Unmarked(orig) /\ \A i \in DOMAIN orig : codept(orig[i]) # 0

\* The line ends in u where it ends in the text the application wrote.
line_stop == trimmed(orig, line_start, line_limit)
SameLine(u) == PlainRunes(Len(orig), u) /\ TrimPoint(u, line_start, line_limit, line_stop)

\* The application wrote a line that a pass could have left.
OrigSettled == Settled(orig, line_start, line_stop)

\* A pass over u gives the buffer the handler has seen, if it has seen one.
BeforeHandler(u) ==
  /\ SameLine(u)
  /\ OrigSettled => u = orig
  /\ \A m \in shown : /\ m \in [1 .. Len(orig) -> Nat]
                      /\ Settled(m, line_start, line_stop)
                      /\ Pass(Len(orig), m, u, line_start, line_stop)

\* The handler is given u, as on every draw before.
ForHandler(u) ==
  /\ SameLine(u) /\ Settled(u, line_start, line_stop) /\ shown \subseteq {u}
  /\ OrigSettled => Pass(Len(orig), orig, u, line_start, line_stop)

RedrawInv ==
  IF touches_line
  THEN /\ rtl_pc # "idle" => line_end = line_stop
       /\ wrap_pc \in {"idle", "step1"} => BeforeHandler(text)
       /\ wrap_pc = "rtl1" => \E u : BeforeHandler(u) /\ Progress(u)
       /\ wrap_pc = "handler" => ForHandler(text)
       /\ wrap_pc = "step2" => ForHandler(text) /\ text \in shown
       /\ wrap_pc = "rtl2" => \E u : ForHandler(u) /\ u \in shown /\ Progress(u)
       /\ \A m1, m2 \in shown : m1 = m2
  ELSE text = orig /\ shown \subseteq {orig}

\* The line and its end are what they are.
LEMMA LineFacts ==
  ASSUME IInv
  PROVE  /\ Len(orig) \in Nat /\ DOMAIN orig = 1 .. Len(orig) /\ orig \in [1 .. Len(orig) -> Nat]
         /\ line_start \in 1 .. Len(orig) + 1 /\ line_limit \in line_start .. Len(orig) + 1
         /\ TrimPoint(orig, line_start, line_limit, line_stop)
         /\ line_stop \in line_start .. Len(orig) + 1
         /\ text \in [1 .. Len(orig) -> Nat] /\ DOMAIN text = 1 .. Len(orig)
         /\ rtl_pc # "idle" => touches_line
         /\ wrap_pc \in {"rtl1", "rtl2"} <=> rtl_pc # "idle"
<1>1. /\ Len(orig) \in Nat /\ DOMAIN orig = 1 .. Len(orig) /\ orig \in [1 .. Len(orig) -> Nat]
      /\ line_start \in 1 .. Len(orig) + 1 /\ line_limit \in line_start .. Len(orig) + 1
      /\ text \in [1 .. Len(orig) -> Nat]
  BY Shape DEF IInv
<1>2. TrimPoint(orig, line_start, line_limit, line_stop)
  BY <1>1, TrimmedSpec DEF line_stop
<1>3. line_stop \in line_start .. Len(orig) + 1
  BY <1>1, <1>2 DEF TrimPoint
<1>4. DOMAIN text = 1 .. Len(orig)
  BY <1>1
<1>5. rtl_pc # "idle" => touches_line
  BY <1>1, <1>4 DEF IInv, RtlInv, Pointers, touches_line
<1>6. wrap_pc \in {"rtl1", "rtl2"} <=> rtl_pc # "idle"
  BY DEF IInv, TypeOK
<1> QED BY <1>1, <1>2, <1>3, <1>4, <1>5, <1>6

LEMMA RedrawInit ==
  ASSUME Init, UnmarkedText
  PROVE  RedrawInv
<1>1. IInv
  BY InitIInv
<1>2. rtl_pc = "idle" /\ wrap_pc = "idle" /\ text = orig /\ shown = {}
  BY DEF Init, RtlInit
<1>3. SameLine(orig)
  BY <1>1, LineFacts DEF SameLine, PlainRunes, UnmarkedText, Unmarked
<1> QED BY <1>2, <1>3 DEF RedrawInv, BeforeHandler

\* What a step that is not of rtl_apply leaves alone.
LEMMA CallDraws ==
  ASSUME IInv, UnmarkedText, RedrawInv, render_rtl_step
  PROVE  RedrawInv'
<1>1. /\ rtl_pc = "idle" /\ rtl_pc' = "loop" /\ touches_line
      /\ line_end' = trimmed(text, line_start, line_limit)
      /\ iter_ptr' = line_start + 1 /\ next_codept_ptr' = line_start
      /\ rtl_span_start' = NULL
      /\ text' = text /\ orig' = orig /\ line_start' = line_start
      /\ line_limit' = line_limit /\ in_ram' = in_ram /\ shown' = shown
      /\ \/ wrap_pc = "step1" /\ wrap_pc' = "rtl1"
         \/ wrap_pc = "step2" /\ wrap_pc' = "rtl2"
  BY DEF render_rtl_step, RtlCall
<1>2. SameLine(text)
  BY <1>1 DEF RedrawInv, BeforeHandler, ForHandler
<1>3. trimmed(text, line_start, line_limit) = line_stop
  <2>1. TrimPoint(text, line_start, line_limit, trimmed(text, line_start, line_limit))
    BY LineFacts, TrimmedSpec
  <2>2. TrimPoint(text, line_start, line_limit, line_stop)
    BY <1>2 DEF SameLine
  <2> QED BY <2>1, <2>2, LineFacts, TrimUnique
<1>4. touches_line' /\ line_stop' = line_stop
  BY <1>1 DEF touches_line, line_stop
<1>5. Progress(text)'
  <2>1. OutsideAt(Len(orig), text, text, line_start, line_stop, line_start)
    BY LineFacts, StepCall
  <2>2. line_start <= line_stop
    BY LineFacts
  <2>3. ~in_span'
    BY <1>1 DEF in_span
  <2> QED BY <1>1, <1>3, <2>1, <2>2, <2>3 DEF Progress
<1>6. CASE wrap_pc = "step1"
  <2>1. BeforeHandler(text) /\ \A m1, m2 \in shown : m1 = m2
    BY <1>1, <1>6 DEF RedrawInv
  <2>2. BeforeHandler(text)'
    BY <1>1, <1>4, <2>1 DEF BeforeHandler, SameLine, OrigSettled
  <2> QED BY <1>1, <1>3, <1>4, <1>5, <1>6, <2>1, <2>2 DEF RedrawInv
<1>7. CASE wrap_pc = "step2"
  <2>1. ForHandler(text) /\ text \in shown /\ \A m1, m2 \in shown : m1 = m2
    BY <1>1, <1>7 DEF RedrawInv
  <2>2. ForHandler(text)'
    BY <1>1, <1>4, <2>1 DEF ForHandler, SameLine, OrigSettled
  <2> QED BY <1>1, <1>3, <1>4, <1>5, <1>7, <2>1, <2>2 DEF RedrawInv
<1> QED BY <1>1, <1>6, <1>7

LEMMA IterationDraws ==
  ASSUME IInv, UnmarkedText, RedrawInv, RtlStep
  PROVE  RedrawInv'
<1>1. /\ RtlIterate /\ UNCHANGED wrap_vars /\ rtl_pc = "loop" /\ line_end' = line_end
      /\ rtl_pc' # "idle"
  BY DEF RtlStep, RtlIterate, OpenSpan, ContinueSpan, CloseSpan, PassOver, ReadAhead
<1>2. /\ wrap_pc' = wrap_pc /\ line_start' = line_start /\ line_limit' = line_limit
      /\ in_ram' = in_ram /\ orig' = orig /\ shown' = shown
  BY <1>1 DEF wrap_vars
<1>3. IInv'
  BY IterationKeeps
<1>4. touches_line /\ touches_line' /\ line_stop' = line_stop
  <2>1. touches_line
    BY <1>1, LineFacts
  <2>2. DOMAIN text' = DOMAIN text
    BY <1>2, <1>3, LineFacts DEF IInv, TypeOK
  <2> QED BY <1>2, <2>1, <2>2 DEF touches_line, line_stop
<1>5. line_end = line_stop /\ wrap_pc \in {"rtl1", "rtl2"} /\ RtlInv /\ \A m1, m2 \in shown : m1 = m2
  BY <1>1, <1>4, LineFacts DEF RedrawInv, IInv
<1>6. CASE wrap_pc = "rtl1"
  <2>1. PICK u : BeforeHandler(u) /\ Progress(u)
    BY <1>4, <1>6 DEF RedrawInv
  <2>2. PlainRunes(Len(orig), u)
    BY <2>1 DEF BeforeHandler, SameLine, OrigSettled
  <2>3. Progress(u)'
    BY <1>1, <1>5, <2>1, <2>2, IterateProgress
  <2>4. BeforeHandler(u)'
    BY <1>2, <1>4, <2>1 DEF BeforeHandler, SameLine, OrigSettled
  <2> QED BY <1>1, <1>2, <1>4, <1>5, <1>6, <2>3, <2>4 DEF RedrawInv
<1>7. CASE wrap_pc = "rtl2"
  <2>1. PICK u : ForHandler(u) /\ u \in shown /\ Progress(u)
    BY <1>4, <1>7 DEF RedrawInv
  <2>2. PlainRunes(Len(orig), u)
    BY <2>1 DEF ForHandler, SameLine, OrigSettled
  <2>3. Progress(u)'
    BY <1>1, <1>5, <2>1, <2>2, IterateProgress
  <2>4. ForHandler(u)'
    BY <1>2, <1>4, <2>1 DEF ForHandler, SameLine, OrigSettled
  <2> QED BY <1>1, <1>2, <1>4, <1>5, <1>7, <2>1, <2>3, <2>4 DEF RedrawInv
<1> QED BY <1>5, <1>6, <1>7

LEMMA EndDraws ==
  ASSUME IInv, UnmarkedText, RedrawInv, EndStep
  PROVE  RedrawInv'
<1> DEFINE n == Len(orig)
           a == line_start
           z == line_stop
<1>1. /\ RtlReturn /\ rtl_pc = "exit" /\ rtl_pc' = "idle" /\ line_end' = line_end
      /\ line_start' = line_start /\ line_limit' = line_limit
      /\ in_ram' = in_ram /\ orig' = orig /\ shown' = shown
      /\ wrap_pc' = IF wrap_pc = "rtl1" THEN "handler" ELSE "idle"
  BY DEF EndStep, RtlReturn
<1>2. IInv'
  BY EndStepKeeps
<1>3. touches_line /\ touches_line' /\ line_stop' = line_stop
  <2>1. touches_line
    BY <1>1, LineFacts
  <2>2. DOMAIN text' = DOMAIN text
    BY <1>1, <1>2, LineFacts DEF IInv, TypeOK
  <2> QED BY <1>1, <2>1, <2>2 DEF touches_line, line_stop
<1>4. line_end = z /\ wrap_pc \in {"rtl1", "rtl2"} /\ RtlInv /\ \A m1, m2 \in shown : m1 = m2
  BY <1>1, <1>3, LineFacts DEF RedrawInv, IInv
<1>5. n \in Nat /\ a \in 1 .. n + 1 /\ z \in a .. n + 1 /\ line_limit \in a .. n + 1
  BY LineFacts
<1>6. ASSUME NEW u, SameLine(u), Progress(u)
      PROVE  /\ Pass(n, u, text', a, z) /\ Settled(text', a, z) /\ SameLine(text')
             /\ u \in [1 .. n -> Nat]
  <2>1. PlainRunes(n, u) /\ u \in [1 .. n -> Nat] /\ TrimPoint(u, a, line_limit, z)
    BY <1>6 DEF SameLine, PlainRunes
  <2>2. Pass(n, u, text', a, z)
    BY <1>1, <1>4, <1>6, <2>1, ReturnPasses
  <2> HIDE DEF n, a, z
  <2>3. Settled(text', a, z)
    BY <1>5, <2>1, <2>2, PassSettles
  <2>4. PlainRunes(n, text') /\ TrimPoint(text', a, line_limit, z)
    BY <1>5, <2>1, <2>2, PassPlain, PassTrim
  <2> QED BY <2>1, <2>2, <2>3, <2>4 DEF SameLine, n, a, z
<1>7. CASE wrap_pc = "rtl1"
  <2>1. PICK u : BeforeHandler(u) /\ Progress(u)
    BY <1>3, <1>7 DEF RedrawInv
  <2>2. SameLine(u) /\ (OrigSettled => u = orig)
    BY <2>1 DEF BeforeHandler
  <2>3. /\ Pass(n, u, text', a, z) /\ Settled(text', a, z) /\ SameLine(text')
        /\ u \in [1 .. n -> Nat]
    BY <1>6, <2>1, <2>2
  <2>4. \A m \in shown : m = text'
    <3>1. SUFFICES ASSUME NEW m \in shown PROVE m = text'
      OBVIOUS
    <3>2. m \in [1 .. n -> Nat] /\ Settled(m, a, z) /\ Pass(n, m, u, a, z)
      BY <2>1 DEF BeforeHandler
    <3> HIDE DEF n, a, z
    <3> QED BY <1>5, <2>3, <3>2, PassTwice
  <2>5. ForHandler(text)'
    BY <1>1, <1>3, <2>2, <2>3, <2>4 DEF ForHandler, SameLine, OrigSettled
  <2> QED BY <1>1, <1>3, <1>4, <1>7, <2>5 DEF RedrawInv
<1>8. CASE wrap_pc = "rtl2"
  <2>1. PICK u : ForHandler(u) /\ u \in shown /\ Progress(u)
    BY <1>3, <1>8 DEF RedrawInv
  <2>2. /\ SameLine(u) /\ Settled(u, a, z) /\ \A m \in shown : m = u
        /\ OrigSettled => Pass(n, orig, u, a, z)
    BY <2>1 DEF ForHandler
  <2>3. /\ Pass(n, u, text', a, z) /\ Settled(text', a, z) /\ SameLine(text')
        /\ u \in [1 .. n -> Nat]
    BY <1>6, <2>1, <2>2
  <2>4. OrigSettled => text' = orig
    <3>1. orig \in [1 .. n -> Nat]
      BY LineFacts
    <3> HIDE DEF n, a, z
    <3>2. OrigSettled => Settled(orig, a, z)
      BY DEF OrigSettled, a, z
    <3> QED BY <1>5, <2>2, <2>3, <3>1, <3>2, PassTwice
  <2>5. BeforeHandler(text)'
    BY <1>1, <1>3, <2>2, <2>3, <2>4 DEF BeforeHandler, SameLine, OrigSettled
  <2> QED BY <1>1, <1>3, <1>4, <1>8, <2>5 DEF RedrawInv
<1> QED BY <1>4, <1>7, <1>8

LEMMA OtherDraws ==
  ASSUME IInv, UnmarkedText, RedrawInv, Draw \/ SkipStep \/ RenderHandler \/ UNCHANGED vars
  PROVE  RedrawInv'
<1>1. /\ text' = text /\ rtl_locals' = rtl_locals
      /\ orig' = orig /\ line_start' = line_start /\ line_limit' = line_limit
      /\ in_ram' = in_ram
  BY DEF Draw, SkipStep, RenderHandler, vars, wrap_vars
<1>2. /\ rtl_pc' = rtl_pc /\ line_end' = line_end /\ iter_ptr' = iter_ptr
      /\ next_codept_ptr' = next_codept_ptr /\ rtl_span_start' = rtl_span_start
      /\ weak_ltr_span_start' = weak_ltr_span_start
  BY <1>1 DEF rtl_locals
<1>3. touches_line' = touches_line /\ line_stop' = line_stop
  BY <1>1 DEF touches_line, line_stop
<1>4. CASE ~touches_line
  <2>1. shown' = shown \/ shown' = shown \union {text}
    BY DEF Draw, SkipStep, RenderHandler, vars, wrap_vars
  <2> QED BY <1>1, <1>3, <1>4, <2>1 DEF RedrawInv
<1>5. CASE touches_line /\ Draw
  <2>1. wrap_pc = "idle" /\ wrap_pc' = "step1" /\ shown' = shown
    BY <1>5 DEF Draw
  <2>2. BeforeHandler(text) /\ (\A m1, m2 \in shown : m1 = m2) /\ (rtl_pc # "idle" => line_end = line_stop)
    BY <1>5, <2>1 DEF RedrawInv
  <2>3. BeforeHandler(text)'
    BY <1>1, <1>3, <2>1, <2>2 DEF BeforeHandler, SameLine, OrigSettled
  <2> QED BY <1>1, <1>2, <1>3, <1>5, <2>1, <2>2, <2>3 DEF RedrawInv
<1>6. CASE touches_line /\ RenderHandler
  <2>1. wrap_pc = "handler" /\ wrap_pc' = "step2" /\ shown' = shown \union {text}
    BY <1>6 DEF RenderHandler
  <2>2. ForHandler(text) /\ (rtl_pc # "idle" => line_end = line_stop)
    BY <1>6, <2>1 DEF RedrawInv
  <2>3. shown' = {text}
    BY <2>1, <2>2 DEF ForHandler
  <2>4. ForHandler(text)'
    BY <1>1, <1>3, <2>2, <2>3 DEF ForHandler, SameLine, OrigSettled
  <2> QED BY <1>1, <1>2, <1>3, <1>6, <2>1, <2>2, <2>3, <2>4 DEF RedrawInv
<1>7. CASE UNCHANGED vars
  <2>1. wrap_pc' = wrap_pc /\ shown' = shown
    BY <1>7 DEF vars, wrap_vars
  <2>2. \A u : Progress(u)' <=> Progress(u)
    BY <1>1, <1>2 DEF Progress, in_span
  <2>3. \A u : BeforeHandler(u)' <=> BeforeHandler(u)
    BY <1>1, <1>3, <2>1 DEF BeforeHandler, SameLine, OrigSettled
  <2>4. \A u : ForHandler(u)' <=> ForHandler(u)
    BY <1>1, <1>3, <2>1 DEF ForHandler, SameLine, OrigSettled
  <2> QED BY <1>1, <1>2, <1>3, <2>1, <2>2, <2>3, <2>4 DEF RedrawInv
<1>8. CASE touches_line /\ SkipStep
  BY <1>8 DEF SkipStep
<1> QED BY <1>4, <1>5, <1>6, <1>7, <1>8

LEMMA RedrawInvariance ==
  Spec => [](UnmarkedText => RedrawInv)
<1>1. Init => (UnmarkedText => RedrawInv)
  BY RedrawInit
<1>2. IInv /\ (UnmarkedText => RedrawInv) /\ [Next]_vars => (UnmarkedText => RedrawInv)'
  <2>1. SUFFICES ASSUME IInv, UnmarkedText => RedrawInv, [Next]_vars, UnmarkedText' PROVE RedrawInv'
    OBVIOUS
  <2>2. orig' = orig
    BY <2>1 DEF Next, Draw, render_rtl_step, SkipStep, RtlStep, EndStep, RenderHandler, vars,
           wrap_vars
  <2>3. UnmarkedText /\ RedrawInv
    BY <2>1, <2>2 DEF UnmarkedText, Unmarked
  <2>4. CASE render_rtl_step
    BY <2>1, <2>3, <2>4, CallDraws
  <2>5. CASE RtlStep
    BY <2>1, <2>3, <2>5, IterationDraws
  <2>6. CASE EndStep
    BY <2>1, <2>3, <2>6, EndDraws
  <2>7. CASE Draw \/ SkipStep \/ RenderHandler \/ UNCHANGED vars
    BY <2>1, <2>3, <2>7, OtherDraws
  <2> QED BY <2>1, <2>4, <2>5, <2>6, <2>7 DEF Next
<1> QED BY <1>1, <1>2, Invariance, PTL DEF Spec

\* What the handler shows of a line without marks is the same on every draw,
\* although the second pass of the stub may not undo the first: a pass leaves
\* a line on which two more passes have no effect.
THEOREM RedrawAlwaysStable == Spec => []RedrawStable
<1>1. (UnmarkedText => RedrawInv) => RedrawStable
  BY DEF UnmarkedText, RedrawInv, RedrawStable
<1> QED BY <1>1, RedrawInvariance, PTL

-----------------------------------------------------------------------------
(***************************************************************************)
(* Clean lines are settled, so that the second pass undoes the first.      *)
(***************************************************************************)

\* The positions x .. y are a maximal run of a set of positions.
MaxRun(at, x, y) ==
  /\ x \in at /\ y \in at /\ x .. y # {} /\ x .. y \subseteq at
  /\ x - 1 \notin at /\ y + 1 \notin at

LEMMA MaxRunAround ==
  ASSUME NEW n \in Nat, NEW at \in SUBSET (1 .. n), NEW k \in at
  PROVE  \E x \in 1 .. k, y \in k .. n : MaxRun(at, x, y)
<1> DEFINE S == { i \in 1 .. k : i .. k \subseteq at }
           T == { i \in k .. n : i + 1 \notin at }
<1>0. k \in 1 .. n
  OBVIOUS
<1>1. S \subseteq Nat /\ k \in S /\ T \subseteq Nat /\ n \in T
  BY <1>0
<1>2. PICK x \in S : \A i \in S : x <= i
  <2> HIDE DEF S
  <2> QED BY <1>1, LeastNat
<1>3. PICK y \in T : \A i \in T : y <= i
  <2> HIDE DEF T
  <2> QED BY <1>1, LeastNat
<1>4. x \in 1 .. k /\ x .. k \subseteq at /\ y \in k .. n /\ y + 1 \notin at
  OBVIOUS
<1>5. x - 1 \notin at
  <2>1. SUFFICES ASSUME x - 1 \in at PROVE FALSE
    OBVIOUS
  <2>2. \A j \in x - 1 .. k : j \in x .. k \/ j = x - 1
    BY <1>0, <1>4
  <2>3. x - 1 \in S
    BY <1>0, <1>4, <2>1, <2>2
  <2>4. x <= x - 1
    BY ONLY <1>2, <2>3
  <2> QED BY <1>4, <2>4
<1>7. x .. y \subseteq at
  <2>1. SUFFICES ASSUME NEW i \in x .. y, i \notin at PROVE FALSE
    OBVIOUS
  <2>2. i \in k + 1 .. y
    BY <1>0, <1>4, <2>1
  <2>3. i - 1 \in k .. n /\ (i - 1) + 1 = i
    BY <1>0, <1>4, <2>2
  <2>4. i - 1 \in T
    BY <2>1, <2>3
  <2>5. y <= i - 1
    BY ONLY <1>3, <2>4
  <2> QED BY <1>0, <1>4, <2>2, <2>5
<1> HIDE DEF S, T
<1>8. MaxRun(at, x, y)
  <2>1. x \in x .. y /\ y \in x .. y
    BY <1>0, <1>4
  <2> QED BY <1>4, <1>5, <1>7, <2>1 DEF MaxRun
<1> QED BY <1>4, <1>8

SoftAt(t) == { i \in DOMAIN t : Soft(t[i]) }

\* The positions x .. y of a text are a maximal run of neutrals and numerals.
SoftRun(t, x, y) ==
  /\ x \in DOMAIN t /\ y \in DOMAIN t /\ x <= y
  /\ \A i \in x .. y : Soft(t[i])
  /\ x - 1 \in DOMAIN t => ~Soft(t[x - 1])
  /\ y + 1 \in DOMAIN t => ~Soft(t[y + 1])

LEMMA SoftRunAround ==
  ASSUME NEW n \in Nat, NEW t \in [1 .. n -> Nat], NEW k \in 1 .. n, Soft(t[k])
  PROVE  \E x \in 1 .. k, y \in k .. n : SoftRun(t, x, y)
<1>1. SoftAt(t) \in SUBSET (1 .. n) /\ k \in SoftAt(t)
  BY DEF SoftAt
<1>2. PICK x \in 1 .. k, y \in k .. n : MaxRun(SoftAt(t), x, y)
  BY <1>1, MaxRunAround
<1>3. SoftRun(t, x, y)
  BY <1>2 DEF SoftRun, MaxRun, SoftAt
<1> QED BY <1>3

\* What a clean line says of a run after an RTL rune.
CleanAfter(t, x, y) ==
  /\ y + 1 \in DOMAIN t
  /\ StrongRtl(t[y + 1]) => (\A i \in x .. y : ~Weak(t[i])) \/ (Weak(t[x]) /\ Weak(t[y]))
  /\ StrongLtr(t[y + 1]) => x = y /\ ~Weak(t[x])

LEMMA CleanRun ==
  ASSUME NEW n \in Nat, NEW t \in [1 .. n -> Nat], Clean(t), NEW x \in 1 .. n, NEW y \in 1 .. n,
         SoftRun(t, x, y), x - 1 \in 1 .. n, StrongRtl(t[x - 1])
  PROVE  CleanAfter(t, x, y)
<1> DEFINE at == { i \in DOMAIN t : Soft(t[i]) }
           r == <<x, y>>
<1>1. DOMAIN t = 1 .. n
  OBVIOUS
<1>2. x \in at /\ y \in at /\ x \in x .. y
  BY <1>1 DEF SoftRun
<1>3. x .. y \subseteq at /\ x - 1 \notin at /\ y + 1 \notin at
  BY <1>1 DEF SoftRun
<1>4. r \in Runs(t, Soft)
  BY <1>2, <1>3 DEF Runs
<1> QED BY <1>1, <1>4 DEF Clean, CleanAfter

\* The line of a buffer as a text of its own.
LEMMA LineIs ==
  ASSUME IInv, NEW t \in [1 .. Len(orig) -> Nat]
  PROVE  /\ LineOf(t) \in [1 .. line_stop - line_start -> Nat]
         /\ line_stop - line_start \in Nat
         /\ \A i \in 1 .. line_stop - line_start : LineOf(t)[i] = t[i + line_start - 1]
<1>1. /\ Len(orig) \in Nat
      /\ line_start \in 1 .. Len(orig) + 1 /\ line_stop \in line_start .. Len(orig) + 1
  BY LineFacts
<1>s. t \in Seq(Nat) /\ Len(t) = Len(orig)
  BY <1>1
<1>2. LineOf(t) = [i \in 1 .. (line_stop - 1) - line_start + 1 |-> t[i + line_start - 1]]
  <2>1. line_stop - 1 \in line_start - 1 .. Len(orig)
    BY <1>1
  <2>2. LineOf(t) = SubSeq(t, line_start, line_stop - 1)
    BY DEF LineOf, line_stop
  <2> QED BY <1>1, <1>s, <2>1, <2>2
<1>3. (line_stop - 1) - line_start + 1 = line_stop - line_start
  BY <1>1
<1>4. \A i \in 1 .. line_stop - line_start : t[i + line_start - 1] \in Nat
  BY <1>1
<1>5. LineOf(t) = [i \in 1 .. line_stop - line_start |-> t[i + line_start - 1]]
  BY <1>2, <1>3
<1>6. line_stop - line_start \in Nat
  BY <1>1
<1> QED BY ONLY <1>4, <1>5, <1>6

LEMMA CleanSettled ==
  ASSUME IInv, Clean(LineOf(orig))
  PROVE  OrigSettled
<1> DEFINE n == Len(orig)
           a == line_start
           z == line_stop
           l == LineOf(orig)
           m == z - a
           u == orig
<1>1. /\ n \in Nat /\ u \in [1 .. n -> Nat] /\ a \in 1 .. n + 1 /\ z \in a .. n + 1
  BY LineFacts
<1>2. l \in [1 .. m -> Nat] /\ m \in Nat /\ \A i \in 1 .. m : l[i] = u[i + a - 1]
  BY <1>1, LineIs
<1>3. Clean(l)
  OBVIOUS
<1>a. OrigSettled <=> Settled(u, a, z)
  BY DEF OrigSettled
<1> HIDE DEF n, a, z, l, m, u
<1>m. m = z - a
  BY DEF m
<1>4. SUFFICES ASSUME NEW s \in Nat, NEW e \in Nat, LineSpan(u, a, z, s, e)
               PROVE  SettledSpan(u, s, e)
  BY <1>a DEF Settled
<1>5. /\ a <= s /\ s < e /\ e <= z /\ StrongRtl(u[s])
      /\ \A i \in s .. e - 1 : ~StrongLtr(u[i])
      /\ \/ e = z
         \/ StrongLtr(u[e]) /\ (Soft(u[e - 1]) => Ctl(u[e]))
         \/ e + 1 < z /\ Soft(u[e]) /\ StrongLtr(u[e + 1])
  BY <1>4 DEF LineSpan
<1>6. \A i \in a .. z - 1 : i - a + 1 \in 1 .. m /\ l[i - a + 1] = u[i] /\ u[i] \in Nat
  BY <1>1, <1>2, <1>m
\* The run of neutrals and numerals at a position of the span.
<1>7. ASSUME NEW k \in s .. e - 1, Soft(u[k])
      PROVE  \E x \in s + 1 .. k, y \in k .. z - 2 :
               /\ \A i \in x .. y : Soft(u[i])
               /\ ~Soft(u[y + 1])
               /\ StrongRtl(u[y + 1]) => (\A i \in x .. y : ~Weak(u[i])) \/ Weak(u[x])
               /\ StrongLtr(u[y + 1]) => x = y
  <2>1. k \in a .. z - 1 /\ k - a + 1 \in 1 .. m /\ Soft(l[k - a + 1])
    BY <1>1, <1>5, <1>6, <1>7
  <2>2. PICK f \in 1 .. k - a + 1, g \in k - a + 1 .. m : SoftRun(l, f, g)
    BY <1>2, <2>1, SoftRunAround
  <2> DEFINE x == f + a - 1
             y == g + a - 1
  <2>3. /\ f \in 1 .. m /\ g \in 1 .. m /\ f = x - a + 1 /\ g = y - a + 1
        /\ x \in a .. k /\ y \in k .. z - 1
    BY <1>1, <1>2, <1>m, <2>1
  <2>4. DOMAIN l = 1 .. m
    BY <1>2
  <2> HIDE DEF x, y
  <2>5. \A i \in x .. y : i - a + 1 \in f .. g /\ l[i - a + 1] = u[i] /\ Soft(u[i])
    <3>1. SUFFICES ASSUME NEW i \in x .. y PROVE i - a + 1 \in f .. g /\ l[i - a + 1] = u[i] /\ Soft(u[i])
      OBVIOUS
    <3>2. i - a + 1 \in f .. g /\ i \in a .. z - 1
      BY <1>1, <2>3
    <3> QED BY <1>6, <2>2, <3>2 DEF SoftRun
  <2>6. x - 1 \in s .. k /\ StrongRtl(u[x - 1])
    <3>1. ~(x <= s)
      <4>1. SUFFICES ASSUME x <= s PROVE FALSE
        OBVIOUS
      <4>2. s \in x .. y /\ s \in a .. z - 1
        BY <1>1, <1>5, <1>7, <2>3, <4>1
      <4> QED BY <1>5, <1>6, <2>5, <4>2, RuneClasses
    <3>2. x - 1 \in s .. e - 1 /\ x - 1 \in a .. z - 1 /\ x - 1 \in s .. k
      BY <1>1, <1>5, <2>3, <3>1
    <3>3. (x - 1) - a + 1 = f - 1 /\ f - 1 \in 1 .. m
      <4>1. x \in Int /\ a \in Int /\ f \in Int /\ (x - 1) - a + 1 = f - 1
        BY <1>1, <2>3
      <4>2. (x - 1) - a + 1 \in 1 .. m
        BY <1>6, <3>2
      <4> QED BY <4>1, <4>2
    <3>4. ~Soft(u[x - 1])
      BY <1>6, <2>2, <2>4, <3>2, <3>3 DEF SoftRun
    <3> QED BY <1>5, <1>6, <3>2, <3>4, RuneClasses
  <2>7. f - 1 \in 1 .. m /\ StrongRtl(l[f - 1])
    <3>1. x - 1 \in a .. z - 1 /\ (x - 1) - a + 1 = f - 1
      BY <1>1, <1>5, <2>3, <2>6
    <3> QED BY <1>6, <2>6, <3>1
  <2>8. /\ g + 1 \in 1 .. m
        /\ StrongRtl(l[g + 1]) => (\A i \in f .. g : ~Weak(l[i])) \/ (Weak(l[f]) /\ Weak(l[g]))
        /\ StrongLtr(l[g + 1]) => f = g /\ ~Weak(l[f])
    <3>1. CleanAfter(l, f, g)
      BY <1>2, <1>3, <2>2, <2>3, <2>7, CleanRun
    <3> QED BY <2>4, <3>1 DEF CleanAfter
  <2>9. y \in k .. z - 2 /\ y + 1 \in a .. z - 1 /\ l[g + 1] = u[y + 1] /\ x \in s + 1 .. k /\ l[f] = u[x]
    <3>1. y + 1 \in a .. z - 1 /\ (y + 1) - a + 1 = g + 1 /\ x \in a .. z - 1
      BY <1>1, <1>m, <2>1, <2>3, <2>8
    <3>2. y \in k .. z - 2 /\ x \in s + 1 .. k
      BY <1>1, <1>5, <2>3, <2>6, <3>1
    <3> QED BY <1>6, <2>3, <3>1, <3>2
  <2>10. ~Soft(u[y + 1])
    BY <2>2, <2>4, <2>8, <2>9 DEF SoftRun
  <2>11. StrongRtl(u[y + 1]) => (\A i \in x .. y : ~Weak(u[i])) \/ Weak(u[x])
    BY <2>5, <2>8, <2>9
  <2>12. StrongLtr(u[y + 1]) => x = y
    BY <1>1, <2>3, <2>8, <2>9
  <2>13. \A i \in x .. y : Soft(u[i])
    BY <2>5
  <2> QED BY <2>9, <2>10, <2>11, <2>12, <2>13
<1>8. StrongRtl(u[e - 1])
  <2>1. e - 1 \in s .. e - 1 /\ e - 1 \in a .. z - 1
    BY <1>1, <1>5
  <2>2. SUFFICES ASSUME Soft(u[e - 1]) PROVE FALSE
    BY <1>5, <1>6, <2>1, RuneClasses
  <2>3. PICK x \in s + 1 .. e - 1, y \in e - 1 .. z - 2 :
               /\ \A i \in x .. y : Soft(u[i])
               /\ ~Soft(u[y + 1])
               /\ StrongLtr(u[y + 1]) => x = y
    BY <1>7, <2>1, <2>2
  <2>4. e # z
    BY <1>1
  <2>5. e \in a .. z - 1 /\ u[e] \in Nat
    BY <1>1, <1>5, <1>6, <2>4
  <2>6. ~Ctl(u[e])
    <3>1. e - a + 1 \in DOMAIN l /\ l[e - a + 1] = u[e]
      BY <1>2, <1>6, <2>5
    <3>2. codept(u[e]) >= \h20 /\ codept(u[e]) \in Nat
      BY <1>3, <2>5, <3>1 DEF Clean, codept
    <3> QED BY <3>2 DEF Ctl
  <2>7. e + 1 < z /\ Soft(u[e]) /\ StrongLtr(u[e + 1])
    BY <1>5, <2>2, <2>4, <2>6
  <2>8. y = e
    <3>1. y # e - 1
      BY <2>3, <2>7
    <3>2. e + 1 \in a .. z - 1 /\ ~Soft(u[e + 1])
      BY <1>1, <1>6, <2>5, <2>7, RuneClasses
    <3>3. e + 1 \notin x .. y
      BY <2>3, <3>2
    <3> QED BY <1>5, <3>1, <3>3
  <2> QED BY <1>5, <2>3, <2>7, <2>8
<1>9. ASSUME NEW b \in s .. e, NEW c \in s .. e, NumeralRun(u, s, b, c)
      PROVE  StrongRtl(u[b - 1])
  <2>1. /\ s < b /\ b < c /\ Weak(u[b])
        /\ \A k \in s .. b - 1 : Weak(u[k]) => \E j \in k + 1 .. b - 1 : StrongRtl(u[j])
    BY <1>9 DEF NumeralRun
  <2>2. b \in s .. e - 1 /\ b - 1 \in s .. e - 1 /\ b \in a .. z - 1 /\ b - 1 \in a .. z - 1
    BY <1>1, <1>5, <2>1
  <2>3. SUFFICES ASSUME Soft(u[b - 1]) PROVE FALSE
    BY <1>5, <1>6, <2>2, RuneClasses
  <2>4. Soft(u[b])
    BY <1>6, <2>1, <2>2, RuneClasses
  <2>5. PICK x \in s + 1 .. b - 1, y \in b - 1 .. z - 2 :
               /\ \A i \in x .. y : Soft(u[i])
               /\ ~Soft(u[y + 1])
               /\ StrongRtl(u[y + 1]) => (\A i \in x .. y : ~Weak(u[i])) \/ Weak(u[x])
               /\ StrongLtr(u[y + 1]) => x = y
    BY <1>7, <2>2, <2>3
  <2>6. y # b - 1 /\ b \in x .. y
    <3>1. y # b - 1
      BY <2>1, <2>2, <2>4, <2>5
    <3> QED BY <1>5, <2>1, <3>1
  <2>7. StrongRtl(u[y + 1])
    <3>1. y + 1 \in a .. z - 1 /\ x # y
      BY <1>1, <1>5, <2>1, <2>6
    <3> QED BY <1>6, <2>5, <3>1, RuneClasses
  <2>8. Weak(u[x])
    BY <2>1, <2>5, <2>6, <2>7
  <2>9. PICK j \in x + 1 .. b - 1 : StrongRtl(u[j])
    <3>1. x \in s .. b - 1
      BY <1>5
    <3> QED BY <2>1, <2>8, <3>1
  <2>10. j \in x .. y /\ j \in a .. z - 1
    BY <1>1, <1>5, <2>2, <2>6
  <2> QED BY <1>6, <2>5, <2>9, <2>10, RuneClasses
<1> QED BY <1>8, <1>9 DEF SettledSpan

\* On such a line without marks the second pass of the stub undoes the first:
\* after each draw the application has its text back.
THEOREM PlainLinesRestored ==
  Spec => [](UnmarkedText /\ Clean(LineOf(orig)) /\ wrap_pc = "idle" => text = orig)
<1>1. IInv /\ (UnmarkedText => RedrawInv) =>
        (UnmarkedText /\ Clean(LineOf(orig)) /\ wrap_pc = "idle" => text = orig)
  BY CleanSettled DEF RedrawInv, BeforeHandler
<1> QED BY <1>1, Invariance, RedrawInvariance, PTL

-----------------------------------------------------------------------------
(***************************************************************************)
(* What the handler is given of a clean line is the visual order.          *)
(***************************************************************************)

\* A maximal run holds every stretch of the set that meets it.
Meets(n, at, x, y, b, c) ==
  /\ n \in Nat /\ at \in SUBSET (1 .. n) /\ x \in 1 .. n /\ y \in 1 .. n /\ MaxRun(at, x, y)
  /\ b \in Int /\ c \in Int /\ b <= c /\ b .. c \subseteq at /\ b <= y /\ x <= c

LEMMA MaxRunHolds ==
  ASSUME NEW n, NEW at, NEW x, NEW y, NEW b, NEW c, Meets(n, at, x, y, b, c)
  PROVE  x <= b /\ c <= y
<1>0. /\ n \in Nat /\ at \in SUBSET (1 .. n) /\ x \in 1 .. n /\ y \in 1 .. n /\ MaxRun(at, x, y)
      /\ b \in Int /\ c \in Int /\ b <= c /\ b .. c \subseteq at /\ b <= y /\ x <= c
  BY DEF Meets
<1>1. ~(b < x)
  <2>1. SUFFICES ASSUME b < x PROVE FALSE
    OBVIOUS
  <2>2. x - 1 \in b .. c
    BY <1>0, <2>1
  <2> QED BY <1>0, <2>2 DEF MaxRun
<1>2. ~(y < c)
  <2>1. SUFFICES ASSUME y < c PROVE FALSE
    OBVIOUS
  <2>2. y + 1 \in b .. c
    BY <1>0, <2>1
  <2> QED BY <1>0, <2>2 DEF MaxRun
<1> QED BY <1>0, <1>1, <1>2

NotLtr(t) == { i \in DOMAIN t : ~StrongLtr(t[i]) }

SpanPair(t, x, y) ==
  /\ x \in DOMAIN t /\ y \in DOMAIN t /\ StrongRtl(t[x]) /\ StrongRtl(t[y])
  /\ \E f, g \in DOMAIN t :
       /\ MaxRun(NotLtr(t), f, g) /\ f <= x /\ y <= g
       /\ \A i \in f .. g : i \in DOMAIN t /\ StrongRtl(t[i]) => i \in x .. y

LEMMA SpansSpec ==
  ASSUME NEW t
  PROVE  /\ \A x, y : <<x, y>> \in Spans(t) <=> SpanPair(t, x, y)
         /\ \A r \in Spans(t) : r = <<r[1], r[2]>>
<1> DEFINE at == NotLtr(t)
           runs == { r \in at \X at : /\ r[1] .. r[2] # {} /\ r[1] .. r[2] \subseteq at
                                      /\ r[1] - 1 \notin at /\ r[2] + 1 \notin at }
           rtl == { i \in DOMAIN t : StrongRtl(t[i]) }
<1>1. Spans(t) = { s \in rtl \X rtl : \E r \in runs :
          r[1] <= s[1] /\ s[2] <= r[2] /\ (r[1] .. r[2]) \cap rtl \subseteq s[1] .. s[2] }
  BY DEF Spans, Runs, NotLtr
<1>2. ASSUME NEW x, NEW y, <<x, y>> \in Spans(t) PROVE SpanPair(t, x, y)
  <2>1. x \in rtl /\ y \in rtl
    BY <1>1, <1>2
  <2>2. PICK r \in runs : r[1] <= x /\ y <= r[2] /\ (r[1] .. r[2]) \cap rtl \subseteq x .. y
    BY <1>1, <1>2
  <2>3. /\ r[1] \in at /\ r[2] \in at /\ r[1] .. r[2] # {} /\ r[1] .. r[2] \subseteq at
        /\ r[1] - 1 \notin at /\ r[2] + 1 \notin at
    OBVIOUS
  <2>4. r[1] \in DOMAIN t /\ r[2] \in DOMAIN t
    BY <2>3 DEF NotLtr
  <2>5. MaxRun(NotLtr(t), r[1], r[2])
    BY <2>3 DEF MaxRun
  <2> QED BY <2>1, <2>2, <2>4, <2>5 DEF SpanPair
<1>3. ASSUME NEW x, NEW y, SpanPair(t, x, y) PROVE <<x, y>> \in Spans(t)
  <2>1. PICK f \in DOMAIN t, g \in DOMAIN t :
          /\ MaxRun(NotLtr(t), f, g) /\ f <= x /\ y <= g
          /\ \A i \in f .. g : i \in DOMAIN t /\ StrongRtl(t[i]) => i \in x .. y
    BY <1>3 DEF SpanPair
  <2>2. <<f, g>> \in runs
    BY <2>1 DEF MaxRun
  <2>3. <<x, y>> \in rtl \X rtl
    BY <1>3 DEF SpanPair
  <2>4. (f .. g) \cap rtl \subseteq x .. y
    BY <2>1
  <2> HIDE DEF runs, rtl
  <2> QED BY <1>1, <2>1, <2>2, <2>3, <2>4
<1>4. ASSUME NEW r \in Spans(t) PROVE r = <<r[1], r[2]>>
  BY <1>1
<1> QED BY <1>2, <1>3, <1>4

NumeralPair(t, x, y) == MaxRun(SoftAt(t), x, y) /\ Weak(t[x])
Numerals(t) == { r \in Runs(t, Soft) : Weak(t[r[1]]) }

LEMMA NumeralsSpec ==
  ASSUME NEW t
  PROVE  /\ \A x, y : <<x, y>> \in Numerals(t) <=> NumeralPair(t, x, y)
         /\ \A r \in Numerals(t) : r = <<r[1], r[2]>>
<1> DEFINE at == SoftAt(t)
<1>1. Numerals(t) = { r \in { r \in at \X at : /\ r[1] .. r[2] # {} /\ r[1] .. r[2] \subseteq at
                                              /\ r[1] - 1 \notin at /\ r[2] + 1 \notin at } :
                       Weak(t[r[1]]) }
  BY DEF Numerals, Runs, SoftAt
<1> HIDE DEF at
<1>2. ASSUME NEW x, NEW y PROVE <<x, y>> \in Numerals(t) <=> NumeralPair(t, x, y)
  BY <1>1 DEF NumeralPair, MaxRun, at
<1>3. \A r \in Numerals(t) : r = <<r[1], r[2]>>
  BY <1>1
<1> QED BY <1>2, <1>3

\* l is the line a .. z - 1 of u as a text of its own; a pass could have left it.
SettledView(n, u, a, z, m, l) ==
  /\ n \in Nat /\ u \in [1 .. n -> Nat] /\ a \in 1 .. n + 1 /\ z \in a .. n + 1
  /\ m = z - a /\ l \in [1 .. m -> Nat] /\ \A i \in 1 .. m : l[i] = u[i + a - 1]
  /\ Settled(u, a, z)

LEMMA ViewFacts ==
  ASSUME NEW n, NEW u, NEW a, NEW z, NEW m, NEW l, SettledView(n, u, a, z, m, l)
  PROVE  /\ n \in Nat /\ u \in [1 .. n -> Nat] /\ a \in 1 .. n + 1 /\ z \in a .. n + 1
         /\ m = z - a /\ m \in Nat /\ l \in [1 .. m -> Nat] /\ DOMAIN l = 1 .. m
         /\ \A i \in 1 .. m : /\ i + a - 1 \in a .. z - 1 /\ l[i] = u[i + a - 1] /\ l[i] \in Nat
                              /\ i + a - 1 \in 1 .. n
         /\ \A k \in a .. z - 1 : k - a + 1 \in 1 .. m /\ l[k - a + 1] = u[k] /\ u[k] \in Nat
         /\ NotLtr(l) \in SUBSET (1 .. m) /\ SoftAt(l) \in SUBSET (1 .. m)
         /\ Settled(u, a, z)
<1>1. /\ n \in Nat /\ u \in [1 .. n -> Nat] /\ a \in 1 .. n + 1 /\ z \in a .. n + 1
      /\ m = z - a /\ l \in [1 .. m -> Nat] /\ \A i \in 1 .. m : l[i] = u[i + a - 1]
      /\ Settled(u, a, z)
  BY DEF SettledView
<1>2. m \in Nat /\ DOMAIN l = 1 .. m
  BY <1>1
<1>3. \A i \in 1 .. m : i + a - 1 \in a .. z - 1 /\ l[i] \in Nat /\ i + a - 1 \in 1 .. n
  BY <1>1
<1>4. \A k \in a .. z - 1 : k - a + 1 \in 1 .. m /\ l[k - a + 1] = u[k] /\ u[k] \in Nat
  <2>1. SUFFICES ASSUME NEW k \in a .. z - 1
                 PROVE  k - a + 1 \in 1 .. m /\ l[k - a + 1] = u[k] /\ u[k] \in Nat
    OBVIOUS
  <2>2. k - a + 1 \in 1 .. m /\ (k - a + 1) + a - 1 = k /\ k \in 1 .. n
    BY <1>1
  <2> QED BY <1>1, <2>2
<1>5. NotLtr(l) \in SUBSET (1 .. m) /\ SoftAt(l) \in SUBSET (1 .. m)
  BY <1>2 DEF NotLtr, SoftAt
<1> QED BY <1>1, <1>2, <1>3, <1>4, <1>5

\* A span of the pass is one of the stretches of the visual order.
LEMMA SpanIsPair ==
  ASSUME NEW n, NEW u, NEW a, NEW z, NEW m, NEW l, SettledView(n, u, a, z, m, l),
         NEW s \in Nat, NEW e \in Nat, LineSpan(u, a, z, s, e)
  PROVE  SpanPair(l, s - a + 1, e - a)
<1> DEFINE x == s - a + 1
           y == e - a
<1>1. /\ n \in Nat /\ u \in [1 .. n -> Nat] /\ a \in 1 .. n + 1 /\ z \in a .. n + 1
      /\ m = z - a /\ m \in Nat /\ l \in [1 .. m -> Nat] /\ DOMAIN l = 1 .. m
      /\ NotLtr(l) \in SUBSET (1 .. m) /\ Settled(u, a, z)
  BY ViewFacts
<1>2. \A k \in a .. z - 1 : k - a + 1 \in 1 .. m /\ l[k - a + 1] = u[k] /\ u[k] \in Nat
  BY ViewFacts
<1>3. \A i \in 1 .. m : i + a - 1 \in a .. z - 1 /\ l[i] = u[i + a - 1]
  BY ViewFacts
<1>4. /\ a <= s /\ s < e /\ e <= z /\ StrongRtl(u[s])
      /\ \A k \in s .. e - 1 : ~StrongLtr(u[k])
      /\ \A k \in a .. s - 1 : StrongRtl(u[k]) => \E j \in k + 1 .. s - 1 : StrongLtr(u[j])
      /\ e = z \/ StrongLtr(u[e]) \/ (e + 1 < z /\ Soft(u[e]) /\ StrongLtr(u[e + 1]))
  BY DEF LineSpan
<1>5. StrongRtl(u[e - 1])
  BY <1>1 DEF Settled, SettledSpan
<1>6. x \in 1 .. m /\ y \in 1 .. m /\ x <= y /\ StrongRtl(l[x]) /\ StrongRtl(l[y])
  <2>1. s \in a .. z - 1 /\ e - 1 \in a .. z - 1 /\ (e - 1) - a + 1 = e - a
    BY <1>1, <1>4
  <2>2. l[y] = u[e - 1] /\ y \in 1 .. m
    BY <1>2, <2>1
  <2>3. x <= y
    BY <1>1, <1>4
  <2> QED BY <1>2, <1>4, <1>5, <2>1, <2>2, <2>3
<1>7. x .. y \subseteq NotLtr(l)
  <2>1. SUFFICES ASSUME NEW i \in x .. y PROVE i \in NotLtr(l)
    OBVIOUS
  <2>2. i \in 1 .. m /\ i + a - 1 \in s .. e - 1
    BY <1>1, <1>6
  <2> QED BY <1>1, <1>3, <1>4, <2>2 DEF NotLtr
<1> HIDE DEF x, y
<1>8. x \in NotLtr(l)
  BY <1>6, <1>7
<1>9. PICK f \in 1 .. x, g \in x .. m : MaxRun(NotLtr(l), f, g)
  BY <1>1, <1>8, MaxRunAround
<1>10. f \in 1 .. m /\ g \in 1 .. m /\ f <= x /\ x <= g
  BY <1>1, <1>6
<1>11. y <= g
  <2>1. x \in Int /\ y \in Int /\ x <= y /\ f <= y
    BY <1>6, <1>10
  <2>2. Meets(m, NotLtr(l), f, g, x, y)
    BY ONLY <1>1, <1>7, <1>9, <1>10, <2>1 DEF Meets
  <2> QED BY ONLY <2>2, MaxRunHolds
\* The run holds no left-to-right rune.
<1>12. ASSUME NEW k \in f + a - 1 .. g + a - 1 PROVE k \in a .. z - 1 /\ ~StrongLtr(u[k])
  <2>1. k \in a .. z - 1 /\ k - a + 1 \in f .. g
    BY <1>1, <1>10
  <2>2. k - a + 1 \in NotLtr(l)
    BY <1>9, <2>1 DEF MaxRun
  <2> QED BY <1>2, <2>1, <2>2 DEF NotLtr
<1>13. ASSUME NEW i \in f .. g, i \in DOMAIN l, StrongRtl(l[i]) PROVE i \in x .. y
  <2> DEFINE k == i + a - 1
  <2>0. i \in 1 .. m
    BY <1>1, <1>13
  <2>a. k \in a .. z - 1 /\ StrongRtl(u[k])
    BY <1>3, <1>13, <2>0
  <2>1. k \in f + a - 1 .. g + a - 1 /\ k \in a .. z - 1 /\ StrongRtl(u[k])
    BY <1>1, <1>10, <2>0, <2>a
  <2>2. ~(i < x)
    <3>1. SUFFICES ASSUME i < x PROVE FALSE
      OBVIOUS
    <3>2. k \in a .. s - 1
      BY <1>1, <1>4, <2>1, <3>1 DEF x
    <3>3. PICK j \in k + 1 .. s - 1 : StrongLtr(u[j])
      BY <1>4, <2>1, <3>2
    <3>4. j \in f + a - 1 .. g + a - 1
      BY <1>1, <1>10, <2>1, <3>2 DEF x
    <3> QED BY <1>12, <3>3, <3>4
  <2>3. ~(y < i)
    <3>1. SUFFICES ASSUME y < i PROVE FALSE
      OBVIOUS
    <3>2. e <= k /\ e < z /\ e \in f + a - 1 .. g + a - 1
      BY <1>1, <1>4, <1>6, <1>10, <2>1, <3>1 DEF x, y
    <3>3. e + 1 < z /\ Soft(u[e]) /\ StrongLtr(u[e + 1])
      BY <1>1, <1>4, <1>12, <3>2
    <3>4. e # k
      BY <1>2, <2>1, <3>3, RuneClasses
    <3>5. e + 1 \in f + a - 1 .. g + a - 1
      BY <1>1, <1>10, <2>1, <3>2, <3>4
    <3> QED BY <1>12, <3>3, <3>5
  <2> QED BY <1>6, <2>2, <2>3
<1>14. SpanPair(l, x, y)
  BY <1>1, <1>6, <1>9, <1>10, <1>11, <1>13 DEF SpanPair
<1> QED BY <1>14 DEF x, y

\* Such a stretch is known by any of its positions.
PairsMeet(m, l, x, y, x2, y2) ==
  /\ m \in Nat /\ l \in [1 .. m -> Nat]
  /\ SpanPair(l, x, y) /\ SpanPair(l, x2, y2)
  /\ \E k \in x .. y : k \in x2 .. y2

LEMMA PairUnique ==
  ASSUME NEW m, NEW l, NEW x, NEW y, NEW x2, NEW y2, PairsMeet(m, l, x, y, x2, y2)
  PROVE  x = x2 /\ y = y2
<1>a. m \in Nat /\ l \in [1 .. m -> Nat] /\ SpanPair(l, x, y) /\ SpanPair(l, x2, y2)
  BY DEF PairsMeet
<1>b. PICK k \in x .. y : k \in x2 .. y2
  BY DEF PairsMeet
<1>0. DOMAIN l = 1 .. m /\ NotLtr(l) \in SUBSET (1 .. m)
  BY <1>a DEF NotLtr
<1>1. x \in 1 .. m /\ y \in 1 .. m /\ x2 \in 1 .. m /\ y2 \in 1 .. m
      /\ StrongRtl(l[x]) /\ StrongRtl(l[y]) /\ StrongRtl(l[x2]) /\ StrongRtl(l[y2])
  BY <1>a, <1>0 DEF SpanPair
<1>2. PICK f \in 1 .. m, g \in 1 .. m :
        /\ MaxRun(NotLtr(l), f, g) /\ f <= x /\ y <= g
        /\ \A i \in f .. g : i \in DOMAIN l /\ StrongRtl(l[i]) => i \in x .. y
  BY <1>a, <1>0 DEF SpanPair
<1>3. PICK f2 \in 1 .. m, g2 \in 1 .. m :
        /\ MaxRun(NotLtr(l), f2, g2) /\ f2 <= x2 /\ y2 <= g2
        /\ \A i \in f2 .. g2 : i \in DOMAIN l /\ StrongRtl(l[i]) => i \in x2 .. y2
  BY <1>a, <1>0 DEF SpanPair
<1>4. k \in Int /\ x <= k /\ k <= y /\ x2 <= k /\ k <= y2 /\ f <= g /\ f2 <= g2 /\ f2 <= g /\ f <= g2
  <2>1. f <= x /\ y <= g /\ f2 <= x2 /\ y2 <= g2
    BY <1>2, <1>3
  <2> QED BY <1>1, <1>b, <2>1
<1>5. f .. g \subseteq NotLtr(l) /\ f2 .. g2 \subseteq NotLtr(l)
  BY <1>2, <1>3 DEF MaxRun
<1>6. f <= f2 /\ g2 <= g
  <2>1. Meets(m, NotLtr(l), f, g, f2, g2)
    BY <1>a, <1>0, <1>2, <1>4, <1>5 DEF Meets
  <2> QED BY ONLY <2>1, MaxRunHolds
<1>7. f2 <= f /\ g <= g2
  <2>1. Meets(m, NotLtr(l), f2, g2, f, g)
    BY <1>a, <1>0, <1>3, <1>4, <1>5 DEF Meets
  <2> QED BY ONLY <2>1, MaxRunHolds
<1>c. f <= x /\ y <= g /\ f2 <= x2 /\ y2 <= g2
  BY <1>2, <1>3
<1>d. x2 \in f .. g /\ y2 \in f .. g /\ x \in f2 .. g2 /\ y \in f2 .. g2
  BY <1>1, <1>4, <1>6, <1>7, <1>c
<1>8. x2 \in x .. y /\ y2 \in x .. y
  BY <1>0, <1>1, <1>2, <1>d
<1>9. x \in x2 .. y2 /\ y \in x2 .. y2
  BY <1>0, <1>1, <1>3, <1>d
<1> QED BY <1>1, <1>8, <1>9

\* The position of the line that the visual order takes the rune of k from.
LEMMA MirroredSpan ==
  ASSUME NEW n, NEW u, NEW a, NEW z, NEW m, NEW l, SettledView(n, u, a, z, m, l),
         NEW s \in Nat, NEW e \in Nat, LineSpan(u, a, z, s, e), NEW k \in s .. e - 1
  PROVE  /\ Held(Spans(l), k - a + 1)
         /\ Mirrored(Spans(l), k - a + 1) = (s + e - 1 - k) - a + 1
<1> DEFINE j == k - a + 1
           x == s - a + 1
           y == e - a
<1>1. /\ a \in Nat /\ m \in Nat /\ l \in [1 .. m -> Nat]
  BY ViewFacts
<1>2. SpanPair(l, x, y)
  BY SpanIsPair
<1>3. j \in x .. y /\ x + y - j = (s + e - 1 - k) - a + 1
  BY <1>1
<1> HIDE DEF j, x, y
<1>4. <<x, y>> \in Spans(l)
  BY <1>2, SpansSpec
<1>5. PICK r \in Spans(l) : r = <<x, y>>
  BY <1>4
<1>6. j \in r[1] .. r[2]
  BY <1>3, <1>5
<1>7. Held(Spans(l), j)
  BY <1>6 DEF Held
<1> DEFINE c == CHOOSE c \in Spans(l) : j \in c[1] .. c[2]
<1>8. c \in Spans(l) /\ j \in c[1] .. c[2]
  BY <1>6
<1>9. Mirrored(Spans(l), j) = c[1] + c[2] - j
  BY <1>7 DEF Mirrored
<1> HIDE DEF c
<1>10. SpanPair(l, c[1], c[2])
  BY <1>8, SpansSpec
<1>11. c[1] = x /\ c[2] = y
  <2>1. PairsMeet(m, l, c[1], c[2], x, y)
    BY <1>1, <1>2, <1>3, <1>8, <1>10 DEF PairsMeet
  <2> QED BY ONLY <2>1, PairUnique
<1>12. Mirrored(Spans(l), j) = (s + e - 1 - k) - a + 1
  BY <1>3, <1>9, <1>11
<1> QED BY <1>7, <1>12 DEF j

\* And the visual order changes nothing else.
LEMMA HeldInSpan ==
  ASSUME NEW n, NEW u, NEW a, NEW z, NEW m, NEW l, SettledView(n, u, a, z, m, l),
         NEW i \in 1 .. m, Held(Spans(l), i)
  PROVE  InSpan(u, a, z, i + a - 1)
<1>1. /\ n \in Nat /\ u \in [1 .. n -> Nat] /\ a \in 1 .. n + 1 /\ z \in a .. n + 1
      /\ m = z - a /\ m \in Nat /\ l \in [1 .. m -> Nat] /\ DOMAIN l = 1 .. m
  BY ViewFacts
<1>2. PICK r \in Spans(l) : i \in r[1] .. r[2]
  BY DEF Held
<1>3. SpanPair(l, r[1], r[2])
  BY <1>2, SpansSpec
<1>4. PICK x, y : x = r[1] /\ y = r[2]
  OBVIOUS
<1>p. SpanPair(l, x, y) /\ i \in x .. y
  BY <1>2, <1>3, <1>4
<1>5. x \in 1 .. m /\ y \in 1 .. m /\ StrongRtl(l[x])
  BY <1>1, <1>p DEF SpanPair
<1>q. \A k \in 1 .. m : k + a - 1 \in a .. z - 1 /\ l[k] = u[k + a - 1]
  BY ViewFacts
<1>r. PICK k \in a .. z - 1 : k = x + a - 1 /\ StrongRtl(u[k])
  BY <1>5, <1>q
<1>6. PICK s \in Nat, e \in Nat : LineSpan(u, a, z, s, e) /\ k \in s .. e - 1
  <2>1. /\ n \in Nat /\ u \in [1 .. n -> Nat] /\ a \in 1 .. n + 1 /\ z \in a .. n + 1
        /\ k \in a .. z - 1 /\ StrongRtl(u[k])
    BY <1>1, <1>r
  <2> QED BY ONLY <2>1, SpanCovers
<1> DEFINE x2 == s - a + 1
           y2 == e - a
<1>7. SpanPair(l, x2, y2)
  BY <1>6, SpanIsPair
<1>8. x \in x .. y /\ x \in x2 .. y2
  BY <1>1, <1>p, <1>5, <1>r, <1>6
<1>9. x = x2 /\ y = y2
  <2> HIDE DEF x2, y2
  <2>1. PairsMeet(m, l, x, y, x2, y2)
    BY <1>1, <1>p, <1>7, <1>8 DEF PairsMeet
  <2> QED BY ONLY <2>1, PairUnique
<1>10. i + a - 1 \in s .. e - 1
  BY <1>1, <1>p, <1>9
<1> QED BY <1>6, <1>10 DEF InSpan

\* The runs of numerals in a span are those that begin with a numeral.
LEMMA PairIsRun ==
  ASSUME NEW n, NEW u, NEW a, NEW z, NEW m, NEW l, SettledView(n, u, a, z, m, l),
         NEW s \in Nat, NEW e \in Nat, LineSpan(u, a, z, s, e), NEW p \in s .. e - 1,
         NEW x, NEW y, NumeralPair(l, x, y), p - a + 1 \in x .. y
  PROVE  /\ x \in 1 .. m /\ y \in 1 .. m
         /\ NumeralRun(u, s, x + a - 1, y + a) /\ y + a \in LastEnds(u, z, s, e)
<1> DEFINE b == x + a - 1
           c == y + a
<1>1. /\ n \in Nat /\ u \in [1 .. n -> Nat] /\ a \in 1 .. n + 1 /\ z \in a .. n + 1
      /\ m = z - a /\ m \in Nat /\ l \in [1 .. m -> Nat] /\ DOMAIN l = 1 .. m
      /\ SoftAt(l) \in SUBSET (1 .. m) /\ Settled(u, a, z)
  BY ViewFacts
<1>2. \A k \in a .. z - 1 : k - a + 1 \in 1 .. m /\ l[k - a + 1] = u[k] /\ u[k] \in Nat
  BY ViewFacts
<1>3. /\ a <= s /\ s < e /\ e <= z /\ StrongRtl(u[s])
      /\ \A k \in s .. e - 1 : ~StrongLtr(u[k])
  BY DEF LineSpan
<1>4. StrongRtl(u[e - 1])
  BY <1>1 DEF Settled, SettledSpan
<1>5. /\ x \in SoftAt(l) /\ y \in SoftAt(l) /\ x .. y \subseteq SoftAt(l)
      /\ x - 1 \notin SoftAt(l) /\ y + 1 \notin SoftAt(l) /\ Weak(l[x])
  BY DEF NumeralPair, MaxRun
<1>6. x \in 1 .. m /\ y \in 1 .. m /\ x <= p - a + 1 /\ p - a + 1 <= y /\ p \in Nat /\ x <= y
  BY <1>1, <1>5
\* Which positions of the span are soft.
<1>7. \A k \in a .. z - 1 : k - a + 1 \in SoftAt(l) <=> Soft(u[k])
  BY <1>1, <1>2 DEF SoftAt
<1>8. \A k \in s .. e - 1 : k \in a .. z - 1 /\ (k - a + 1 \notin SoftAt(l) => StrongRtl(u[k]))
  <2>1. SUFFICES ASSUME NEW k \in s .. e - 1
                 PROVE  k \in a .. z - 1 /\ (k - a + 1 \notin SoftAt(l) => StrongRtl(u[k]))
    OBVIOUS
  <2>2. k \in a .. z - 1
    BY <1>1, <1>3
  <2> QED BY <1>2, <1>3, <1>7, <2>2, RuneClasses
<1>9. s < b
  <2>0. s \in a .. z - 1
    BY <1>1, <1>3
  <2>1. s - a + 1 \notin SoftAt(l)
    BY <1>2, <1>3, <1>7, <2>0, RuneClasses
  <2>2. s - a + 1 \notin x .. y
    BY <1>5, <2>1
  <2> QED BY <1>1, <1>3, <1>6, <2>2
<1>10. c < e
  <2>1. e - 1 \in a .. z - 1
    BY <1>1, <1>3
  <2>2. (e - 1) - a + 1 \notin SoftAt(l)
    BY <1>2, <1>4, <1>7, <2>1, RuneClasses
  <2>3. (e - 1) - a + 1 \notin x .. y
    BY <1>5, <2>2
  <2> QED BY <1>1, <1>3, <1>6, <2>3
<1>11. /\ b \in s .. e - 1 /\ b - 1 \in s .. e - 1 /\ c \in s .. e - 1 /\ b < c
       /\ b - a + 1 = x /\ (b - 1) - a + 1 = x - 1 /\ c - a + 1 = y + 1
  BY <1>1, <1>3, <1>6, <1>9, <1>10
<1> HIDE DEF b, c
<1>12. StrongRtl(u[b - 1]) /\ StrongRtl(u[c])
  BY <1>5, <1>8, <1>11
<1>13. Weak(u[b])
  BY <1>2, <1>5, <1>8, <1>11
<1>14. \A k \in b .. c - 1 : Soft(u[k])
  <2>1. SUFFICES ASSUME NEW k \in b .. c - 1 PROVE Soft(u[k])
    OBVIOUS
  <2>2. k \in a .. z - 1 /\ k - a + 1 \in x .. y
    BY <1>1, <1>3, <1>6, <1>11
  <2> QED BY <1>5, <1>7, <2>2
<1>15. ASSUME NEW k \in s .. b - 1, Weak(u[k]) PROVE \E j \in k + 1 .. b - 1 : StrongRtl(u[j])
  <2>1. k # b - 1
    <3>1. b - 1 \in a .. z - 1
      BY <1>8, <1>11
    <3> QED BY <1>2, <1>12, <1>15, <3>1, RuneClasses
  <2>2. b - 1 \in k + 1 .. b - 1
    BY <1>11, <2>1
  <2> QED BY <1>12, <2>2
<1>16. NumeralRun(u, s, b, c)
  <2>1. s < b /\ b < c
    BY <1>9, <1>11
  <2> QED BY <1>13, <1>14, <1>15, <2>1 DEF NumeralRun
<1>17. c \in LastEnds(u, z, s, e)
  BY <1>11, <1>12 DEF LastEnds, Ends
<1> QED BY <1>6, <1>16, <1>17 DEF b, c

LEMMA RunIsPair ==
  ASSUME NEW n, NEW u, NEW a, NEW z, NEW m, NEW l, SettledView(n, u, a, z, m, l),
         NEW s \in Nat, NEW e \in Nat, LineSpan(u, a, z, s, e),
         NEW c \in LastEnds(u, z, s, e), NEW b \in s + 1 .. c - 1, NumeralRun(u, s, b, c)
  PROVE  NumeralPair(l, b - a + 1, c - a)
<1>1. /\ n \in Nat /\ u \in [1 .. n -> Nat] /\ a \in 1 .. n + 1 /\ z \in a .. n + 1
      /\ m = z - a /\ m \in Nat /\ l \in [1 .. m -> Nat] /\ DOMAIN l = 1 .. m
      /\ SoftAt(l) \in SUBSET (1 .. m) /\ Settled(u, a, z)
  BY ViewFacts
<1>2. \A k \in a .. z - 1 : k - a + 1 \in 1 .. m /\ l[k - a + 1] = u[k] /\ u[k] \in Nat
  BY ViewFacts
<1>3. /\ a <= s /\ s < e /\ e <= z
  BY DEF LineSpan
<1>4. /\ StrongRtl(u[e - 1])
      /\ \A x, y \in s .. e : NumeralRun(u, s, x, y) => StrongRtl(u[x - 1])
  BY <1>1 DEF Settled, SettledSpan
<1>5. Weak(u[b]) /\ \A k \in b .. c - 1 : Soft(u[k])
  BY DEF NumeralRun
<1>6. \A k \in a .. z - 1 : k - a + 1 \in SoftAt(l) <=> Soft(u[k])
  BY <1>1, <1>2 DEF SoftAt
<1>7. c \in s .. e - 1 /\ StrongRtl(u[c])
  <2>1. SUFFICES ASSUME c = e PROVE FALSE
    BY DEF LastEnds, Ends
  <2>2. e - 1 \in b .. c - 1 /\ e - 1 \in a .. z - 1
    BY <1>1, <1>3, <2>1
  <2> QED BY <1>2, <1>4, <1>5, <2>2, RuneClasses
<1>8. /\ b \in s .. e /\ c \in s .. e /\ b \in a .. z - 1 /\ b - 1 \in a .. z - 1 /\ c \in a .. z - 1
      /\ c - 1 \in a .. z - 1 /\ b \in b .. c - 1 /\ c - 1 \in b .. c - 1
      /\ (b - 1) - a + 1 = (b - a + 1) - 1 /\ (c - 1) - a + 1 = c - a /\ c - a + 1 = (c - a) + 1
  BY <1>1, <1>3, <1>7
<1>9. StrongRtl(u[b - 1])
  BY <1>4, <1>8
<1>10. ~Soft(u[b - 1]) /\ ~Soft(u[c])
  BY <1>2, <1>7, <1>8, <1>9, RuneClasses
<1>11. (b - a + 1) - 1 \notin SoftAt(l) /\ (c - a) + 1 \notin SoftAt(l)
  BY <1>6, <1>8, <1>10
<1>12. b - a + 1 \in SoftAt(l) /\ c - a \in SoftAt(l)
  BY <1>5, <1>6, <1>8
<1>13. b - a + 1 .. c - a \subseteq SoftAt(l) /\ b - a + 1 .. c - a # {}
  <2>1. ASSUME NEW i \in b - a + 1 .. c - a PROVE i \in SoftAt(l)
    <3> DEFINE k == i + a - 1
    <3>1. k \in b .. c - 1 /\ k \in a .. z - 1 /\ k - a + 1 = i
      BY <1>1, <1>8
    <3> QED BY <1>5, <1>6, <3>1
  <2>2. b - a + 1 \in b - a + 1 .. c - a
    BY <1>1, <1>8
  <2> QED BY <2>1, <2>2
<1>14. Weak(l[b - a + 1])
  BY <1>2, <1>5, <1>8
<1> QED BY <1>11, <1>12, <1>13, <1>14 DEF NumeralPair, MaxRun

\* So a numeral is taken from where the pass takes it.
LEMMA MirroredNumeral ==
  ASSUME NEW n, NEW u, NEW a, NEW z, NEW m, NEW l, SettledView(n, u, a, z, m, l),
         NEW s \in Nat, NEW e \in Nat, LineSpan(u, a, z, s, e), NEW p \in s .. e - 1
  PROVE  /\ Mirrored(Numerals(l), p - a + 1) \in Int
         /\ Source(u, s, LastEnds(u, z, s, e), p, Mirrored(Numerals(l), p - a + 1) + a - 1)
<1> DEFINE i == p - a + 1
           C == LastEnds(u, z, s, e)
<1>1. a \in Nat /\ p \in Nat /\ i + a - 1 = p /\ i = p - a + 1 /\ i \in Int
  BY ViewFacts
<1> HIDE DEF i
<1>2. CASE Held(Numerals(l), i)
  <2> DEFINE r == CHOOSE r \in Numerals(l) : i \in r[1] .. r[2]
  <2>1. r \in Numerals(l) /\ i \in r[1] .. r[2]
    BY <1>2 DEF Held
  <2>2. Mirrored(Numerals(l), i) = r[1] + r[2] - i
    BY <1>2 DEF Mirrored
  <2> HIDE DEF r
  <2>3. PICK x, y : x = r[1] /\ y = r[2]
    OBVIOUS
  <2>4. NumeralPair(l, x, y) /\ i \in x .. y
    BY <2>1, <2>3, NumeralsSpec
  <2>5. /\ x \in 1 .. m /\ y \in 1 .. m
        /\ NumeralRun(u, s, x + a - 1, y + a) /\ y + a \in C
    <3>1. p - a + 1 \in x .. y
      BY <1>1, <2>4
    <3> QED BY <2>4, <3>1, PairIsRun
  <2>6. m \in Nat
    BY ViewFacts
  <2>7. /\ x + a - 1 \in s + 1 .. (y + a) - 1 /\ p \in x + a - 1 .. (y + a) - 1
        /\ (x + y - i) + a - 1 = (x + a - 1) + (y + a) - 1 - p
    <3>1. s < x + a - 1
      BY <2>5 DEF NumeralRun
    <3> QED BY <1>1, <2>4, <2>5, <2>6, <3>1
  <2>8. Source(u, s, C, p, (x + y - i) + a - 1)
    <3> HIDE DEF C
    <3> QED BY <2>5, <2>7 DEF Source
  <2>9. x + y - i \in Int
    BY <1>1, <2>5, <2>6
  <2> QED BY <1>1, <2>2, <2>3, <2>8, <2>9
<1>3. CASE ~Held(Numerals(l), i)
  <2>1. Mirrored(Numerals(l), i) + a - 1 = p /\ Mirrored(Numerals(l), i) \in Int
    BY <1>1, <1>3 DEF Mirrored
  <2>2. ASSUME NEW c \in C, NEW b \in s + 1 .. c - 1, NumeralRun(u, s, b, c), p \in b .. c - 1
        PROVE  FALSE
    <3>1. NumeralPair(l, b - a + 1, c - a)
      BY <2>2, RunIsPair
    <3>2. <<b - a + 1, c - a>> \in Numerals(l)
      BY <3>1, NumeralsSpec
    <3>3. i \in b - a + 1 .. c - a
      <4>1. c \in Int /\ b \in Int
        BY DEF LastEnds, Ends
      <4> QED BY <1>1, <2>2, <4>1
    <3>4. PICK r \in Numerals(l) : r = <<b - a + 1, c - a>>
      BY <3>2
    <3>5. i \in r[1] .. r[2]
      BY <3>3, <3>4
    <3> QED BY <1>3, <3>5 DEF Held
  <2>3. Source(u, s, C, p, p)
    <3> HIDE DEF C
    <3> QED BY <2>2 DEF Source
  <2> QED BY <1>1, <2>1, <2>3
<1> QED BY <1>2, <1>3

LEMMA PassVisual ==
  ASSUME NEW n, NEW u, NEW a, NEW z, NEW m, NEW l, SettledView(n, u, a, z, m, l),
         NEW v, Pass(n, u, v, a, z), NEW i \in 1 .. m
  PROVE  v[i + a - 1] = Visual(l)[i]
<1> DEFINE k == i + a - 1
<1>1. /\ n \in Nat /\ u \in [1 .. n -> Nat] /\ a \in 1 .. n + 1 /\ z \in a .. n + 1
      /\ m = z - a /\ m \in Nat /\ l \in [1 .. m -> Nat] /\ DOMAIN l = 1 .. m
  BY ViewFacts
<1>2. k \in a .. z - 1 /\ l[i] = u[k] /\ k \in 1 .. n
  BY ViewFacts
<1>k. k = i + a - 1 /\ k - a + 1 = i
  BY <1>1
<1>3. Visual(l)[i] = IF Held(Spans(l), i)
                     THEN swapped(l[Mirrored(Numerals(l), Mirrored(Spans(l), i))]) ELSE l[i]
  BY <1>1 DEF Visual, Numerals
<1> HIDE DEF k
<1>4. CASE InSpan(u, a, z, k)
  <2>1. PICK s \in Nat, e \in Nat : LineSpan(u, a, z, s, e) /\ k \in s .. e - 1
    BY <1>4 DEF InSpan
  <2> DEFINE p == s + e - 1 - k
             C == LastEnds(u, z, s, e)
             q == Mirrored(Numerals(l), p - a + 1)
  <2>2. /\ Held(Spans(l), i) /\ Mirrored(Spans(l), i) = p - a + 1
    BY <1>k, <2>1, MirroredSpan
  <2>3. Turned(u, v, z, s, e)
    BY <1>1, <2>1, PassTurns
  <2>4. p \in s .. e - 1 /\ s + e - 1 - p = k /\ s \in 1 .. n /\ e \in s .. n + 1
    BY <1>1, <2>1 DEF LineSpan
  <2>5. PICK h \in s .. e - 1 : Source(u, s, C, p, h) /\ v[s + e - 1 - p] = swapped(u[h])
    BY <2>3, <2>4 DEF Turned
  <2>6. q \in Int /\ Source(u, s, C, p, q + a - 1)
    <3> HIDE DEF p
    <3> QED BY <2>1, <2>4, MirroredNumeral
  <2>7. EndsOK(u, s, e, C)
    BY <1>1, <2>4, EndsAreOK
  <2>8. h = q + a - 1
    <3> HIDE DEF p, q, C
    <3>1. PICK o : o = q + a - 1
      OBVIOUS
    <3>2. Source(u, s, C, p, h) /\ Source(u, s, C, p, o) /\ p \in s .. e - 1
      BY <2>4, <2>5, <2>6, <3>1
    <3>3. h = o
      BY ONLY <1>1, <2>4, <2>7, <3>2, SourceUnique
    <3> QED BY <3>1, <3>3
  <2>9. v[k] = swapped(u[h])
    BY <2>4, <2>5
  <2>10. l[q] = u[h]
    <3> HIDE DEF q
    <3>1. a <= s /\ e <= z
      BY <2>1 DEF LineSpan
    <3>2. h - a + 1 = q /\ h \in a .. z - 1
      BY <1>1, <2>6, <2>8, <3>1
    <3>3. \A j \in a .. z - 1 : l[j - a + 1] = u[j]
      BY ViewFacts
    <3> QED BY <3>2, <3>3
  <2> HIDE DEF p, q, C
  <2> QED BY <1>3, <1>k, <2>2, <2>9, <2>10 DEF q
<1>5. CASE ~InSpan(u, a, z, k)
  <2>1. ~Held(Spans(l), i)
    BY <1>5, HeldInSpan DEF k
  <2>2. v[k] = u[k]
    BY <1>1, <1>2, <1>5, PassOutside
  <2> QED BY <1>2, <1>3, <1>k, <2>1, <2>2
<1> QED BY <1>4, <1>5

\* What the handler is given.
LEMMA HandlerVisual ==
  ASSUME IInv, UnmarkedText, RedrawInv, Clean(LineOf(orig)), in_ram, wrap_pc = "handler"
  PROVE  LineOf(text) = Visual(LineOf(orig))
<1> DEFINE n == Len(orig)
           a == line_start
           z == line_stop
           m == z - a
           l == LineOf(orig)
<1>1. /\ n \in Nat /\ orig \in [1 .. n -> Nat] /\ text \in [1 .. n -> Nat] /\ DOMAIN text = 1 .. n
      /\ a \in 1 .. n + 1 /\ z \in a .. n + 1
  BY LineFacts
<1>2. l \in [1 .. m -> Nat] /\ m \in Nat /\ \A i \in 1 .. m : l[i] = orig[i + a - 1]
  BY <1>1, LineIs
<1>3. LineOf(text) \in [1 .. m -> Nat] /\ \A i \in 1 .. m : LineOf(text)[i] = text[i + a - 1]
  BY <1>1, LineIs
<1>4. OrigSettled
  BY CleanSettled
<1>5. SettledView(n, orig, a, z, m, l)
  <2>1. Settled(orig, a, z)
    BY <1>4 DEF OrigSettled
  <2> HIDE DEF n, a, z, l
  <2> QED BY <1>1, <1>2, <2>1 DEF SettledView
<1>6. ASSUME NEW i \in 1 .. m PROVE text[i + a - 1] = Visual(l)[i]
  <2>1. touches_line
    <3>1. a \in 1 .. n
      BY <1>1, <1>6
    <3> QED BY <1>1, <3>1 DEF touches_line
  <2>2. ForHandler(text)
    BY <2>1 DEF RedrawInv
  <2>3. Pass(n, orig, text, a, z)
    BY <1>4, <2>2 DEF ForHandler
  <2> HIDE DEF n, a, z, m, l
  <2> QED BY ONLY <1>5, <1>6, <2>3, PassVisual
<1>7. Visual(l) = [i \in 1 .. m |-> Visual(l)[i]]
  <2>1. DOMAIN l = 1 .. m
    BY <1>2
  <2> HIDE DEF m, l
  <2> QED BY <2>1 DEF Visual
<1>8. LineOf(text) = [i \in 1 .. m |-> LineOf(text)[i]]
  BY <1>3
<1> HIDE DEF n, a, z, m
<1> QED BY <1>3, <1>6, <1>7, <1>8

\* On a clean line without marks the handler is given the visual order: the
\* stretches of RTL runes mirrored with their brackets and the numerals in them
\* mirrored back, on the first draw and on every later one.
THEOREM PlainLinesVisual ==
  Spec => [](UnmarkedText /\ Clean(LineOf(orig)) /\ in_ram /\ wrap_pc = "handler"
               => LineOf(text) = Visual(LineOf(orig)))
<1>1. IInv /\ (UnmarkedText => RedrawInv) =>
        (UnmarkedText /\ Clean(LineOf(orig)) /\ in_ram /\ wrap_pc = "handler"
           => LineOf(text) = Visual(LineOf(orig)))
  BY HandlerVisual
<1> QED BY <1>1, Invariance, RedrawInvariance, PTL

=============================================================================
