-------------------------------- MODULE Rtl --------------------------------
(***************************************************************************)
(* runtime/rtl.c: rtl_apply reorders one line of a text buffer in place.   *)
(* The do-while loop of rtl_apply is the state machine below: one action   *)
(* per branch of its body, and one for the code after the loop.            *)
(***************************************************************************)
EXTENDS TextBuffer

VARIABLES
  rtl_pc,               \* "idle", "loop" (top of the do-while), "exit" (after it)
  line_end,             \* argument: one past the last rune of the line
  iter_ptr,             \* iter: next rune to read
  next_codept_ptr,      \* look-ahead rune, NULL at the end of the line
  rtl_span_start,       \* start of the open RTL span, or NULL
  weak_ltr_span_start,  \* start of the open run of numerals, or NULL
  did_transform         \* the value returned

rtl_locals == <<rtl_pc, line_end, iter_ptr, next_codept_ptr, rtl_span_start,
                weak_ltr_span_start, did_transform>>

RTL_SWAPS == << \h7B, \h7D, \h5B, \h5D, \h28, \h29, \h3C, \h3E >>

swapped(rune) ==
  IF \E i \in DOMAIN RTL_SWAPS : RTL_SWAPS[i] = rune
  THEN LET i == CHOOSE i \in DOMAIN RTL_SWAPS : RTL_SWAPS[i] = rune
       IN  RTL_SWAPS[IF i % 2 = 1 THEN i + 1 ELSE i - 1]
  ELSE rune

\* Mutant: the brackets of an RTL span are left as they are.
no_swaps(t, ptr) == t

apply_swaps(t, ptr) == [t EXCEPT ![ptr] = swapped(t[ptr])]

\* What reverse_span does to whole runes: those in start .. end - 1 reversed.
reverse_span(t, start, end) ==
  [i \in DOMAIN t |->
     IF start <= i /\ i < end THEN t[start + end - 1 - i] ELSE t[i]]

-----------------------------------------------------------------------------
\* rtl_apply(line_start, end): the first rune is read whatever end is.
RtlCall(line_start, end) ==
  /\ rtl_pc = "idle"
  /\ line_start \in DOMAIN text
  /\ line_end' = end
  /\ iter_ptr' = line_start + 1
  /\ next_codept_ptr' = line_start
  /\ rtl_span_start' = NULL
  /\ weak_ltr_span_start' = NULL
  /\ did_transform' = FALSE
  /\ rtl_pc' = "loop"
  /\ UNCHANGED text

\* The locals of one iteration.
this_codept_ptr == next_codept_ptr
this_codept == codept(text[this_codept_ptr])
\* Mutant: only the NUL ends the line.
more_to_nul == iter_ptr \in DOMAIN text

more == iter_ptr < line_end /\ iter_ptr \in DOMAIN text
next_codept == IF more THEN codept(text[iter_ptr]) ELSE 0

in_span == rtl_span_start # NULL
weak_in_span == is_weak_ltr(this_codept) /\ in_span
neutral == is_neutral(this_codept) \/ weak_in_span

\* Numerals are reversed once on their own so that the reversal of the
\* enclosing span puts them back in left-to-right order.
ends_weak_span == /\ ~is_weak_ltr(this_codept) /\ ~is_neutral(this_codept)
                  /\ in_span
                  /\ weak_ltr_span_start # NULL

text_after_weak ==
  IF ends_weak_span THEN reverse_span(text, weak_ltr_span_start, this_codept_ptr)
                    ELSE text

\* Mutant: the run of numerals is reversed but not forgotten.
weak_not_reset ==
  IF weak_in_span /\ weak_ltr_span_start = NULL THEN this_codept_ptr
  ELSE weak_ltr_span_start

weak_after ==
  IF weak_in_span /\ weak_ltr_span_start = NULL THEN this_codept_ptr
  ELSE IF ends_weak_span THEN NULL ELSE weak_ltr_span_start

\* Mutant: the look-ahead pointer is left behind at the end of the line.
ReadAheadPastEnd ==
  /\ rtl_pc = "loop"
  /\ iter_ptr' = IF more THEN iter_ptr + 1 ELSE iter_ptr
  /\ next_codept_ptr' = iter_ptr
  /\ rtl_pc' = IF next_codept # 0 THEN "loop" ELSE "exit"
  /\ UNCHANGED line_end

\* Mutant: read_utf8 does not advance its caller's pointer.
ReadAheadInPlace ==
  /\ rtl_pc = "loop"
  /\ next_codept_ptr' = IF more THEN iter_ptr ELSE NULL
  /\ rtl_pc' = IF next_codept # 0 THEN "loop" ELSE "exit"
  /\ UNCHANGED <<iter_ptr, line_end>>

\* The read-ahead at the top of the body and the test at its bottom.
ReadAhead ==
  /\ rtl_pc = "loop"
  /\ iter_ptr' = IF more THEN iter_ptr + 1 ELSE iter_ptr
  /\ next_codept_ptr' = IF more THEN iter_ptr ELSE NULL
  /\ rtl_pc' = IF next_codept # 0 THEN "loop" ELSE "exit"
  /\ UNCHANGED line_end

\* Mutant: a span opens at any rune.
opens_anywhere == ~in_span /\ next_codept # 0

opens == is_rtl(this_codept) /\ ~in_span /\ next_codept # 0

\* Mutant: a neutral that follows a neutral no longer continues the span.
continues_once ==
  /\ neutral /\ in_span
  /\ is_rtl(next_codept) \/ is_weak_ltr(next_codept) \/ next_codept < \h20

continues ==
  /\ neutral /\ in_span
  /\ \/ is_rtl(next_codept) \/ is_neutral(next_codept)
     \/ is_weak_ltr(next_codept) \/ next_codept < \h20

closes == ~is_rtl(this_codept) /\ in_span

OpenSpan ==
  /\ ReadAhead
  /\ opens
  /\ rtl_span_start' = this_codept_ptr
  /\ weak_ltr_span_start' = weak_after
  /\ UNCHANGED <<text, did_transform>>

ContinueSpan ==
  /\ ReadAhead
  /\ ~opens /\ continues
  /\ text' = apply_swaps(text_after_weak, this_codept_ptr)
  /\ weak_ltr_span_start' = weak_after
  /\ UNCHANGED <<rtl_span_start, did_transform>>

\* Mutant: the rune that ends the span is reversed with it.
CloseSpanInclusive ==
  /\ ReadAhead
  /\ ~opens /\ ~continues /\ closes
  /\ text' = reverse_span(text_after_weak, rtl_span_start, this_codept_ptr + 1)
  /\ did_transform' = TRUE
  /\ rtl_span_start' = NULL
  /\ weak_ltr_span_start' = NULL

CloseSpan ==
  /\ ReadAhead
  /\ ~opens /\ ~continues /\ closes
  /\ text' = reverse_span(text_after_weak, rtl_span_start, this_codept_ptr)
  /\ did_transform' = TRUE
  /\ rtl_span_start' = NULL
  /\ weak_ltr_span_start' = NULL

PassOver ==
  /\ ReadAhead
  /\ ~opens /\ ~continues /\ ~closes
  /\ text' = text_after_weak
  /\ weak_ltr_span_start' = weak_after
  /\ UNCHANGED <<rtl_span_start, did_transform>>

\* The code after the loop, and the return.
RtlReturn ==
  /\ rtl_pc = "exit"
  /\ LET weak_done == IF weak_ltr_span_start # NULL
                      THEN reverse_span(text, weak_ltr_span_start, iter_ptr)
                      ELSE text
     IN  text' = IF in_span THEN reverse_span(weak_done, rtl_span_start, iter_ptr)
                            ELSE weak_done
  /\ did_transform' = (did_transform \/ in_span)
  /\ rtl_pc' = "idle"
  /\ UNCHANGED <<line_end, iter_ptr, next_codept_ptr, rtl_span_start,
                 weak_ltr_span_start>>

RtlIterate == OpenSpan \/ ContinueSpan \/ CloseSpan \/ PassOver

RtlInit ==
  /\ rtl_pc = "idle"
  /\ line_end = NULL /\ iter_ptr = NULL /\ next_codept_ptr = NULL
  /\ rtl_span_start = NULL /\ weak_ltr_span_start = NULL
  /\ did_transform = FALSE

=============================================================================
