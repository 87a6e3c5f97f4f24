-------------------------------- MODULE Utf8 --------------------------------
(***************************************************************************)
(* The bytes under TextBuffer: runtime/utf8.c and reverse_span of          *)
(* runtime/rtl.c work on the UTF-8 encoding of the text, in place.  The    *)
(* model keeps the bytes and, beside them, the runes they should encode,   *)
(* on which a reversal or a write is one step: what modules Rtl and        *)
(* TextShaper take these functions to do.                                  *)
(***************************************************************************)
EXTENDS Integers, Sequences

CONSTANTS
  InitialRunes,   \* sequences of runes a buffer may hold
  NewCodepts      \* code points the shaper may write

\* The code points of Unicode but NUL, which ends a text.
Rune == {r \in Nat : 0 < r /\ r <= \h10FFFF}

ASSUME Utf8Assumption ==
  /\ InitialRunes \subseteq Seq(Rune)
  /\ NewCodepts \subseteq \h80 .. \h7FF

VARIABLES
  bytes,       \* the buffer; a pointer is an index, and the NUL byte comes last
  span_pc,     \* "idle", "bytewise" or "rotate": the two loops of reverse_span
  start, end,  \* its arguments
  start_iter, end_iter,
  runes        \* history: what the buffer should encode

utf8_vars == <<bytes, span_pc, start, end, start_iter, end_iter, runes>>

Encode(r) ==
  IF r < \h80 THEN << r >>
  ELSE IF r < \h800 THEN << \hC0 + (r \div 64), \h80 + (r % 64) >>
  ELSE IF r < \h10000 THEN << \hE0 + (r \div 4096), \h80 + ((r \div 64) % 64), \h80 + (r % 64) >>
  ELSE << \hF0 + (r \div 262144), \h80 + ((r \div 4096) % 64), \h80 + ((r \div 64) % 64), \h80 + (r % 64) >>

\* The byte at which the k-th rune of a text begins.
Offsets(t) ==
  LET off[k \in 1 .. Len(t) + 1] ==
        IF k = 1 THEN 1 ELSE off[k - 1] + Len(Encode(t[k - 1]))
  IN  off
Offset(t, k) == Offsets(t)[k]

RuneAt(t, p) == CHOOSE k \in 1 .. Len(t) : Offset(t, k) <= p /\ p < Offset(t, k + 1)

\* The bytes of a text, and the NUL byte.
EncodeAll(t) ==
  [p \in 1 .. Offset(t, Len(t) + 1) |->
     IF p = Offset(t, Len(t) + 1) THEN 0
     ELSE Encode(t[RuneAt(t, p)])[p - Offset(t, RuneAt(t, p)) + 1]]

\* The number of bytes after a lead byte, from its upper half.
ct(byte) ==
  CASE byte \div 16 = 15 -> 3 [] byte \div 16 = 14 -> 2
    [] byte \div 16 \in {12, 13} -> 1 [] OTHER -> 0

\* codept << 6 with the next byte, in a uint16_t.
shift_in(c, byte) == ((c * 64) + (byte % 128)) % 65536

read_masked(b, ptr, mask) ==
  LET n == ct(b[ptr])
      c0 == b[ptr] % mask[n + 1]
      c1 == shift_in(c0, b[ptr + 1])
      c2 == shift_in(c1, b[ptr + 2])
  IN  [codept |-> CASE n = 0 -> c0 [] n = 1 -> c1 [] n = 2 -> c2
                    [] OTHER -> shift_in(c2, b[ptr + 3]),
       next |-> ptr + n + 1]

\* Mutant: one bit too few is cleared from a lead byte.
read_utf8_mask(b, ptr) == read_masked(b, ptr, << 256, 128, 64, 32 >>)

\* The mask (~0b11110000000) >> ct.
read_utf8(b, ptr) == read_masked(b, ptr, << 128, 64, 32, 16 >>)

write_utf8_at(b, ptr, codept) ==
  [b EXCEPT ![ptr] = \hC0 + (codept \div 64), ![ptr + 1] = \h80 + (codept % 64)]

SWAP(b, p, q) == [b EXCEPT ![p] = b[q], ![q] = b[p]]

\* What reverse_span of module Rtl does to the runes.
reversed(t, from, to) ==
  [i \in DOMAIN t |-> IF from <= i /\ i < to THEN t[from + to - 1 - i] ELSE t[i]]

-----------------------------------------------------------------------------
Utf8Init ==
  /\ runes \in InitialRunes
  /\ bytes = EncodeAll(runes)
  /\ span_pc = "idle"
  /\ start = 0 /\ end = 0 /\ start_iter = 0 /\ end_iter = 0

\* The shaper replaces a two-byte rune.
write_utf8(k, codept) ==
  /\ span_pc = "idle"
  /\ k \in DOMAIN runes /\ Len(Encode(runes[k])) = 2
  /\ bytes' = write_utf8_at(bytes, Offset(runes, k), codept)
  /\ runes' = [runes EXCEPT ![k] = codept]
  /\ UNCHANGED <<span_pc, start, end, start_iter, end_iter>>

\* rtl_apply calls reverse_span for the runes from .. to - 1.
reverse_span_call(from, to) ==
  /\ span_pc = "idle"
  /\ start' = Offset(runes, from) /\ end' = Offset(runes, to)
  /\ start_iter' = start' /\ end_iter' = end' - 1
  /\ runes' = reversed(runes, from, to)
  /\ span_pc' = "bytewise"
  /\ UNCHANGED bytes

SwapBytes ==
  /\ span_pc = "bytewise" /\ start_iter < end_iter
  /\ bytes' = SWAP(bytes, start_iter, end_iter)
  /\ start_iter' = start_iter + 1 /\ end_iter' = end_iter - 1
  /\ UNCHANGED <<span_pc, start, end, runes>>

\* Mutant: the second loop is entered without the pre-decrement of end_iter.
SecondLoopAtEnd ==
  /\ span_pc = "bytewise" /\ start_iter >= end_iter
  /\ span_pc' = "rotate"
  /\ end_iter' = end
  /\ UNCHANGED <<bytes, start, end, start_iter, runes>>

SecondLoop ==
  /\ span_pc = "bytewise" /\ start_iter >= end_iter
  /\ span_pc' = "rotate"
  /\ end_iter' = end - 1
  /\ UNCHANGED <<bytes, start, end, start_iter, runes>>

\* Mutant: the middle bytes of a four-byte rune are left alone.
rotated_outer(b, p) == IF ct(b[p]) > 0 THEN SWAP(b, p - ct(b[p]), p) ELSE b

\* The switch on the last byte of a reversed rune, its lead byte.
rotated(b, p) ==
  CASE ct(b[p]) = 3 -> SWAP(SWAP(b, p - 3, p), p - 2, p - 1)
    [] ct(b[p]) = 2 -> SWAP(b, p - 2, p)
    [] ct(b[p]) = 1 -> SWAP(b, p - 1, p)
    [] OTHER -> b

RotateRune ==
  /\ span_pc = "rotate" /\ end_iter >= start
  /\ bytes' = rotated(bytes, end_iter)
  /\ end_iter' = end_iter - ct(bytes[end_iter]) - 1
  /\ UNCHANGED <<span_pc, start, end, start_iter, runes>>

reverse_span_return ==
  /\ span_pc = "rotate" /\ end_iter < start
  /\ span_pc' = "idle"
  /\ UNCHANGED <<bytes, start, end, start_iter, end_iter, runes>>

Utf8Next ==
  \/ \E k \in DOMAIN runes, codept \in NewCodepts : write_utf8(k, codept)
  \/ \E from, to \in 1 .. Len(runes) + 1 : from < to /\ reverse_span_call(from, to)
  \/ SwapBytes \/ SecondLoop \/ RotateRune \/ reverse_span_return

Utf8Spec == Utf8Init /\ [][Utf8Next]_utf8_vars

-----------------------------------------------------------------------------
\* The bytes encode the runes after any sequence of writes and reversals of
\* spans in which one-, two-, three- and four-byte runes are mixed.
BytesEncodeRunes == span_pc = "idle" => bytes = EncodeAll(runes)

\* Neither loop of reverse_span leaves the span it was given.
SpanKept ==
  span_pc # "idle" => /\ start <= start_iter /\ end_iter < end
                      /\ start - 1 <= end_iter /\ start_iter <= end

\* Reading such a buffer rune by rune gives the runes, cut down to 16 bits, and
\* ends at the NUL byte.
ReadsRunes ==
  span_pc = "idle" =>
    \A k \in DOMAIN runes :
      read_utf8(bytes, Offset(runes, k)) =
        [codept |-> runes[k] % 65536, next |-> Offset(runes, k + 1)]

=============================================================================
