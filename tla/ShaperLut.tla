----------------------------- MODULE ShaperLut -----------------------------
(***************************************************************************)
(* fonts/text_shaper.py: pack_lut gives every glyph a scratch code point   *)
(* and builds the tables the runtime is compiled with.                     *)
(*                                                                         *)
(* forms is what generate_forms returns, sorted: a sequence of records     *)
(* [ch, glyphs], where ch is one code point or the two of a ligature and   *)
(* glyphs the glyph ids of its isolated, initial, medial and final form.   *)
(***************************************************************************)
EXTENDS Integers, Sequences, SequencesExt

scratch_codepoint_ranges == << <<\h700, \h750>>, <<\h780, \h800>> >>

\* available_codepts: the n-th code point next() returns.
Scratch(ranges, n) ==
  LET size(r) == r[2] - r[1]
      before(k) == FoldLeft(LAMBDA acc, r : acc + size(r), 0, SubSeq(ranges, 1, k - 1))
      k == CHOOSE k \in DOMAIN ranges : before(k) < n /\ n <= before(k) + size(ranges[k])
  IN  ranges[k][1] + n - before(k) - 1
ScratchSize(ranges) == FoldLeft(LAMBDA acc, r : acc + r[2] - r[1], 0, ranges)

\* The tables under construction; used counts the code points handed out.
\* The exceptions of the script (next() at the end of the ranges, a delta
\* that does not fit struct.pack's b) leave ok FALSE.
EmptyTables ==
  [lut |-> << >>, ligs |-> << >>, selected_glyphs |-> << >>, dirtied |-> << >>, ok |-> TRUE]

\* selected_glyphs is kept as a sequence of <<glyph, codept>>.
Lookup(sel, glyph) == { sel[i][2] : i \in { i \in DOMAIN sel : sel[i][1] = glyph } }

NextCodept(ranges, tables) ==
  LET n == Len(tables.dirtied) + 1
  IN  IF n <= ScratchSize(ranges) THEN Scratch(ranges, n) ELSE 0

Select(ranges, tables, glyph) ==
  IF ~tables.ok \/ Lookup(tables.selected_glyphs, glyph) # {} THEN tables
  ELSE LET cp == NextCodept(ranges, tables)
       IN  IF cp = 0 THEN [tables EXCEPT !.ok = FALSE]
           ELSE [tables EXCEPT !.selected_glyphs = Append(@, <<glyph, cp>>),
                               !.dirtied = Append(@, cp)]

CodeptOf(tables, glyph) == CHOOSE cp \in Lookup(tables.selected_glyphs, glyph) : TRUE

\* A ligature first takes a "true" code point of its own.
TrueCodept(ranges, tables, ch) == IF Len(ch) = 1 THEN ch[1] ELSE NextCodept(ranges, tables)
WithLigature(ranges, tables, ch) ==
  IF Len(ch) = 1 THEN tables
  ELSE LET cp == NextCodept(ranges, tables)
       IN  IF cp = 0 THEN [tables EXCEPT !.ok = FALSE]
           ELSE [tables EXCEPT !.dirtied = Append(@, cp),
                               !.ligs = Append(@, [pattern |-> ch, codept |-> cp])]

\* Mutant: each delta is relative to the form before.
delta_chained(cps, k) == cps[k] - cps[k - 1]

delta(cps, k) == cps[k] - cps[1]

PackForm(ranges, tables, form) ==
  LET lig == WithLigature(ranges, tables, form.ch)
      sel == FoldLeft(LAMBDA tb, g : Select(ranges, tb, g), lig, form.glyphs)
      cps == [k \in 1 .. 4 |-> CodeptOf(sel, form.glyphs[k])]
  IN  IF ~sel.ok THEN sel
      ELSE IF \E k \in 2 .. 4 : delta(cps, k) \notin -128 .. 127 THEN [sel EXCEPT !.ok = FALSE]
      ELSE [sel EXCEPT !.lut = Append(@,
              [true |-> TrueCodept(ranges, tables, form.ch), isolated |-> cps[1],
               initial |-> delta(cps, 2), medial |-> delta(cps, 3), final |-> delta(cps, 4)])]

pack_lut(ranges, forms) ==
  FoldLeft(LAMBDA tb, f : IF tb.ok THEN PackForm(ranges, tb, f) ELSE tb, EmptyTables, forms)

Sorted(vals) ==
  LET lo == Min(vals)
  IN  SelectSeq([k \in 1 .. Max(vals) - lo + 1 |-> lo + k - 1], LAMBDA v : v \in vals)

\* contiguous_ranges: pairs <<first, last>>, in order; vals is not empty.
ExtendRanges(acc, v) ==
  IF acc # << >> /\ acc[Len(acc)][2] + 1 = v
  THEN [acc EXCEPT ![Len(acc)] = <<acc[Len(acc)][1], v>>]
  ELSE Append(acc, <<v, v>>)

contiguous_ranges(vals) == FoldLeft(ExtendRanges, << >>, Sorted(vals))

=============================================================================
