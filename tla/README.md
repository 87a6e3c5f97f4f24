# elbbep: a TLA+ model of the right-to-left firmware patch

elbbep rebuilds the firmware of Pebble watches so that Hebrew and Arabic text is
drawn properly. It has two halves. The *runtime* (`runtime/*.c`, `patch.S`) is
linked behind the stock firmware and is entered through branches pasted into the
stock text functions: it shapes Arabic letters, reverses right-to-left spans and
undoes both again, in place, in the buffer of the application. The *build tools*
(`generator.py`, `patch.py`, `patch_tools.py`, `fonts/*.py`) download the stock
firmware, generate fonts and shaper tables, link the runtime and paste the branches.

This directory holds the specifications, the TLC configurations that check them on
small instances, and the TLAPS proofs. `PROJECT.json` lists the runs, the
correspondence between definitions and source lines, the hazards the properties are
aimed at, and the mutants that show that each property can fail.

## Inventory

| Part | Source | State | Operations | Module |
|---|---|---|---|---|
| UTF-8 access | `runtime/utf8.c`, `reverse_span` of `rtl.c` | the bytes of the buffer | read a rune, write a two-byte rune, reverse a span | `Utf8`; at the level of runes `TextBuffer` |
| Character classes | `rtl_ranges.c`, tables of `fonts/compose.py` | none | `is_rtl`, `is_neutral`, `is_weak_ltr`, `is_zero_width` | `RtlRanges` |
| RTL reordering | `rtl.c` | the locals of `rtl_apply`: read-ahead, open span, open run of numerals | one turn of the loop per action | `Rtl` |
| Render stub | `render_rtl_step` of `patch.c`, `render_wrap` of `patch.py` | the line given by the firmware's stack frame | RTL pass, render handler, RTL pass | `RenderWrap` |
| Text shaper | `text_shaper.c` | the locals of `shape_text` and `unshape_text` | one turn of the loop per action | `TextShaper` |
| Shaper tables | `fonts/text_shaper.py` | none | allocation of scratch code points | `ShaperLut` |
| Content size | `patch.c` 16-39, `patch.S` 4-11 | diagnostics cookie | shape, measure, unshape | `MeasureText` |
| Draw text | `patch.S` 14-33, `patch.c` 41-59, `patch.py` | alignment, progress of the layout | shape, align, lay out and render lines, unshape | `DrawText`, abstractly `TextPainter` |
| Binary patcher | `patch_tools.py`, `patch.ld` | image, queue of operations, linked patch | `wrap`, `inject`, `finalize` | `Patcher`, `BranchEncoding` |
| System fonts | `fonts/find_system_fonts.py` | the table being read and the best so far | read a word, copy the fonts | `FontTable` |
| Font files | `pebblesdk/fontgen.py`, `fonts/pfo_merge.py` | hash directory, chains and glyph data of a font | build, read, merge, write | `Pfo` |
| Language packs | `fonts/compose.py`, `generate_langpack` and `pack_resources` of `generator.py` | fonts found and composed, the shaper's map, the pack | take a font: skip, fail or compose; pack | `LanguagePack` |
| Generator | `generator.py`, `fonts/compose.py` | the cache directory and the generated sources in `runtime/`, across runs | the steps of the pipeline; failure at any point | `Generator` |

How they interact. An application calls `graphics_draw_text` or one of the content
size functions with a pointer to its text. The patched draw shapes the buffer, decides
the alignment from it, and lets the stock code lay it out; for each line the stock code
calls the render handler through the stub, which reverses the RTL spans of this line
before and again after. On the way out the buffer is unshaped, except on aplite, where
there is no room for it: there every later call finds the output of the earlier one.
All this shares one buffer, the application's own, and rests on two involutions,
"reverse, then reverse back" and "shape, then unshape", that are run on each other's
output. The generated tables tie the runtime to the fonts: the shaper writes scratch
code points at which the fonts must have the matching glyphs.

What is hard here and a unit test would hardly reach: whether the second RTL pass really
undoes the first, and what happens to a line drawn a hundred times if it does not; runes
that are in two classes at once; diacritics between letters; ligatures, which leave a
blank rune that must still be next to the ligature after two reversals; lines that begin
and end anywhere; runes above U+FFFF, which read as others; the branch that overwrites half
of an instruction; images of odd size; a pipeline whose cache is keyed by the existence
of paths and that can stop anywhere. There is no concurrency: the runtime is called from
one drawing thread at a time and the tools are sequential. The interleavings are those of
calls over time, and of runs.

## Modules

`TextBuffer` declares the buffer as a sequence of runes (a pointer is an index, 0 is
NULL), the text the application wrote (`orig`), and `codept`, the truncation of a
rune to the 16 bits that `read_utf8` returns. The characters are numbers, so the range
tables of `RtlRanges` are the tables of the source. `Utf8` justifies this level: it has
the bytes, the two loops of `reverse_span`, `read_utf8` and `write_utf8`, beside the runes
that they should encode. `reversed` says what a reversal is to do, the actions do it byte by
byte, and `Utf8Proofs` shows for every text that they agree.

`Rtl` is `rtl_apply`. Each turn of its do-while loop is one of the actions `OpenSpan`,
`ContinueSpan`, `CloseSpan`, `PassOver`, after the branch the code takes; the handling
of numerals at the head of the loop is part of each of them (`text_after_weak`,
`weak_after`), the code after the loop is `RtlReturn`. `RenderWrap` adds
`render_rtl_step` (early return for text in flash, trimming of trailing spaces)
and the stub; the line comes from the constant `Lines`.

`TextShaper` is `shape_text` and `unshape_text`, with the packed tables as constants and
`int8` deltas; `ShaperLut` is `pack_lut`, and `MCShaperTables` holds the tables of a
small alphabet, with an assumption, evaluated on every run, that they are what `pack_lut`
makes of its shapes. `write_utf8` (`utf8.c:28-32`) writes two bytes whatever is there. Where
that is not one rune of two bytes, `TextShaper` only sets `intact` to FALSE: the bytes are
not followed further, and no property but the types claims anything of the buffer after that.
`WritesHitRunes` says that measurements of plain texts never get there; `LigatureInPlace` says
the same of draws, and is refuted.
`MeasureText` composes the shaper with the content size functions, `DrawText`
composes everything on one buffer. `TextPainter` is what an application may expect:
calls show lines of its text, joined, in visual order and rightly aligned, and leave the
text alone, or joined where the platform does not unshape. `DrawText` has the
refinement mapping; a buffer that is not `intact` is mapped to none of the painter's, so
that the refinement includes that no rune of a sound text is torn apart. `DrawText` takes the text to be in RAM, for `shape_text`, unlike
`render_rtl_step`, has no check for it.

`BranchEncoding` has the wide branch of `finalize` and the decoding that the processor
does. `Patcher` is the class `Patcher`: an image is a function from offsets to cells that
say where a byte comes from. Detours are queued at any instruction of any layout, subject
to what `patch.py` sees to: no two overlap. `wrap` takes care of a 32-bit instruction that
the branch cuts in two; `inject` does not, although a comment in it (`patch_tools.py:183`)
asks its caller to avoid that, and `patch.py` uses it at such a place, the end of
`graphics_draw_text`. The assembly it is given there has the overwritten instructions in it
and never returns to the detour, while that of `render_wrap` does: the constant `Returning`
says which does. gcc, ld and nm are external, modelled by where `patch.ld` makes ld put
the code: `ComposeAsm` and `CompileC` add one block each, `Link` ends the linking, then
`Relocate` takes one operation of the queue at a time (`next_op`) and `AppendPatch` writes the image.

`Generator` is the main program of `generator.py`: a list of steps, each of which
returns at once if its path exists. `Fail` ends a run at any point (network, tool,
user), `Raise` is a step that finds its input unusable. A path that was created but not
completed stays `partial`. What the code opens before it creates anything is kept apart
from what it opens afterwards: `unpack_fw` leaves nothing behind if the archive cannot be
opened, nor does `patch_firmware` unless it ends within the one write of the image at the
very end (`patch_tools.py:312`); the other steps do. `leave_out_font` is the composition that
skips a font whose generation failed (`compose.py:261`) and ends as if nothing had happened.
`interrupted` and `left_out` remember for the properties what was cut short or left out.

`LanguagePack` is one pass through the tools that make a language pack, from a firmware
image to the resource pack, and extends the modules of its stages. `FontTable` is the scan
for the table of names; `same_table` records that `final_table` and `work_table` are one
dictionary. `Pfo` has font files at the level of the code that reads them: a directory
leads to a chain of pairs, a pair to an offset into the glyph data, whose bytes are cells
that say of which glyph they are. So a file that is read with a wrong length, or written
with wrong offsets, shows as the wrong cells. `compose.py` takes the fonts in any order;
each early return and each exception of it is an alternative of `TakeFont`, and `failure`
keeps the cause of an exception, which ends the run. What hb-shape says of the alphabet is an
input (`Alphabets`), chosen when `text_shaper.py` runs, that is, once. `generate_langpack`
lists the directory in any order. `Generator` treats these stages as steps that may
fail; `LanguagePack` says what is in the files when they do not.

The modules `MC*` give values to the constants. Those named `*Proofs`, and `NaturalLemmas`,
hold theorems: see below.

## Runs

| Run | Shows |
|---|---|
| `render` | On texts of up to four of seven runes (two Hebrew letters, a diacritic, two digits, a Latin letter, a bracket) and up to five of six, and on texts with a space and a rune that reads as NUL with every stretch of them taken as the line, drawn any number of times: what is shown never changes; on clean lines it is the visual order and the text is restored; only the line is written, left-to-right letters stay, flash and text without RTL runes are left alone, the loop ends. |
| `utf8` | Texts of up to four runes of one to four bytes: after any reversals and writes the bytes encode the right runes, neither loop leaves the span, and the text reads back. |
| `measure` | Texts of up to four runes, any sequence of measurements with and without the cookie, on platforms with and without unshaping: the joined text is measured each time, writes hit only two-byte runes, the text is given back, up to letters that share a glyph. |
| `draw` | Texts of up to three of five runes, among them a left-to-right letter of one byte and one of two, draws of one or two lines and measurements in any order: the alignment depends on the original text only, no left-to-right letter is moved or overwritten, calls end. All of this while `intact` holds. |
| `draw_painter` | On sound texts of up to three of six runes, on one or two lines, `DrawText` implements `TextPainter`. |
| `patcher` | All layouts of 14 bytes of code, detours at any place, sizes of all remainders modulo 4, hardware and emulator, images that fit and that do not: the branches reach the patch, overwritten instructions are complete in it, the rest and the footer are kept. |
| `generator` | Runs for two platforms without end, one of which is ended anywhere, while fonts are left out of up to two compositions: outputs are for the revision and size asked for; a language pack lacks fonts only if they were left out of this size or a step they come from was cut short, a firmware is incomplete only if its unpacking or the write of the image was; tables fit fonts, except for a revision a run of which was interrupted. |
| `langpack` | Every image of up to nine words of three kinds and three images with whole tables, four alphabets (shared glyphs and a ligature, a digit with a letter's glyph, deltas too large, ranges exhausted), four stock fonts (two near the limit of 16-bit offsets, one compressed, one with a full hash chain), any member failing: the largest table is found; composed fonts have the right glyph, whole, at each code point, and every form of the shaper table where the runtime will look for it; offsets fit; every resource reads back as a font that was asked for. |

The visual order (`Visual`) and the joined form (`Joined`) are stated independently of the
code: on the positions of a line, and on the joining classes of Unicode.

Preconditions of these properties are the boundary of what the scheme can do.
*Clean* lines: neutrals and numerals after an RTL rune lead to another RTL rune, not
mixed at the edges. Otherwise the second pass does not find the spans of the first; what is
shown stays the same even so (`RedrawStable`), but the application's text is changed, and
with it what it compares or sends. *MarksBeforeLetters*: zero-width runes are
both RTL and neutral; one after its letter is moved by the second pass. *AllJoin*: hamza,
whose one glyph has deltas 0, is taken for a kashida and the letter after it is shaped as
if joined, although a comment (`fonts/text_shaper.py:79`) says that such letters restart
the state machine. `RedrawStable` also excludes runes that read as NUL: two letters before two of U+10000 are
reversed differently on each draw. *ReadWhole*: see below on compressed fonts.
*Bmp*: U+10000 reads as NUL and ends the loops, U+20628 reads as beh.
*Placed* in `Patcher`: `finalize` pads the image to an even size while ld aligns `.text` to
what its contents need; if that is 4, as literal pools make it, the code is appended
where it was linked only if the size of the firmware leaves 0 or 3 modulo 4.

Bounds. Spans, runs of numerals and ligatures need at most three runes, their interaction
with a neighbour on each side five; lines are one or two, since a line never writes
outside itself (proved). The alphabets have one or two members of each class that some
branch tells apart. In `langpack` the hash directory has 3 entries instead of 255, a chain 7 pairs instead of
127, and "16 bits" end at 131, so that a few glyphs reach each limit; the sizes are such
that one font has one byte less than the limit and one slightly more. Nine words hold two
tables of two items and the gap between them. `MaxFails` = 1 ends one run at any
point, after which all paths it left are reused by later runs of either revision;
`MaxLeftOut` = 2 lets fonts be left out of two sizes of one revision or of one size of
each. The theorems have neither bound. Deadlock is checked except in
`patcher` and `langpack`, where a run of the tools ends.

Fairness. `FairSpec`, `MeasureFairSpec` and `DrawFairSpec` assume weak fairness of the
steps of a call that has begun: it is straight-line code on the thread of the caller.
Nothing forces an application to call again. `MeasureCompletes` and `DrawsComplete` claim the
end of a call as long as the buffer is followed (`intact`).

### Disagreements found

Each of these runs ends with a counterexample.

* `render_numerals`: for an RTL letter, two digits and a Latin letter the handler is given
  the digits apart from each other: the span is closed before its last digit.
  `rtl_ranges.h` says numerals are laid out left to right.
* `measure_marks`: a lone letter followed by a diacritic gets its final form: the branch
  that should restore the isolated form tests a state that cannot occur there.
* `draw_ligature`: with alef, space, digit, lam, alef the second pass leaves the blank
  rune of the ligature elsewhere, and `expand_ligature` overwrites half of another rune.
* `generator_tables`: a run without language packs uses whatever shaper tables are in
  `runtime/` and caches the patched binary; a later run with language packs delivers fonts
  with another mapping beside it.

Known to the model, without a run of their own:

* `font_read` computes the size of a glyph as width times height, but in compressed fonts
  the height counts RLE4 units (`fontgen.py:59-61`). A glyph of less than four pixels width
  may lose the end of its data; wider ones are copied with some bytes of the next. The
  precondition `ReadWhole` leaves the former out.
* The pattern `*GOTHIC_14*` (`generator.py:203`) also matches `GOTHIC_14_BOLD`, so the
  regular resource may get the bold font, by the order of the directory; it surely does if
  the regular font was skipped. `ResourcesReadBack` allows any font that matches.
* `find_base_codept_by_shaped` takes the first letter that has a form. With kaf and keheh
  sharing theirs, a keheh within a word is given back to the application as kaf; it looks
  the same when drawn again (`MeasureStable`), but the text is another one.
* A supplemental character whose glyph is also a form of a letter takes the glyph away
  from the scratch code point (`text_shaper.py:132`); `FormsShown` excepts such glyphs.
* A font named without size, such as `FONT_FALLBACK`, is no font without template but ends
  the composition of all fonts with a `TypeError` (`compose.py:156`).

Also, an interrupted download leaves an empty archive that all
later runs reuse until the cache is deleted; an interrupted font step, or a font whose
generation failed, leads to language packs with empty resources without any error, and a run
ended while `patch.py` writes its output to a truncated image that later runs deliver (the
exceptions in `LangpacksSound` and `FirmwareSound`).

## Proofs

Eight modules hold theorems. What they prove holds for every value of the constants: every
set of texts and lines, every table, every firmware, any number of revisions and failures.

| Module | Theorems | Property of the run |
|---|---|---|
| `RenderWrapProofs` | `TypeCorrect`, `StaysInLine`, `LettersNeverMove`, `LeavesOtherTextAlone`, `RedrawAlwaysStable`; `PlainLinesRestored`, `PlainLinesVisual` | `TypeOK`, `OnlyTheLine`, `LtrLettersStay`, `TextUntouched`, `RedrawStable`; `CleanLineRestored` and `CleanLineVisual` for texts without marks |
| `MeasureTextProofs` | `MeasureTypeCorrect`, `WritesAlwaysHitRunes`, `MeasureAlwaysStable`, `TextAlwaysGivenBack`, `MeasuresAlwaysJoined` | `MeasureTypeOK`, `WritesHitRunes`, `MeasureStable`, `TextGivenBack`, `MeasuresJoined` |
| `DrawTextProofs` | `DrawTypeCorrect`, `LettersAlwaysSurvive`, `AlignmentAlwaysStable` | `DrawTypeOK`, `LettersSurvive`, `AlignmentStable` |
| `Utf8Proofs` | `BytesAlwaysEncode`, `SpanAlwaysKept`, `RunesAlwaysRead` | `BytesEncodeRunes`, `SpanKept`, `ReadsRunes` |
| `PatcherProofs` | `BranchRoundTrip`, `BranchReaches` (on `BranchEncoding`); `BranchesAlwaysLand`, `DetoursAlwaysComplete`, `RestAlwaysKept` | `BranchesLand`, `DetourComplete`, `RestOfImageKept` |
| `GeneratorProofs` | `LangpacksAlwaysSound`, `FirmwareAlwaysSound`, `TablesAlwaysMatch` | `LangpacksSound`, `FirmwareSound`, `TablesMatch` |
| `FontTableProofs` | `LargestAlwaysFound` | `LargestTable` |
| `NaturalLemmas` | `LeastNat`: a nonempty set of naturals has a least element; `SetInduction` | |

### Assumptions

Each is named, stands in the module that declares the constants, and is evaluated by TLC on
the runs. `TextsAssumption`: texts are sequences of naturals, none of
them 0, for a NUL ends the string.
`Utf8Assumption`: they consist of code points of Unicode other than NUL, and what the shaper
writes has two bytes. `LinesAssumption`: a line is a
stretch of the text. `ShaperRangeAssumption`: the scratch code points are in the ranges
`text_shaper.py` is given (`scratch_codepoint_ranges`). `LutAssumption`: the tables are such as
`pack_lut` makes: scratch code points are no letters of the alphabet,
every form of an entry is in the scratch range, each ligature has a code point of its own and
an entry for it, and entries that share a form are both of
ligatures or both of letters. `ScriptAssumption`: the alphabet consists of right-to-left letters, none
of them punctuation, a diacritic or a numeral; the letters of the ligatures are in it, and none
both ends a ligature and begins one (`text_shaper.py:39` has only lam-alef). `PatcherAssumption`: a Thumb-2 instruction has two or four
bytes and an even address, code is a whole number of half-words, and the flash has at most
1 MB, so that every branch is in the range of `BranchReaches`; the symbols whose assembly
branches back are injected ones. `GeneratorAssumption`:
the revisions are those of the source. `ImagesAssumption`: an image is a sequence.

`TablesAlwaysMatch` has a hypothesis, that every run asks for language packs: the run
`generator_tables` is the counterexample without it. `BranchesLand` and `DetourComplete`
keep the precondition `Placed` of the model (above), `WritesHitRunes` its `Bmp` and
`Unshaped`, `RedrawStable` its texts without marks and without runes that read as NUL. The
last is also the hypothesis of `PlainLinesRestored` and `PlainLinesVisual`.
`MeasureAlwaysStable` and `TextAlwaysGivenBack` hold for tables with `FormsReadBack`: letters
share a glyph only with letters that join alike, for the same form, and `unshape_text` does not
write a letter of a ligature for another. What glyphs letters share is decided by the typeface
and by `hb-shape`, not by code of the repository, and the condition is not idle: a right-joining letter with
the isolated glyph of a dual-joining one is restored as the latter, after which the next
measurement joins it to its neighbour. `MeasuresAlwaysJoined` also
has `JoiningClassesAgree`: the forms in the table tell of each letter whether Unicode
calls it right-joining. TLC evaluates both on the tables of the runs, which have letters that
share glyphs (`TablesReadBack`). The other theorems have no hypotheses.

### Invariants

None of these properties is inductive.

*Reordering* (`RtlInv`, `IInv`). `Pointers` is the order of the pointers of the loop (span
start, run of numerals and current rune, read-ahead, line end), which makes every reversed
stretch a part of the line. `SpanHoldsNoLetter`: between the start of an open span and the
current rune there is no left-to-right letter, which is why reversing it moves none. These
two do not mention the text of the application, so they also hold where `rtl_apply` runs on
what the shaper, or an earlier pass, left behind; `DrawTextProofs` reuses the lemmas on
`rtl_apply` as they are. `IInv` adds `LettersFixed`, `EndInLine`, and `NoSpanWithoutRtl` and
`FlashSafe` for text that must not be touched. `ReverseSpec` and `SwappedSpec` say what the
helpers do to positions.

*Two passes* (`RedrawInv`). What the user sees of a line and what the application gets back
depend on what `rtl_apply` does to its own output. `Pass` says what one call makes of a buffer,
without the loop: `LineSpan` is where a span opens and closes (the line's end, a left-to-right
rune, or the neutral before it, which is left out), `NumeralRun` is a run of numerals in it, and
`Turned` says that the rune of each position of a span is, mirrored, that of the opposite
position, or of the opposite one in its run of numerals. `Progress` is the same for the part
of the line the loop has been through; there is one lemma per branch of the loop
(`StepOpen` ... `StepLast`), and `ReturnPasses` ends it with `Pass`. The rest is about `Pass`
alone. It is not its own inverse: a span that ends in a neutral begins with it after one pass, and
then opens later. But what it leaves is always `Settled` (`PassSettles`: spans end with
an RTL rune, numerals in them come directly after one), over a settled line the spans and
the runs of numerals stay where they are (`SpansSame`, `TurnedRun`), and so two passes give
a settled line back (`PassTwice`). Hence the handler is given the same buffer on every draw,
even if the application never gets its own text back (`RedrawAlwaysStable`). Lines that
are `Clean` are settled as written (`CleanSettled`), hence restored (`PlainLinesRestored`), and
on them the spans of a pass are the stretches of `Visual` (`SpanIsPair`, `HeldInSpan`) and its runs of
numerals those of `Visual` (`PairIsRun`, `RunIsPair`), so that what the handler is given is
the visual order (`PlainLinesVisual`).

*Bytes* (`Utf8Inv`). Between the call and the return of `reverse_span` the buffer is no
valid UTF-8. `Mirroring` describes it during the first loop: outside of what is left to swap,
the bytes of the span are those of the text before the call, taken from the other end.
`Rotating` describes it during the second: there is a rune, the m-th, at which `end_iter`
stands, and those of the span before it have their bytes in reverse order, all others are
right. So the byte at `end_iter` is the lead byte of the rune before the m-th, its upper half
gives the right length, and the loop cannot lose its place. Between the loops stands that
the reversed text has its runes where the mirror image of the bytes has them
(`ReversedSpec`), whatever their lengths. Where a rune begins is a sum over the runes before it:
`OffsetsSpec`, `OffsetsGrow` and `SameOffsets` are proved by induction, in the form of
`SetInduction` (the set of the numbers for which a claim holds has 0 and all successors),
which does not need an operator as a parameter. `EncodesOnly` closes the argument: a buffer
in which every rune has its bytes is the encoding.

*Shaper* (`ShaperType`, `ShaperSafe`). The loop writes late: the rune it finalizes was
read one or more turns before, a ligature is formed out of two runes and only its
second place is written with a visible form, and `unshape_text` later writes the place *before* a ligature.
`TextSafe` says that no rune has changed its length, and that a form of a ligature always
follows a rune the application wrote with two bytes: the one `expand_ligature` will
write to. `AheadSafe` and `LateSafe` say the same of the rune in the read-ahead and of the one
waiting to be finalized. This also shows why forms must not be shared between letters and
ligatures (`LutAssumption`): then `find_base_codept_by_shaped` could take a letter for a
ligature.

*Whole texts* (`MeasuredInv`). What is measured depends on what `shape_text` makes of a text
that earlier calls have shaped, or shaped and restored. `Shaped` says what one call makes of a text, without
the loop: a rune is skipped, breaks the word or is given a form (`Skips`, `Breaks`,
`Shapes`); the form depends on whether the letter before is still open
(`Medial`) and whether the word ends here (`EndsWord`) or, as only turns out
later, after marks (`Left`, which is when the late finalization corrects the form). `Reading`
is the read-ahead of the loop after k runes, `Writing` what it has written by then:
what stays (`LastForm`), but for the open letter, which may still change (`FirstForm`).
`WritingStep` has one case per action of the loop. `Restored` and `Unshaping` are the same
for `unshape_text`, which restores the first rune of a ligature only when it meets the
second. The rest is about these functions alone: a shaped text is shaped to itself, for no rune of it
is a letter any more (`ShapedAgain`), and a restored one to the same as the original,
although it may have other letters: they are skipped, break, join and end words alike
(`RestoredWords`, `RestoredAgain`). So between calls the buffer is one of three texts
(`Versions`), and all three are measured alike. `BeforeAgrees` and `AfterAgrees` compare
the states of the loop with the neighbours in the reference `Joined`; they differ only
where marks end a word (`LateMarks`), which `MeasuresJoined` leaves out.

*Draw* (`DrawInv`). `OneRoutine`: of the shaper and the two RTL passes at most one runs.

*Alignment* (`AlignInv`). `gdt_alignment_step` takes the first rune with an opinion, in a
buffer that has been shaped, reordered and unshaped any number of times. Every step changes one stretch
without left-to-right letters and keeps whether there is a right-to-left letter in it
(`SameStretch`, `StretchStart`): for `rtl_apply` because a reversal moves no such letter, for
the shaper because it writes letters over letters. The exception is `expand_ligature`, which
writes over the rune before a ligature without looking at it. `WellPlaced` says
that this rune is never a left-to-right letter: a ligature stands behind an RTL rune with no
left-to-right letter between them (`Follows`); in the part of the line that the first pass has
reversed, and the second not yet, it stands before one (`Precedes`). `mirrored` is this part,
in terms of the pointers of the loop; `PassInv` says that a span opens at the first RTL
rune after a left-to-right letter and holds all of them up to the next, so that reversing
it exchanges "behind" and "before" (`MirrorPlaced`), and that a run of numerals holds no
ligature (`NumeralsPlaced`). `ShapeAhead` and `ShapeLate` say what the shaper knows of
the rune in its read-ahead and of the one waiting to be finalized. The property keeps
its precondition `intact`: the run `draw_ligature` shows that `expand_ligature` may tear
another rune apart, and after that the buffer is not followed. The same invariant carries
`LettersAlwaysSurvive` (`DrawNext_Letters`): a left-to-right letter is neither in a stretch
that `rtl_apply` reverses nor the rune before a ligature.

*Patcher* (`PatcherInv`). `finalize` links block by block (`ComposeAsm`, `CompileC`, `Link`)
and then goes through the queue again to paste branches, so the invariant has three parts that hand over
to each other. `QueueInv`: every queued operation belongs to a branch (`NoStrayOps`), every
branch is at an instruction, with another one four or six bytes behind it, and comes with what its symbol needs (`Complete`), and
branches are for different symbols and at least six bytes apart (`Apart`). `LinkInv`:
where the symbol table says a symbol is, the cells are its code, resolved; one more block
leaves the others where they are (`LinkedSpec`). `ImageInv`: the branches of the operations
up to `next_op` are in the image, and what no branch covers is the stock firmware. At the end
`BranchReaches` turns the pasted bytes back into the address of the symbol.
`BranchRoundTrip` shows along the way that the bits i1 and i2, which the code takes one
place too high, do no harm within 2^21 half-words.

*Generator* (`SoundInv`, `FontsFirst`, `TablesInv`). A step returns at once if its path
exists, so what is delivered rests on every earlier run. `PartialInv`: a path of a revision
is half done only while its step is open (`OpenInv`), or because one of the steps it is
made from (`MadeFrom`) was cut short in a run for this revision, or because fonts were left
out of it (`Excused`). `ProgressInv`: the steps that are no longer in the script have made
their paths. `ForInv`: a path holds what its name says. The two properties are part of the
invariant, for what was delivered stays delivered while the disk goes on changing; they
stay true because excuses are never taken back. `MadePreserves` has the one step of the
argument that all cached steps share: from inputs that are complete or excused comes a path
that is. For `TablesAlwaysMatch`, `FontsFirst` says that a patched image comes after the
fonts of all sizes, and `TablesInv` that as long as a revision has no patched image, its
fonts are of the current run and of the tables as they are now; `Subset` of a later run
cannot come between.

*Font table* (`ScanInv`). `find_system_fonts.py` keeps two dictionaries that may be the same
object. The invariant relates them to the items read so far: outside a table, the best so far
is the largest of all (`OutsideTable`); inside, `work_table` is the table of the last item,
which may still grow, and it is the best so far exactly if the two are one object
(`InsideTable`). The rest is about tables as such: two that share an item are equal
(`SharedEqual`), the one of the last item lies behind all others (`LastBehind`), one more
item either extends it or begins another (`GrowNear`, `GrowFar`).

### Only model-checked

* Liveness (`DrawCompletes`, `MeasureCompletes`, `DrawsComplete`): out of reach of the prover.
* `CleanLineRestored` and `CleanLineVisual` on lines with marks. `Visible` takes the marks out
  with `SelectSeq`, of which the provers know no more than its name; what a pass does
  to a line with marks would have to be stated position by position, as `Pass` does for those without.
* The refinement of `TextPainter`: `Pass` and `Shaped` would have to be composed over a whole draw,
  in which `rtl_apply` runs on shaped text. This has not been attempted.
* `Pfo`, `ShaperLut`, `LanguagePack`: built on the folds of the community modules over
  sequences of glyphs, which the provers do not unfold.

## Not modelled

The search for patterns in the disassembly (`match`, `_build_symbol_table`, most of
`patch.py`): regular expressions over a binary that is not part of the repository.
Rasterisation, RLE4 encoding and glyph repair (`pebblesdk/fontgen.py`,
`fonts/fix_ijam.py`), and with them the dumps of bitmaps that `compose.py:247` makes only
once for a typeface and size, so that letters of a larger alphabet are never repaired
later. The queries to `hb-shape`. Fonts of version 2, for which `font_read` takes offsets
to have 16 bits, and code points above U+FFFF, which it refuses. A typeface that has
U+25AF itself: the test for it in `fontgen.py:506` compares identities and never fires.
`stm32_crc.py`, a pure function of bytes whose value nothing else here depends on.
`tag_version` and the manifest. `pebble.h` (7957 lines) and `platform.h` are declarations
of the SDK and have no behaviour: of the C sources that have, nearly every line is mapped,
although by share of lines the header outweighs them all.

## Plan

Order of work: the runtime first, because it runs on the watch on text nobody chose; then
the tools.

1. Done: `Rtl`, `RenderWrap` with proofs; `TextShaper`, `MeasureText`, `DrawText` and
   `TextPainter`; `Utf8`; `Patcher` with the proofs on the encoding; `Generator`.
2. Done: `FontTable`, `Pfo` and `LanguagePack` (discovery of fonts, font files, composition,
   resource packs, the limits of the scratch ranges); letters that share glyphs.
3. Done: theorems on the patcher, the generator, the shaper, the composition of draws, the
   bytes under the text, and the scan for system fonts.
4. Done: `AlignmentStable`, `RedrawStable`, and restoration and visual order of clean lines
   without marks; what `shape_text` and `unshape_text` make of whole texts (`MeasuresJoined`,
   `MeasureStable`, `TextGivenBack`).
5. Next theorems: clean lines with marks; the steps of `TextPainter`.
