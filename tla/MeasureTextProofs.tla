------------------------- MODULE MeasureTextProofs --------------------------
(***************************************************************************)
(* For all tables pack_lut may build, all texts and all sequences of       *)
(* measurements: shape_text and unshape_text keep their pointers and       *)
(* indices in bounds, and on a text that can be told from shaped text      *)
(* every write hits a rune of two bytes.  The last sections prove what the *)
(* calls compute: shape_text as a function of the whole text, its inverse, *)
(* and from these that a measurement is repeatable, that the text is given *)
(* back and that the letters measured are joined.                          *)
(***************************************************************************)
EXTENDS MeasureText, NaturalLemmas, TLAPS

\* The type invariant, as far as it concerns the shaper.  The entry that the
\* late finalization will use is there whenever its pointer is.
ShaperType ==
  /\ orig \in Seq(Nat) /\ text \in [1 .. Len(orig) -> Nat]
  /\ shaper_pc \in {"idle", "shape", "unshape"}
  /\ ptr \in 0 .. Len(orig) + 1
  /\ next_rune_ptr \in 0 .. Len(orig)
  /\ codept_next \in uint16
  /\ next_lut_entry \in 0 .. Len(ARABIC_SHAPER_LUT)
  /\ late_finalize_ptr \in 0 .. Len(orig)
  /\ late_finalize_lut_entry \in 0 .. Len(ARABIC_SHAPER_LUT)
  /\ late_finalize_ptr # NULL => late_finalize_lut_entry # NULL
  /\ state \in {"STATE_INITIAL", "STATE_MEDIAL"}
  /\ intact \in BOOLEAN

\* The application wrote two bytes at i.
Wide(i) == i \in 1 .. Len(orig) /\ orig[i] \in TwoBytes

\* The LUT entry is that of a ligature; the code point is one of its forms.
LigatureEntry(k) == Entry(k).true \in LigatureCodepts
LigatureForm(cp) ==
  \E k \in 1 .. Len(ARABIC_SHAPER_LUT) : LigatureEntry(k) /\ cp \in FormCodepts(Entry(k))

\* No rune changes its length, and a ligature follows a rune of two bytes:
\* the one expand_ligature will write to.
RuneSafe(t, i) ==
  /\ t[i] # orig[i] => t[i] \in TwoBytes /\ orig[i] \in TwoBytes
  /\ t[i] \notin LigatureCodepts
  /\ LigatureForm(t[i]) => Wide(i - 1)
TextSafe == \A i \in 1 .. Len(orig) : RuneSafe(text, i)

\* The same for the runes shape_text has read but not yet written.
AheadSafe ==
  /\ ptr >= 1
  /\ next_rune_ptr = NULL \/ next_rune_ptr = ptr - 1
  /\ codept_next \in TwoBytes => Wide(next_rune_ptr)
  /\ codept_next \in LigatureCodepts => Wide(next_rune_ptr - 1)
  /\ next_lut_entry # NULL => Entry(next_lut_entry).true = codept_next
LateSafe ==
  late_finalize_ptr # NULL =>
    /\ Wide(late_finalize_ptr)
    /\ LigatureEntry(late_finalize_lut_entry) => Wide(late_finalize_ptr - 1)

ShaperSafe ==
  /\ intact = TRUE /\ TextSafe
  /\ shaper_pc = "shape" => AheadSafe /\ LateSafe

PlainText == Bmp(orig) /\ Unshaped(orig)

-----------------------------------------------------------------------------
(* The tables.                                                             *)

LEMMA RangeFacts ==
  /\ TwoBytes \subseteq Nat /\ TwoBytes \subseteq uint16 /\ 0 \notin TwoBytes
  /\ ARABIC_SHAPER_RANGE \subseteq TwoBytes
  /\ ZERO_WIDTH_CODEPT \in TwoBytes \ ARABIC_SHAPER_RANGE
<1>1. \A x \in TwoBytes : x \in Int /\ 128 <= x /\ x <= 2047
  BY DEF TwoBytes, RANGE
<1>2. TwoBytes \subseteq Nat /\ TwoBytes \subseteq uint16 /\ 0 \notin TwoBytes
  BY <1>1 DEF uint16
<1>3. ZERO_WIDTH_CODEPT \in TwoBytes
  BY DEF TwoBytes, RANGE, ZERO_WIDTH_CODEPT
<1> QED BY <1>2, <1>3, LutAssumption, Zenon

\* What read_utf8 returns: the rune itself if it has 16 bits.
LEMMA CodeptFacts ==
  /\ uint16 \subseteq Nat /\ 0 \in uint16
  /\ \A r \in Nat : codept(r) \in uint16
  /\ \A r \in uint16 : codept(r) = r
BY DEF codept, uint16

LEMMA LigatureFacts ==
  /\ Len(ARABIC_LIGATURE_LUT) \in Nat /\ DOMAIN ARABIC_LIGATURE_LUT = 1 .. Len(ARABIC_LIGATURE_LUT)
  /\ LigatureCodepts \subseteq ARABIC_SHAPER_RANGE
  /\ \A k \in DOMAIN ARABIC_LIGATURE_LUT :
       /\ ARABIC_LIGATURE_LUT[k].codept \in LigatureCodepts
       /\ ARABIC_LIGATURE_LUT[k].pattern[1] \in TwoBytes \ ARABIC_SHAPER_RANGE
       /\ ARABIC_LIGATURE_LUT[k].pattern[2] \in TwoBytes \ ARABIC_SHAPER_RANGE
       /\ RtlLetter(ARABIC_LIGATURE_LUT[k].pattern[1])
       /\ RtlLetter(ARABIC_LIGATURE_LUT[k].pattern[2])
<1> DEFINE L == TwoBytes \ ARABIC_SHAPER_RANGE
           R == [pattern : L \X L, codept : ARABIC_SHAPER_RANGE]
<1>1. ARABIC_LIGATURE_LUT \in Seq(R)
  BY LutAssumption
<1> HIDE DEF L, R
<1>2. /\ Len(ARABIC_LIGATURE_LUT) \in Nat
      /\ DOMAIN ARABIC_LIGATURE_LUT = 1 .. Len(ARABIC_LIGATURE_LUT)
      /\ \A k \in DOMAIN ARABIC_LIGATURE_LUT : ARABIC_LIGATURE_LUT[k] \in R
  BY <1>1
<1>3. \A k \in DOMAIN ARABIC_LIGATURE_LUT :
        /\ ARABIC_LIGATURE_LUT[k].codept \in ARABIC_SHAPER_RANGE
        /\ ARABIC_LIGATURE_LUT[k].pattern[1] \in L
        /\ ARABIC_LIGATURE_LUT[k].pattern[2] \in L
  BY <1>2 DEF R
<1>4. \A k \in DOMAIN ARABIC_LIGATURE_LUT : /\ RtlLetter(ARABIC_LIGATURE_LUT[k].pattern[1])
                                           /\ RtlLetter(ARABIC_LIGATURE_LUT[k].pattern[2])
  <2>1. \A k \in DOMAIN ARABIC_LIGATURE_LUT : \A m \in 1 .. 2 :
          RtlLetter(ARABIC_LIGATURE_LUT[k].pattern[m])
    BY ScriptAssumption
  <2> QED BY <2>1
<1> QED BY <1>2, <1>3, <1>4 DEF LigatureCodepts, L

LEMMA EntryFacts ==
  /\ Len(ARABIC_SHAPER_LUT) \in Nat /\ DOMAIN ARABIC_SHAPER_LUT = 1 .. Len(ARABIC_SHAPER_LUT)
  /\ \A k \in 1 .. Len(ARABIC_SHAPER_LUT) :
       /\ Entry(k).true \in TwoBytes
       /\ Entry(k).true \notin LigatureCodepts => Entry(k).true \notin ARABIC_SHAPER_RANGE
       /\ Entry(k).isolated \in Nat /\ Entry(k).initial \in Int
       /\ Entry(k).medial \in Int /\ Entry(k).final \in Int
       /\ FormCodepts(Entry(k)) \subseteq ARABIC_SHAPER_RANGE \ LigatureCodepts
       /\ \A cp \in FormCodepts(Entry(k)) : LigatureForm(cp) => LigatureEntry(k)
<1> DEFINE L == (TwoBytes \ ARABIC_SHAPER_RANGE) \union LigatureCodepts
           R == [true : L, isolated : ARABIC_SHAPER_RANGE,
                 initial : int8, medial : int8, final : int8]
<1>1. ARABIC_SHAPER_LUT \in Seq(R)
  BY LutAssumption
<1> HIDE DEF R
<1>2. /\ Len(ARABIC_SHAPER_LUT) \in Nat
      /\ DOMAIN ARABIC_SHAPER_LUT = 1 .. Len(ARABIC_SHAPER_LUT)
      /\ \A k \in 1 .. Len(ARABIC_SHAPER_LUT) : Entry(k) \in R
  BY <1>1 DEF Entry
<1> HIDE DEF L
<1>3. \A k \in 1 .. Len(ARABIC_SHAPER_LUT) :
        /\ Entry(k).true \in L
        /\ Entry(k).isolated \in ARABIC_SHAPER_RANGE /\ Entry(k).initial \in Int
        /\ Entry(k).medial \in Int /\ Entry(k).final \in Int
  <2>1. \A e \in R : /\ e.true \in L /\ e.isolated \in ARABIC_SHAPER_RANGE
                     /\ e.initial \in Int /\ e.medial \in Int /\ e.final \in Int
    BY DEF R, int8
  <2> QED BY <1>2, <2>1, Zenon
<1>4. \A k \in 1 .. Len(ARABIC_SHAPER_LUT) :
        FormCodepts(Entry(k)) \subseteq ARABIC_SHAPER_RANGE \ LigatureCodepts
  BY <1>2, LutAssumption, Zenon DEF Entry
<1>5. ASSUME NEW k \in 1 .. Len(ARABIC_SHAPER_LUT), NEW cp \in FormCodepts(Entry(k)),
             LigatureForm(cp)
      PROVE  LigatureEntry(k)
  <2>1. PICK j \in 1 .. Len(ARABIC_SHAPER_LUT) : LigatureEntry(j) /\ cp \in FormCodepts(Entry(j))
    BY <1>5 DEF LigatureForm
  <2>2. FormCodepts(Entry(j)) \intersect FormCodepts(Entry(k)) # {}
    BY <1>5, <2>1
  <2>3. Entry(j).true \in LigatureCodepts <=> Entry(k).true \in LigatureCodepts
    BY <1>2, <2>2, LutAssumption, Zenon DEF Entry
  <2> QED BY <2>1, <2>3 DEF LigatureEntry
<1>6. /\ \A r \in ARABIC_SHAPER_RANGE : r \in Nat
      /\ \A l \in L : l \in TwoBytes /\ (l \notin LigatureCodepts => l \notin ARABIC_SHAPER_RANGE)
  BY RangeFacts, LigatureFacts DEF L
<1> QED BY <1>2, <1>3, <1>4, <1>5, <1>6, Zenon

-----------------------------------------------------------------------------
(* The searches in the tables.                                             *)

\* The first element of a non-empty set of indices is one of them.
LEMMA FirstIn ==
  ASSUME NEW S, S \subseteq Nat, S # {}
  PROVE  First(S) \in S
BY LeastNat DEF First

\* find_lut_entry_by_codept gives the index of an entry for this letter, or NULL.
LEMMA FindEntry ==
  ASSUME NEW cp
  PROVE  /\ find_lut_entry_by_codept(cp) \in 0 .. Len(ARABIC_SHAPER_LUT)
         /\ find_lut_entry_by_codept(cp) # NULL =>
              Entry(find_lut_entry_by_codept(cp)).true = cp
<1> DEFINE hits == { i \in DOMAIN ARABIC_SHAPER_LUT : Entry(i).true = cp }
<1>1. hits \subseteq 1 .. Len(ARABIC_SHAPER_LUT) /\ hits \subseteq Nat
  BY EntryFacts
<1>2. hits # {} => First(hits) \in hits
  BY <1>1, FirstIn
<1>3. find_lut_entry_by_codept(cp) = IF hits = {} THEN NULL ELSE First(hits)
  BY DEF find_lut_entry_by_codept
<1> QED BY <1>1, <1>2, <1>3, EntryFacts DEF NULL

\* find_base_codept_by_shaped gives a letter of which cp is a form, or 0.
LEMMA FindBase ==
  ASSUME NEW cp \in Nat, find_base_codept_by_shaped(cp) # 0
  PROVE  \E k \in 1 .. Len(ARABIC_SHAPER_LUT) :
           find_base_codept_by_shaped(cp) = Entry(k).true /\ cp \in FormCodepts(Entry(k))
<1> DEFINE hits == { i \in DOMAIN ARABIC_SHAPER_LUT :
                       cp - Entry(i).isolated \in
                         {0, Entry(i).initial, Entry(i).medial, Entry(i).final} }
<1>1. hits \subseteq 1 .. Len(ARABIC_SHAPER_LUT) /\ hits \subseteq Nat
  BY EntryFacts
<1>2. hits # {} => First(hits) \in hits
  BY <1>1, FirstIn
<1>3. find_base_codept_by_shaped(cp) = IF hits = {} THEN 0 ELSE Entry(First(hits)).true
  BY DEF find_base_codept_by_shaped
<1>4. PICK k \in hits : find_base_codept_by_shaped(cp) = Entry(k).true
  BY <1>2, <1>3
<1>5. k \in 1 .. Len(ARABIC_SHAPER_LUT)
  BY <1>1
<1>6. cp - Entry(k).isolated \in {0, Entry(k).initial, Entry(k).medial, Entry(k).final}
  OBVIOUS
<1>7. cp \in FormCodepts(Entry(k))
  BY <1>5, <1>6, EntryFacts DEF FormCodepts
<1> QED BY <1>4, <1>5, <1>7

\* find_ligature_by_codepts gives a ligature of this pattern, or 0.
LEMMA FindLigature ==
  ASSUME NEW pattern, find_ligature_by_codepts(pattern) # 0
  PROVE  /\ find_ligature_by_codepts(pattern) \in LigatureCodepts
         /\ pattern[1] \in TwoBytes \ ARABIC_SHAPER_RANGE /\ RtlLetter(pattern[1])
         /\ pattern[2] \in TwoBytes \ ARABIC_SHAPER_RANGE /\ RtlLetter(pattern[2])
<1> DEFINE hits == { i \in DOMAIN ARABIC_LIGATURE_LUT : ARABIC_LIGATURE_LUT[i].pattern = pattern }
<1>1. hits \subseteq Nat
  BY LigatureFacts
<1>2. hits # {} => First(hits) \in hits
  BY <1>1, FirstIn
<1>3. find_ligature_by_codepts(pattern) =
        IF hits = {} THEN 0 ELSE ARABIC_LIGATURE_LUT[First(hits)].codept
  BY DEF find_ligature_by_codepts
<1>4. PICK k \in hits : find_ligature_by_codepts(pattern) = ARABIC_LIGATURE_LUT[k].codept
  BY <1>2, <1>3
<1>5. k \in DOMAIN ARABIC_LIGATURE_LUT /\ ARABIC_LIGATURE_LUT[k].pattern = pattern
  OBVIOUS
<1> QED BY <1>4, <1>5, LigatureFacts

-----------------------------------------------------------------------------
(* What one iteration reads and writes.                                    *)

LEMMA TextFacts ==
  ASSUME ShaperType
  PROVE  /\ Len(orig) \in Nat /\ orig \in [1 .. Len(orig) -> Nat] /\ DOMAIN orig = 1 .. Len(orig)
         /\ text \in [1 .. Len(orig) -> Nat] /\ DOMAIN text = 1 .. Len(orig)
         /\ unread <=> ptr \in 1 .. Len(orig)
<1>1. orig \in Seq(Nat)
  BY DEF ShaperType
<1>2. /\ Len(orig) \in Nat /\ orig \in [1 .. Len(orig) -> Nat] /\ DOMAIN orig = 1 .. Len(orig)
  BY <1>1
<1> QED BY <1>2 DEF ShaperType, unread

\* The read-ahead of shape_text: a ligature is found for two letters of two bytes.
LEMMA ReadFacts ==
  ASSUME ShaperType
  PROVE  /\ lig_codept # 0 =>
              /\ unread /\ lig_codept \in LigatureCodepts
              /\ codept_this \in TwoBytes \ ARABIC_SHAPER_RANGE /\ RtlLetter(codept_this)
              /\ codept(text[ptr]) \in TwoBytes \ ARABIC_SHAPER_RANGE /\ RtlLetter(codept(text[ptr]))
         /\ read_codept \in uint16
         /\ read_lut_entry \in 0 .. Len(ARABIC_SHAPER_LUT)
         /\ read_lut_entry # NULL => Entry(read_lut_entry).true = read_codept
<1> DEFINE pattern == <<codept_this, codept(text[ptr])>>
<1>1. unread => codept(text[ptr]) \in uint16
  BY TextFacts, CodeptFacts
<1>2. lig_codept # 0 => unread /\ lig_codept = find_ligature_by_codepts(pattern)
  BY DEF lig_codept
<1>3. pattern[1] = codept_this /\ pattern[2] = codept(text[ptr])
  OBVIOUS
<1> HIDE DEF pattern
<1>4. lig_codept # 0 =>
        /\ unread /\ lig_codept \in LigatureCodepts
        /\ codept_this \in TwoBytes \ ARABIC_SHAPER_RANGE /\ RtlLetter(codept_this)
        /\ codept(text[ptr]) \in TwoBytes \ ARABIC_SHAPER_RANGE /\ RtlLetter(codept(text[ptr]))
  BY <1>2, <1>3, FindLigature
<1>5. read_codept \in uint16
  BY <1>1, <1>4, CodeptFacts, LigatureFacts, RangeFacts DEF read_codept
<1>6. /\ read_lut_entry \in 0 .. Len(ARABIC_SHAPER_LUT)
      /\ read_lut_entry # NULL => Entry(read_lut_entry).true = read_codept
  <2>1. CASE unread
    BY <2>1, FindEntry, Zenon DEF read_lut_entry
  <2>2. CASE ~unread
    BY <2>2, EntryFacts DEF read_lut_entry, NULL
  <2> QED BY <2>1, <2>2
<1> QED BY <1>4, <1>5, <1>6

\* Whatever is written, the buffer stays one of code points.
LEMMA WriteType ==
  ASSUME ShaperType, NEW p, NEW cp \in Nat, Write(p, cp)
  PROVE  text' \in [1 .. Len(orig) -> Nat] /\ intact' \in BOOLEAN
<1>1. text' = write_utf8(text, p, cp) /\ intact' = (intact /\ writable(text, p))
  BY DEF Write
<1>2. text' \in [1 .. Len(orig) -> Nat]
  BY <1>1, TextFacts DEF write_utf8
<1> QED BY <1>1, <1>2

\* The forms of an entry are code points.
LEMMA FormType ==
  ASSUME NEW k \in 1 .. Len(ARABIC_SHAPER_LUT)
  PROVE  /\ FormCodepts(Entry(k)) \subseteq Nat
         /\ Entry(k).isolated \in FormCodepts(Entry(k))
         /\ Entry(k).isolated + Entry(k).initial \in FormCodepts(Entry(k))
         /\ Entry(k).isolated + Entry(k).medial \in FormCodepts(Entry(k))
         /\ Entry(k).isolated + Entry(k).final \in FormCodepts(Entry(k))
<1>1. FormCodepts(Entry(k)) \subseteq ARABIC_SHAPER_RANGE
  BY EntryFacts
<1>2. FormCodepts(Entry(k)) \subseteq Nat
  BY <1>1, RangeFacts
<1> QED BY <1>2, Zenon DEF FormCodepts

\* What the three writing branches of shape_text write: a form of the entry,
\* chosen by the state.
LEMMA FormWritten ==
  ASSUME NEW k \in 1 .. Len(ARABIC_SHAPER_LUT)
  PROVE  /\ (IF state = "STATE_INITIAL" THEN Entry(k).isolated
             ELSE Entry(k).isolated + Entry(k).final) \in FormCodepts(Entry(k))
         /\ Entry(k).isolated
               + (IF state = "STATE_INITIAL" THEN Entry(k).initial ELSE Entry(k).medial)
             \in FormCodepts(Entry(k))
BY FormType

\* The read-ahead keeps shape_text's pointers and indices in bounds.
LEMMA ReadForwardType ==
  ASSUME ShaperType, ReadForward
  PROVE  /\ ptr' \in 0 .. Len(orig) + 1 /\ next_rune_ptr' \in 0 .. Len(orig)
         /\ codept_next' \in uint16
         /\ next_lut_entry' \in 0 .. Len(ARABIC_SHAPER_LUT)
         /\ shaper_pc' \in {"shape", "idle"}
<1>1. ptr \in 0 .. Len(orig) + 1
  BY DEF ShaperType
<1>2. ptr' \in 0 .. Len(orig) + 1 /\ next_rune_ptr' \in 0 .. Len(orig)
  BY <1>1, TextFacts DEF ReadForward, NULL
<1> QED BY <1>2, ReadFacts DEF ReadForward

\* An iteration of shape_text keeps the types.
LEMMA ShapeIterateType ==
  ASSUME ShaperType, ShapeIterate, UNCHANGED orig
  PROVE  ShaperType' /\ shaper_pc' \in {"shape", "idle"}
<1>1. ReadForward
  BY DEF ShapeIterate, Ligate, SkipMark, ShapeLast, ShapeJoined, EndWord
<1>2. SUFFICES /\ text' \in [1 .. Len(orig) -> Nat] /\ intact' \in BOOLEAN
               /\ late_finalize_ptr' \in 0 .. Len(orig)
               /\ late_finalize_lut_entry' \in 0 .. Len(ARABIC_SHAPER_LUT)
               /\ late_finalize_ptr' # NULL => late_finalize_lut_entry' # NULL
               /\ state' \in {"STATE_INITIAL", "STATE_MEDIAL"}
  BY <1>1, ReadForwardType DEF ShaperType
<1>3. CASE Ligate
  BY <1>3, WriteType, RangeFacts DEF Ligate, ShaperType
<1>4. CASE SkipMark
  BY <1>4 DEF SkipMark, ShaperType
<1>5. this_lut_entry # NULL => this_lut_entry \in 1 .. Len(ARABIC_SHAPER_LUT)
  BY EntryFacts DEF this_lut_entry, ShaperType, NULL
<1>6. CASE ShapeLast
  <2>1. text' \in [1 .. Len(orig) -> Nat] /\ intact' \in BOOLEAN
    BY <1>5, <1>6, FormWritten, FormType, WriteType DEF ShapeLast, shapes
  <2> QED BY <1>6, <2>1, TextFacts DEF ShapeLast, ShaperType, NULL
<1>7. CASE ShapeJoined
  <2>1. text' \in [1 .. Len(orig) -> Nat] /\ intact' \in BOOLEAN
    BY <1>5, <1>7, FormWritten, FormType, WriteType DEF ShapeJoined, shapes
  <2> QED BY <1>5, <1>7, <2>1 DEF ShapeJoined, ShaperType, NULL, this_rune_ptr, this_lut_entry, shapes
<1>8. CASE EndWord
  <2>1. late_finalize_ptr # NULL => late_finalize_lut_entry \in 1 .. Len(ARABIC_SHAPER_LUT)
    BY EntryFacts DEF ShaperType, NULL
  <2>2. text' \in [1 .. Len(orig) -> Nat] /\ intact' \in BOOLEAN
    <3>1. CASE late_finalize_ptr # NULL
      BY <1>8, <2>1, <3>1, FormWritten, FormType, WriteType DEF EndWord
    <3>2. CASE late_finalize_ptr = NULL
      BY <1>8, <3>2 DEF EndWord, ShaperType
    <3> QED BY <3>1, <3>2
  <2> QED BY <1>8, <2>2, TextFacts DEF EndWord, ShaperType, NULL
<1> QED BY <1>3, <1>4, <1>6, <1>7, <1>8 DEF ShapeIterate

\* A rune unshape_text does not leave alone is a form of the letter it restores.
LEMMA OldFacts ==
  ASSUME ShaperType, unread, old_codept # 0
  PROVE  /\ text[ptr] \in Nat /\ codept(text[ptr]) \in ARABIC_SHAPER_RANGE
         /\ \E k \in 1 .. Len(ARABIC_SHAPER_LUT) :
              old_codept = Entry(k).true /\ codept(text[ptr]) \in FormCodepts(Entry(k))
         /\ old_codept \in TwoBytes
         /\ old_ligature = {} => old_codept \notin LigatureCodepts
         /\ old_ligature # {} => /\ old_codept \in LigatureCodepts
                                 /\ First(old_ligature) \in DOMAIN ARABIC_LIGATURE_LUT
<1>1. text[ptr] \in Nat /\ codept(text[ptr]) \in Nat
  BY TextFacts, CodeptFacts
<1>2. /\ codept(text[ptr]) \in ARABIC_SHAPER_RANGE
      /\ old_codept = find_base_codept_by_shaped(codept(text[ptr]))
  BY DEF old_codept
<1>3. PICK k \in 1 .. Len(ARABIC_SHAPER_LUT) :
        old_codept = Entry(k).true /\ codept(text[ptr]) \in FormCodepts(Entry(k))
  BY <1>1, <1>2, FindBase
<1>4. old_ligature = {} => old_codept \notin LigatureCodepts
  BY DEF old_ligature, LigatureCodepts
<1>5. old_ligature # {} => First(old_ligature) \in old_ligature
  <2>1. old_ligature \subseteq Nat
    BY LigatureFacts DEF old_ligature
  <2> QED BY <2>1, FirstIn
<1>6. old_ligature # {} => /\ old_codept \in LigatureCodepts
                           /\ First(old_ligature) \in DOMAIN ARABIC_LIGATURE_LUT
  BY <1>5 DEF old_ligature, LigatureCodepts
<1> QED BY <1>1, <1>2, <1>3, <1>4, <1>6, EntryFacts

\* An iteration of unshape_text keeps the types.
LEMMA UnshapeIterateType ==
  ASSUME ShaperType, UnshapeIterate, UNCHANGED orig
  PROVE  ShaperType' /\ shaper_pc' \in {"unshape", "idle"}
<1>0. unread => ptr + 1 \in 0 .. Len(orig) + 1
  BY TextFacts
<1>1. CASE LeaveRune
  BY <1>0, <1>1 DEF LeaveRune, ShaperType, unshape_locals
<1>2. CASE UnshapeReturn
  BY <1>2 DEF UnshapeReturn, ShaperType, unshape_locals
<1>3. CASE RestoreRune
  <2>1. text' \in [1 .. Len(orig) -> Nat] /\ intact' \in BOOLEAN
    BY <1>3, OldFacts, RangeFacts, WriteType DEF RestoreRune
  <2> QED BY <1>0, <1>3, <2>1 DEF RestoreRune, ShaperType, unshape_locals
<1>4. CASE expand_ligature
  <2>1. text' \in [1 .. Len(orig) -> Nat] /\ intact' \in BOOLEAN
    <3> DEFINE p == ARABIC_LIGATURE_LUT[First(old_ligature)].pattern
    <3>1. p[1] \in Nat /\ p[2] \in Nat
      BY <1>4, OldFacts, LigatureFacts, RangeFacts DEF expand_ligature
    <3>2. /\ text' = write_utf8(write_utf8(text, ptr - 1, p[1]), ptr, p[2])
          /\ intact' = (intact /\ writable(text, ptr - 1) /\ writable(text, ptr))
      BY <1>4 DEF expand_ligature
    <3> HIDE DEF p
    <3>3. \A t \in [1 .. Len(orig) -> Nat], cp \in Nat : \A q :
            write_utf8(t, q, cp) \in [1 .. Len(orig) -> Nat]
      BY DEF write_utf8
    <3>4. write_utf8(text, ptr - 1, p[1]) \in [1 .. Len(orig) -> Nat]
      BY <3>1, <3>3, TextFacts
    <3>5. text' \in [1 .. Len(orig) -> Nat]
      BY <3>1, <3>2, <3>3, <3>4, Zenon
    <3> QED BY <3>2, <3>5
  <2> QED BY <1>0, <1>4, <2>1 DEF expand_ligature, ShaperType, unshape_locals
<1> QED BY <1>1, <1>2, <1>3, <1>4 DEF UnshapeIterate

-----------------------------------------------------------------------------
(* Texts that can be told from shaped ones.                                *)

LEMMA LettersAreNoForms ==
  ASSUME NEW cp, cp \notin ARABIC_SHAPER_RANGE
  PROVE  cp \notin LigatureCodepts /\ ~LigatureForm(cp)
BY EntryFacts, LigatureFacts DEF LigatureForm

\* The runes of the application, and those the shaper put there, have 16 bits.
LEMMA PlainFacts ==
  ASSUME ShaperType, PlainText
  PROVE  /\ \A i \in 1 .. Len(orig) : /\ codept(orig[i]) = orig[i]
                                      /\ orig[i] \notin ARABIC_SHAPER_RANGE
         /\ TextSafe => \A i \in 1 .. Len(orig) : codept(text[i]) = text[i]
<1>1. \A i \in 1 .. Len(orig) : orig[i] \in uint16
  BY TextFacts DEF PlainText, Bmp, uint16
<1>2. TextSafe => \A i \in 1 .. Len(orig) : text[i] \in uint16
  BY <1>1, RangeFacts DEF TextSafe, RuneSafe
<1> QED BY <1>1, <1>2, TextFacts, CodeptFacts DEF PlainText, Unshaped

\* A letter or form written over a rune of two bytes leaves the text safe.
LEMMA WriteSafe ==
  ASSUME ShaperType, NEW t \in [1 .. Len(orig) -> Nat],
         \A i \in 1 .. Len(orig) : RuneSafe(t, i),
         NEW p, Wide(p), NEW cp \in TwoBytes,
         cp \notin LigatureCodepts, LigatureForm(cp) => Wide(p - 1)
  PROVE  /\ writable(t, p)
         /\ write_utf8(t, p, cp) \in [1 .. Len(orig) -> Nat]
         /\ \A i \in 1 .. Len(orig) : RuneSafe(write_utf8(t, p, cp), i)
<1>1. p \in 1 .. Len(orig) /\ orig[p] \in TwoBytes
  BY DEF Wide
<1>2. t[p] \in TwoBytes
  BY <1>1 DEF RuneSafe
<1>3. write_utf8(t, p, cp) = [t EXCEPT ![p] = cp] /\ writable(t, p)
  BY <1>1, <1>2 DEF write_utf8, writable
<1> DEFINE u == write_utf8(t, p, cp)
<1>4. u \in [1 .. Len(orig) -> Nat] /\ \A i \in 1 .. Len(orig) : u[i] = IF i = p THEN cp ELSE t[i]
  BY <1>1, <1>3, RangeFacts
<1> HIDE DEF u
<1>5. ASSUME NEW i \in 1 .. Len(orig) PROVE RuneSafe(u, i)
  <2>1. CASE i = p
    BY <1>1, <1>4, <2>1 DEF RuneSafe
  <2>2. CASE i # p
    <3>1. u[i] = t[i] /\ RuneSafe(t, i)
      BY <1>4, <2>2
    <3> QED BY <3>1 DEF RuneSafe
  <2> QED BY <2>1, <2>2
<1> QED BY <1>3, <1>4, <1>5 DEF u

\* What the shaper writes for an entry is such a form.
LEMMA FormSafe ==
  ASSUME NEW k \in 1 .. Len(ARABIC_SHAPER_LUT), NEW cp \in FormCodepts(Entry(k))
  PROVE  /\ cp \in TwoBytes /\ cp \notin LigatureCodepts
         /\ LigatureForm(cp) => LigatureEntry(k)
BY EntryFacts, RangeFacts

\* The runes shape_text has read ahead have two bytes where it will write.
LEMMA ReadSafe ==
  ASSUME ShaperType, PlainText, TextSafe, AheadSafe
  PROVE  /\ ligates => Wide(this_rune_ptr) /\ this_rune_ptr = ptr - 1
         /\ read_codept \in TwoBytes => unread /\ Wide(ptr)
         /\ read_codept \in LigatureCodepts => unread /\ Wide(ptr - 1)
         /\ this_lut_entry # NULL =>
              /\ this_lut_entry \in 1 .. Len(ARABIC_SHAPER_LUT)
              /\ Wide(this_rune_ptr)
              /\ LigatureEntry(this_lut_entry) => Wide(this_rune_ptr - 1)
<1>1. ligates => /\ unread /\ lig_codept \in LigatureCodepts
                 /\ codept_next \in TwoBytes /\ codept(text[ptr]) \in TwoBytes
  BY ReadFacts DEF ligates, codept_this
<1>2. ligates => Wide(this_rune_ptr) /\ this_rune_ptr = ptr - 1
  BY <1>1 DEF AheadSafe, this_rune_ptr, NULL, Wide
<1>3. unread => /\ codept(text[ptr]) \in TwoBytes => Wide(ptr)
                /\ codept(text[ptr]) \notin LigatureCodepts
  <2>1. SUFFICES ASSUME unread
                 PROVE  /\ codept(text[ptr]) \in TwoBytes => Wide(ptr)
                        /\ codept(text[ptr]) \notin LigatureCodepts
    OBVIOUS
  <2>2. ptr \in 1 .. Len(orig) /\ codept(text[ptr]) = text[ptr]
    BY <2>1, TextFacts, PlainFacts
  <2>3. RuneSafe(text, ptr)
    BY <2>2 DEF TextSafe
  <2> QED BY <2>2, <2>3 DEF RuneSafe, Wide
<1>4. read_codept = IF ~unread THEN 0 ELSE IF ligates THEN lig_codept ELSE codept(text[ptr])
  BY DEF read_codept, ligates
<1>5. read_codept \in TwoBytes => unread /\ Wide(ptr)
  BY <1>1, <1>3, <1>4, RangeFacts
<1>6. read_codept \in LigatureCodepts => unread /\ Wide(ptr - 1)
  BY <1>2, <1>3, <1>4, LigatureFacts, RangeFacts
<1>7. this_lut_entry # NULL =>
        /\ this_lut_entry \in 1 .. Len(ARABIC_SHAPER_LUT)
        /\ Entry(this_lut_entry).true = codept_next
  BY EntryFacts DEF ShaperType, AheadSafe, this_lut_entry, NULL
<1>8. this_lut_entry # NULL =>
        /\ Wide(this_rune_ptr)
        /\ LigatureEntry(this_lut_entry) => Wide(this_rune_ptr - 1)
  BY <1>7, EntryFacts DEF AheadSafe, this_rune_ptr, LigatureEntry
<1> QED BY <1>2, <1>5, <1>6, <1>7, <1>8

\* An iteration of shape_text writes only over two-byte runes.
LEMMA ShapeIterateSafe ==
  ASSUME ShaperType, PlainText, ShaperSafe, shaper_pc = "shape", ShapeIterate, UNCHANGED orig
  PROVE  ShaperSafe'
<1>1. ReadForward
  BY DEF ShapeIterate, Ligate, SkipMark, ShapeLast, ShapeJoined, EndWord
<1>2. intact = TRUE /\ TextSafe /\ AheadSafe /\ LateSafe
  BY DEF ShaperSafe
<1>3. AheadSafe'
  <2>1. /\ ptr' = IF unread THEN ptr + 1 ELSE ptr
        /\ next_rune_ptr' = IF unread THEN ptr ELSE NULL
        /\ codept_next' = read_codept /\ next_lut_entry' = read_lut_entry
    BY <1>1 DEF ReadForward
  <2>2. ptr \in Nat /\ ptr >= 1
    BY <1>2, TextFacts DEF AheadSafe, ShaperType
  <2>3. /\ codept_next' \in TwoBytes => Wide(next_rune_ptr')
        /\ codept_next' \in LigatureCodepts => Wide(next_rune_ptr' - 1)
    BY <1>2, <2>1, ReadSafe
  <2>4. next_lut_entry' # NULL => Entry(next_lut_entry').true = codept_next'
    BY <2>1, ReadFacts, Zenon
  <2> QED BY <2>1, <2>2, <2>3, <2>4 DEF AheadSafe, Wide
<1>4. SUFFICES /\ intact' = TRUE
               /\ \A i \in 1 .. Len(orig) : RuneSafe(text', i)
               /\ late_finalize_ptr' # NULL =>
                    /\ Wide(late_finalize_ptr')
                    /\ LigatureEntry(late_finalize_lut_entry') => Wide(late_finalize_ptr' - 1)
  BY <1>3 DEF ShaperSafe, TextSafe, RuneSafe, LateSafe, Wide, LigatureEntry
<1>5. CASE Ligate
  <2>1. Write(this_rune_ptr, ZERO_WIDTH_CODEPT) /\ Wide(this_rune_ptr)
    BY <1>2, <1>5, ReadSafe DEF Ligate
  <2>2. writable(text, this_rune_ptr) /\ \A i \in 1 .. Len(orig) : RuneSafe(text', i)
    BY <1>2, <2>1, WriteSafe, TextFacts, RangeFacts, LettersAreNoForms DEF TextSafe, Write
  <2> QED BY <1>2, <1>5, <2>1, <2>2 DEF Ligate, Write, LateSafe
<1>6. CASE SkipMark
  BY <1>2, <1>6 DEF SkipMark, TextSafe, LateSafe
<1>7. ASSUME NEW p, Wide(p), NEW k \in 1 .. Len(ARABIC_SHAPER_LUT),
             NEW cp \in FormCodepts(Entry(k)), LigatureEntry(k) => Wide(p - 1), Write(p, cp)
      PROVE  intact' = TRUE /\ \A i \in 1 .. Len(orig) : RuneSafe(text', i)
  <2>1. writable(text, p) /\ \A i \in 1 .. Len(orig) : RuneSafe(text', i)
    BY <1>2, <1>7, WriteSafe, TextFacts, FormSafe DEF TextSafe, Write
  <2> QED BY <1>2, <1>7, <2>1 DEF Write
<1>8. CASE ShapeLast
  <2>1. this_lut_entry # NULL
    BY <1>8 DEF ShapeLast, shapes
  <2>2. intact' = TRUE /\ \A i \in 1 .. Len(orig) : RuneSafe(text', i)
    BY <1>2, <1>7, <1>8, <2>1, ReadSafe, FormWritten DEF ShapeLast
  <2> QED BY <1>8, <2>2 DEF ShapeLast
<1>9. CASE ShapeJoined
  <2>1. this_lut_entry # NULL
    BY <1>9 DEF ShapeJoined, shapes
  <2>2. intact' = TRUE /\ \A i \in 1 .. Len(orig) : RuneSafe(text', i)
    BY <1>2, <1>7, <1>9, <2>1, ReadSafe, FormWritten DEF ShapeJoined
  <2> QED BY <1>2, <1>9, <2>1, <2>2, ReadSafe DEF ShapeJoined
<1>10. CASE EndWord
  <2>1. CASE late_finalize_ptr # NULL
    <3>1. late_finalize_lut_entry \in 1 .. Len(ARABIC_SHAPER_LUT)
      BY <2>1, EntryFacts DEF ShaperType, NULL
    <3>2. intact' = TRUE /\ \A i \in 1 .. Len(orig) : RuneSafe(text', i)
      BY <1>2, <1>7, <1>10, <2>1, <3>1, FormWritten DEF EndWord, LateSafe
    <3> QED BY <1>10, <3>2 DEF EndWord
  <2>2. CASE late_finalize_ptr = NULL
    BY <1>2, <1>10, <2>2 DEF EndWord, TextSafe
  <2> QED BY <2>1, <2>2
<1> QED BY <1>5, <1>6, <1>8, <1>9, <1>10 DEF ShapeIterate

\* An iteration of unshape_text writes only over two-byte runes, also when it
\* expands a ligature backwards.
LEMMA UnshapeIterateSafe ==
  ASSUME ShaperType, PlainText, ShaperSafe, shaper_pc = "unshape", UnshapeIterate, UNCHANGED orig
  PROVE  ShaperSafe'
<1>1. intact = TRUE /\ TextSafe
  BY DEF ShaperSafe
<1>2. shaper_pc' # "shape"
  BY DEF UnshapeIterate, LeaveRune, RestoreRune, expand_ligature, UnshapeReturn
<1>3. SUFFICES intact' = TRUE /\ \A i \in 1 .. Len(orig) : RuneSafe(text', i)
  BY <1>2 DEF ShaperSafe, TextSafe, RuneSafe, Wide
<1>4. CASE LeaveRune \/ UnshapeReturn
  BY <1>1, <1>4 DEF LeaveRune, UnshapeReturn, TextSafe
<1>5. ASSUME unread, old_codept # 0
      PROVE  /\ Wide(ptr)
             /\ old_codept \in LigatureCodepts => Wide(ptr - 1)
  <2>1. ptr \in 1 .. Len(orig) /\ codept(text[ptr]) = text[ptr] /\ RuneSafe(text, ptr)
    BY <1>1, <1>5, TextFacts, PlainFacts DEF TextSafe
  <2>2. PICK k \in 1 .. Len(ARABIC_SHAPER_LUT) :
          old_codept = Entry(k).true /\ text[ptr] \in FormCodepts(Entry(k))
    BY <1>5, <2>1, OldFacts
  <2>3. old_codept \in LigatureCodepts => LigatureForm(text[ptr])
    BY <2>2 DEF LigatureForm, LigatureEntry
  <2>4. text[ptr] \in TwoBytes
    BY <1>5, <2>1, OldFacts, RangeFacts
  <2> QED BY <2>1, <2>3, <2>4 DEF RuneSafe, Wide
<1>6. CASE RestoreRune
  <2>1. /\ Write(ptr, old_codept) /\ Wide(ptr)
        /\ old_codept \in TwoBytes \ ARABIC_SHAPER_RANGE
    BY <1>5, <1>6, OldFacts, EntryFacts DEF RestoreRune
  <2>2. writable(text, ptr) /\ \A i \in 1 .. Len(orig) : RuneSafe(text', i)
    BY <1>1, <2>1, WriteSafe, TextFacts, LettersAreNoForms DEF TextSafe, Write
  <2> QED BY <1>1, <2>1, <2>2 DEF Write
<1>7. CASE expand_ligature
  <2> DEFINE p == ARABIC_LIGATURE_LUT[First(old_ligature)].pattern
             u == write_utf8(text, ptr - 1, p[1])
  <2>1. /\ p[1] \in TwoBytes \ ARABIC_SHAPER_RANGE /\ p[2] \in TwoBytes \ ARABIC_SHAPER_RANGE
        /\ Wide(ptr - 1) /\ Wide(ptr)
    BY <1>5, <1>7, OldFacts, LigatureFacts DEF expand_ligature
  <2>2. /\ text' = write_utf8(u, ptr, p[2])
        /\ intact' = (intact /\ writable(text, ptr - 1) /\ writable(text, ptr))
    BY <1>7 DEF expand_ligature
  <2>3. writable(text, ptr)
    BY <1>1, <2>1, TextFacts DEF writable, Wide, TextSafe, RuneSafe
  <2> HIDE DEF p
  <2>4. /\ writable(text, ptr - 1) /\ u \in [1 .. Len(orig) -> Nat]
        /\ \A i \in 1 .. Len(orig) : RuneSafe(u, i)
    BY <1>1, <2>1, WriteSafe, TextFacts, LettersAreNoForms DEF TextSafe
  <2> HIDE DEF u
  <2>5. \A i \in 1 .. Len(orig) : RuneSafe(text', i)
    BY <2>1, <2>2, <2>4, WriteSafe, LettersAreNoForms
  <2> QED BY <1>1, <2>2, <2>3, <2>4, <2>5
<1> QED BY <1>4, <1>6, <1>7 DEF UnshapeIterate

-----------------------------------------------------------------------------
(* The specification.                                                      *)

\* The part of the invariant that does not follow from the shaper's.
CallType ==
  /\ orig \in Texts /\ platform \in Platforms /\ overflow_mode \in {0, COOKIE}
  /\ measure_pc \in {"idle", "shape", "passthru", "unshape"}
  /\ measure_pc \in {"shape", "unshape"} => shaper_pc = measure_pc

MeasureInv == ShaperType /\ CallType /\ (PlainText => ShaperSafe)

LEMMA TypeSplit == ShaperType /\ CallType => MeasureTypeOK
BY TextFacts DEF ShaperType, CallType, MeasureTypeOK

\* The start of shape_text, and of unshape_text.
LEMMA ShapeCallSafe ==
  ASSUME ShaperType, ShapeCall, UNCHANGED orig
  PROVE  ShaperType' /\ (PlainText /\ ShaperSafe => ShaperSafe')
<1>1. ShaperType'
  BY TextFacts, EntryFacts, CodeptFacts DEF ShapeCall, ShaperType, NULL
<1>2. PlainText /\ ShaperSafe => ShaperSafe'
  <2>1. 0 \notin TwoBytes /\ 0 \notin LigatureCodepts
    BY RangeFacts, LigatureFacts
  <2>2. AheadSafe' /\ LateSafe'
    BY <2>1 DEF ShapeCall, AheadSafe, LateSafe, NULL
  <2> QED BY <2>2 DEF ShapeCall, ShaperSafe, TextSafe, RuneSafe, Wide
<1> QED BY <1>1, <1>2

LEMMA UnshapeCallSafe ==
  ASSUME ShaperType, UnshapeCall, UNCHANGED orig
  PROVE  ShaperType' /\ (PlainText /\ ShaperSafe => ShaperSafe')
<1>1. ShaperType'
  BY TextFacts DEF UnshapeCall, ShaperType
<1>2. PlainText /\ ShaperSafe => ShaperSafe'
  BY DEF UnshapeCall, ShaperSafe, TextSafe, RuneSafe, Wide
<1> QED BY <1>1, <1>2

\* A step of the shaper preserves its invariant, whoever called it.
LEMMA ShaperStepSafe ==
  ASSUME ShaperType, UNCHANGED orig,
         \/ ShapeCall \/ UnshapeCall
         \/ shaper_pc = "shape" /\ ShapeIterate
         \/ shaper_pc = "unshape" /\ UnshapeIterate
  PROVE  ShaperType' /\ (PlainText /\ ShaperSafe => ShaperSafe')
BY ShapeCallSafe, UnshapeCallSafe, ShapeIterateType, ShapeIterateSafe,
   UnshapeIterateType, UnshapeIterateSafe

LEMMA MeasureInit_Inv == MeasureInit => MeasureInv
<1> SUFFICES ASSUME MeasureInit PROVE MeasureInv
  OBVIOUS
<1>1. orig \in Seq(Nat) /\ text = orig
  BY TextsAssumption DEF MeasureInit
<1>2. Len(orig) \in Nat /\ orig \in [1 .. Len(orig) -> Nat]
  BY <1>1
<1>3. ShaperType
  BY <1>1, <1>2, EntryFacts, CodeptFacts DEF MeasureInit, ShaperInit, ShaperType, NULL
<1>4. CallType
  BY DEF MeasureInit, CallType
<1>5. PlainText => TextSafe
  BY <1>1, <1>3, PlainFacts, LettersAreNoForms DEF TextSafe, RuneSafe
<1> QED BY <1>3, <1>4, <1>5 DEF MeasureInit, ShaperInit, ShaperSafe, MeasureInv

\* The types do not depend on the text being plain.
LEMMA MeasureNextSafe ==
  ASSUME ShaperType, CallType, [MeasureNext]_all_measure_vars
  PROVE  /\ ShaperType' /\ CallType'
         /\ (PlainText => ShaperSafe) => (PlainText' => ShaperSafe')
<1> DEFINE Safe == (PlainText => ShaperSafe) => (PlainText' => ShaperSafe')
<1>1. orig' = orig /\ (PlainText' <=> PlainText)
  BY DEF MeasureNext, Measure, ShapeStep, PassthruAndKeep, PassthruAndUnshape, UnshapeStep,
         all_measure_vars, measure_vars, PlainText, Bmp, Unshaped
<1>2. ASSUME NEW mode \in {0, COOKIE}, Measure(mode)
      PROVE  ShaperType' /\ CallType' /\ Safe
  BY <1>1, <1>2, ShaperStepSafe DEF Measure, ShapeCall, CallType
<1>3. CASE ShapeStep
  <2>1. shaper_pc = "shape" /\ ShapeIterate
    BY <1>3 DEF ShapeStep, CallType
  <2>2. shaper_pc' \in {"shape", "idle"}
    BY <1>1, <2>1, ShapeIterateType
  <2>3. CallType'
    BY <1>1, <1>3, <2>2 DEF ShapeStep, CallType
  <2> QED BY <1>1, <2>1, <2>3, ShaperStepSafe
<1>4. CASE PassthruAndUnshape
  BY <1>1, <1>4, ShaperStepSafe DEF PassthruAndUnshape, UnshapeCall, CallType
<1>5. CASE UnshapeStep
  <2>1. shaper_pc = "unshape" /\ UnshapeIterate
    BY <1>5 DEF UnshapeStep, CallType
  <2>2. shaper_pc' \in {"unshape", "idle"}
    BY <1>1, <2>1, UnshapeIterateType
  <2>3. CallType'
    BY <1>1, <1>5, <2>2 DEF UnshapeStep, CallType
  <2> QED BY <1>1, <2>1, <2>3, ShaperStepSafe
<1>6. ASSUME UNCHANGED <<text, shaper_locals>>
      PROVE  ShaperType' /\ (ShaperSafe => ShaperSafe')
  BY <1>1, <1>6 DEF shaper_locals, ShaperType, ShaperSafe, TextSafe, RuneSafe, AheadSafe,
         LateSafe, Wide, LigatureEntry
<1>7. CASE PassthruAndKeep
  BY <1>1, <1>6, <1>7 DEF PassthruAndKeep, CallType
<1>8. CASE UNCHANGED all_measure_vars
  BY <1>1, <1>6, <1>8 DEF all_measure_vars, measure_vars, shaper_locals, CallType
<1> QED BY <1>2, <1>3, <1>4, <1>5, <1>7, <1>8 DEF MeasureNext

LEMMA MeasureNext_Inv == MeasureInv /\ [MeasureNext]_all_measure_vars => MeasureInv'
BY MeasureNextSafe DEF MeasureInv

\* Every variable of the shaper and of the measuring functions keeps a value of
\* its kind: no pointer leaves the buffer, no index the table.
THEOREM MeasureTypeCorrect == MeasureSpec => []MeasureTypeOK
<1>1. MeasureInv => MeasureTypeOK
  BY TypeSplit DEF MeasureInv
<1> QED BY <1>1, MeasureInit_Inv, MeasureNext_Inv, PTL DEF MeasureSpec

\* shape_text and unshape_text never tear a rune apart, whatever text the
\* application measures and however often: the writes of the ligatures, of the
\* forms, of the late finalization and of expand_ligature all hit a rune of two
\* bytes.
THEOREM WritesAlwaysHitRunes == MeasureSpec => []WritesHitRunes
<1>1. MeasureInv => WritesHitRunes
  BY DEF MeasureInv, PlainText, ShaperSafe, WritesHitRunes
<1> QED BY <1>1, MeasureInit_Inv, MeasureNext_Inv, PTL DEF MeasureSpec

-----------------------------------------------------------------------------
(***************************************************************************)
(* What shape_text makes of a whole text.                                  *)
(***************************************************************************)

\* The code point shape_text reads at i: a letter, or the ligature of which it is
\* the second letter; 0 at the end.
ReadAt(t, i) ==
  IF i \notin DOMAIN t THEN 0
  ELSE IF LigatureAt(t, i - 1) # 0 THEN LigatureAt(t, i - 1) ELSE codept(t[i])
EntryAt(t, i) == find_lut_entry_by_codept(ReadAt(t, i))

\* Runes that leave the state as it is; runes that are given a form; the latter
\* where shape_text sees the end of the word, and where it does not.
Skips(t, i) == LigatureAt(t, i) # 0 \/ is_zero_width(ReadAt(t, i))
Shapes(t, i) == ~Skips(t, i) /\ EntryAt(t, i) # NULL
Breaks(t, i) == ~Skips(t, i) /\ EntryAt(t, i) = NULL
EndsWord(t, i) ==
  \/ EntryAt(t, i + 1) = NULL /\ ~is_zero_width(ReadAt(t, i + 1))
  \/ NoMedial(Entry(EntryAt(t, i)))
Joins(t, i) == Shapes(t, i) /\ ~EndsWord(t, i)

\* p is the letter i joins to; i is a joined letter after which the word ends.
OpenUntil(t, p, i) == p \in 1 .. i - 1 /\ Joins(t, p) /\ \A m \in p + 1 .. i - 1 : Skips(t, m)
Medial(t, i) == \E p \in 1 .. i - 1 : OpenUntil(t, p, i)
Left(t, i) == \E j \in i + 1 .. Len(t) + 1 : Breaks(t, j) /\ \A m \in i + 1 .. j - 1 : Skips(t, m)

\* The form first written at i, and the one that stays.
FirstForm(t, i) ==
  LET e == Entry(EntryAt(t, i))
  IN  e.isolated + (IF Medial(t, i) THEN IF EndsWord(t, i) THEN e.final ELSE e.medial
                    ELSE IF EndsWord(t, i) THEN 0 ELSE e.initial)
LastForm(t, i) ==
  LET e == Entry(EntryAt(t, i))
  IN  IF ~EndsWord(t, i) /\ Left(t, i) THEN e.isolated + e.final ELSE FirstForm(t, i)

Shaped(t) ==
  [i \in DOMAIN t |-> IF LigatureAt(t, i) # 0 THEN ZERO_WIDTH_CODEPT
                      ELSE IF Shapes(t, i) THEN LastForm(t, i) ELSE t[i]]

\* What unshape_text makes of that.
Restored(t) ==
  [i \in DOMAIN t |-> IF Shapes(t, i) /\ LigatureAt(t, i - 1) = 0
                      THEN find_base_codept_by_shaped(LastForm(t, i)) ELSE t[i]]

\* shape_text on t, having read k runes of it: its read-ahead, and what it has
\* written.  It takes one step for every k in 0 .. Len(t) + 1.
Reading(t, k) ==
  /\ k \in 0 .. Len(t) + 1
  /\ ptr = IF k <= Len(t) THEN k + 1 ELSE k
  /\ next_rune_ptr = IF k \in 1 .. Len(t) THEN k ELSE NULL
  /\ codept_next = ReadAt(t, k) /\ next_lut_entry = EntryAt(t, k)
Writing(t, k) ==
  /\ (state = "STATE_MEDIAL") <=> late_finalize_ptr # NULL
  /\ Medial(t, k) => late_finalize_ptr # NULL
  /\ late_finalize_ptr # NULL => /\ OpenUntil(t, late_finalize_ptr, k)
                                 /\ late_finalize_lut_entry = EntryAt(t, late_finalize_ptr)
  /\ \A i \in 1 .. Len(t) :
       text[i] = IF i >= k THEN t[i]
                 ELSE IF i = late_finalize_ptr THEN FirstForm(t, i) ELSE Shaped(t)[i]

\* unshape_text on the shaped t: it restores a ligature when it meets its second rune.
Unshaping(t) ==
  /\ ptr \in 1 .. Len(t) + 1
  /\ \A i \in 1 .. Len(t) :
       text[i] = IF i >= ptr \/ (i = ptr - 1 /\ LigatureAt(t, i) # 0)
                 THEN Shaped(t)[i] ELSE Restored(t)[i]

\* A text shape_text may be given: no rune is truncated or NUL, and none is the
\* code point of a ligature.
Start(t) ==
  /\ t \in Seq(Nat)
  /\ \A i \in 1 .. Len(t) : t[i] \in uint16 /\ t[i] # 0 /\ t[i] \notin LigatureCodepts

LEMMA StartFacts ==
  ASSUME NEW t, Start(t)
  PROVE  /\ Len(t) \in Nat /\ DOMAIN t = 1 .. Len(t) /\ t \in [1 .. Len(t) -> Nat]
         /\ \A i \in 1 .. Len(t) : /\ t[i] \in uint16 /\ t[i] # 0 /\ codept(t[i]) = t[i]
                                   /\ t[i] \notin LigatureCodepts
<1>1. t \in Seq(Nat)
  BY DEF Start
<1>2. Len(t) \in Nat /\ DOMAIN t = 1 .. Len(t) /\ t \in [1 .. Len(t) -> Nat]
  BY <1>1
<1> QED BY <1>2, CodeptFacts DEF Start

\* The letters and ligatures of the LUT; none is a diacritic.
LEMMA Alphabet ==
  /\ \A cp : find_lut_entry_by_codept(cp) # NULL <=>
               \E k \in 1 .. Len(ARABIC_SHAPER_LUT) : Entry(k).true = cp
  /\ \A cp : find_lut_entry_by_codept(cp) # NULL =>
               /\ find_lut_entry_by_codept(cp) \in 1 .. Len(ARABIC_SHAPER_LUT)
               /\ Entry(find_lut_entry_by_codept(cp)).true = cp
               /\ cp \in TwoBytes /\ ~is_zero_width(cp)
               /\ cp \notin LigatureCodepts => cp \notin ARABIC_SHAPER_RANGE
  /\ \A cp \in LigatureCodepts : find_lut_entry_by_codept(cp) # NULL /\ ~is_zero_width(cp)
  /\ find_lut_entry_by_codept(0) = NULL /\ ~is_zero_width(0)
  /\ find_lut_entry_by_codept(ZERO_WIDTH_CODEPT) = NULL /\ is_zero_width(ZERO_WIDTH_CODEPT)
  /\ \A r \in ARABIC_SHAPER_RANGE : ~is_zero_width(r)
<1>1. ASSUME NEW cp
      PROVE  find_lut_entry_by_codept(cp) # NULL <=>
               \E k \in 1 .. Len(ARABIC_SHAPER_LUT) : Entry(k).true = cp
  <2> DEFINE hits == { i \in DOMAIN ARABIC_SHAPER_LUT : Entry(i).true = cp }
  <2>1. hits \subseteq 1 .. Len(ARABIC_SHAPER_LUT) /\ hits \subseteq Nat
    BY EntryFacts
  <2>2. hits # {} => First(hits) \in hits
    BY <2>1, FirstIn
  <2>3. find_lut_entry_by_codept(cp) = IF hits = {} THEN NULL ELSE First(hits)
    BY DEF find_lut_entry_by_codept
  <2>4. hits # {} <=> \E k \in 1 .. Len(ARABIC_SHAPER_LUT) : Entry(k).true = cp
    BY EntryFacts
  <2>5. NULL \notin hits
    BY <2>1, EntryFacts DEF NULL
  <2> HIDE DEF hits
  <2> QED BY <2>2, <2>3, <2>4, <2>5
<1>2. ~is_zero_width(0) /\ is_zero_width(ZERO_WIDTH_CODEPT)
  BY SMT DEF is_zero_width, ZERO_WIDTH, RANGE, ZERO_WIDTH_CODEPT
<1>3. \A r \in ARABIC_SHAPER_RANGE : ~is_zero_width(r)
  <2> DEFINE scratch == 1792 .. 2047
  <2>1. \A r \in ARABIC_SHAPER_RANGE : r \in scratch
    BY ShaperRangeAssumption, SMT DEF RANGE
  <2>2. ASSUME NEW r \in scratch PROVE ~is_zero_width(r)
    <3>1. r \in Int /\ 1792 <= r /\ r <= 2047
      OBVIOUS
    <3> HIDE DEF scratch
    <3> QED BY <3>1, SMT DEF is_zero_width, ZERO_WIDTH, RANGE
  <2> HIDE DEF scratch
  <2> QED BY <2>1, <2>2
<1>4. \A k \in 1 .. Len(ARABIC_SHAPER_LUT) : ~is_zero_width(Entry(k).true)
  <2>1. ASSUME NEW k \in 1 .. Len(ARABIC_SHAPER_LUT), Entry(k).true \notin LigatureCodepts
        PROVE  ~is_zero_width(Entry(k).true)
    <3>1. RtlLetter(Entry(k).true)
      BY <2>1, EntryFacts, ScriptAssumption DEF Entry
    <3> QED BY <3>1 DEF RtlLetter, is_neutral, NEUTRAL, is_zero_width
  <2> QED BY <1>3, <2>1, LigatureFacts
<1>5. \A cp \in LigatureCodepts : \E k \in 1 .. Len(ARABIC_SHAPER_LUT) : Entry(k).true = cp
  BY LutAssumption, EntryFacts DEF Entry
<1>6. \A cp : find_lut_entry_by_codept(cp) # NULL =>
        /\ find_lut_entry_by_codept(cp) \in 1 .. Len(ARABIC_SHAPER_LUT)
        /\ Entry(find_lut_entry_by_codept(cp)).true = cp
  BY FindEntry, EntryFacts DEF NULL
<1>7. \A cp : find_lut_entry_by_codept(cp) # NULL =>
        /\ cp \in TwoBytes /\ ~is_zero_width(cp)
        /\ cp \notin LigatureCodepts => cp \notin ARABIC_SHAPER_RANGE
  BY <1>4, <1>6, EntryFacts
<1>8. find_lut_entry_by_codept(0) = NULL /\ find_lut_entry_by_codept(ZERO_WIDTH_CODEPT) = NULL
  BY <1>2, <1>7, RangeFacts
<1>9. \A cp \in LigatureCodepts : find_lut_entry_by_codept(cp) # NULL /\ ~is_zero_width(cp)
  BY <1>1, <1>3, <1>5, LigatureFacts, Zenon
<1> QED BY ONLY <1>1, <1>2, <1>3, <1>6, <1>7, <1>8, <1>9, Zenon

\* The letters of the ligatures are shapable, and no letter both ends a ligature and
\* begins one.
LEMMA Patterns ==
  /\ \A k \in DOMAIN ARABIC_LIGATURE_LUT :
       /\ find_lut_entry_by_codept(ARABIC_LIGATURE_LUT[k].pattern[1]) # NULL
       /\ find_lut_entry_by_codept(ARABIC_LIGATURE_LUT[k].pattern[2]) # NULL
  /\ \A j, k \in DOMAIN ARABIC_LIGATURE_LUT :
       ARABIC_LIGATURE_LUT[j].pattern[2] # ARABIC_LIGATURE_LUT[k].pattern[1]
<1>1. \A k \in DOMAIN ARABIC_LIGATURE_LUT : \A m \in 1 .. 2 :
        \E j \in DOMAIN ARABIC_SHAPER_LUT :
          ARABIC_SHAPER_LUT[j].true = ARABIC_LIGATURE_LUT[k].pattern[m]
  BY ScriptAssumption, Zenon
<1>2. \A k \in DOMAIN ARABIC_LIGATURE_LUT : \A m \in 1 .. 2 :
        \E j \in 1 .. Len(ARABIC_SHAPER_LUT) : Entry(j).true = ARABIC_LIGATURE_LUT[k].pattern[m]
  BY <1>1, EntryFacts, Zenon DEF Entry
<1>3. \A k \in DOMAIN ARABIC_LIGATURE_LUT : \A m \in 1 .. 2 :
        find_lut_entry_by_codept(ARABIC_LIGATURE_LUT[k].pattern[m]) # NULL
  BY <1>2, Alphabet, Zenon
<1>4. 1 \in 1 .. 2 /\ 2 \in 1 .. 2
  OBVIOUS
<1> QED BY <1>3, <1>4, ScriptAssumption, Zenon

\* A ligature that is found is an entry of the ligature LUT with that pattern.
LEMMA LigatureFound ==
  ASSUME NEW a, NEW b, find_ligature_by_codepts(<<a, b>>) # 0
  PROVE  \E k \in DOMAIN ARABIC_LIGATURE_LUT :
           /\ ARABIC_LIGATURE_LUT[k].pattern[1] = a /\ ARABIC_LIGATURE_LUT[k].pattern[2] = b
           /\ ARABIC_LIGATURE_LUT[k].codept = find_ligature_by_codepts(<<a, b>>)
<1> DEFINE hits == { i \in DOMAIN ARABIC_LIGATURE_LUT : ARABIC_LIGATURE_LUT[i].pattern = <<a, b>> }
<1>1. hits \subseteq Nat
  BY LigatureFacts
<1>2. hits # {} => First(hits) \in hits
  BY <1>1, FirstIn
<1>3. find_ligature_by_codepts(<<a, b>>) =
        IF hits = {} THEN 0 ELSE ARABIC_LIGATURE_LUT[First(hits)].codept
  BY DEF find_ligature_by_codepts
<1>4. PICK k \in hits : find_ligature_by_codepts(<<a, b>>) = ARABIC_LIGATURE_LUT[k].codept
  BY <1>2, <1>3
<1>5. k \in DOMAIN ARABIC_LIGATURE_LUT /\ ARABIC_LIGATURE_LUT[k].pattern = <<a, b>>
  OBVIOUS
<1> QED BY <1>4, <1>5

\* Two letters of a text that form a ligature: neither is part of another one.
LEMMA LigaturePair ==
  ASSUME NEW t, Start(t), NEW i \in Int, LigatureAt(t, i) # 0
  PROVE  /\ i \in 1 .. Len(t) /\ i + 1 \in 1 .. Len(t)
         /\ LigatureAt(t, i) \in LigatureCodepts
         /\ find_lut_entry_by_codept(t[i]) # NULL /\ find_lut_entry_by_codept(t[i + 1]) # NULL
         /\ t[i] \in TwoBytes \ ARABIC_SHAPER_RANGE /\ t[i + 1] \in TwoBytes \ ARABIC_SHAPER_RANGE
         /\ t[i] \in LigatureLetters /\ t[i + 1] \in LigatureLetters
         /\ LigatureAt(t, i - 1) = 0 /\ LigatureAt(t, i + 1) = 0
         /\ \E k \in DOMAIN ARABIC_LIGATURE_LUT :
              /\ ARABIC_LIGATURE_LUT[k].pattern[1] = t[i]
              /\ ARABIC_LIGATURE_LUT[k].pattern[2] = t[i + 1]
              /\ ARABIC_LIGATURE_LUT[k].codept = LigatureAt(t, i)
<1>1. ASSUME NEW j \in Int, LigatureAt(t, j) # 0
      PROVE  /\ j \in 1 .. Len(t) /\ j + 1 \in 1 .. Len(t)
             /\ \E k \in DOMAIN ARABIC_LIGATURE_LUT :
                  /\ ARABIC_LIGATURE_LUT[k].pattern[1] = t[j]
                  /\ ARABIC_LIGATURE_LUT[k].pattern[2] = t[j + 1]
                  /\ ARABIC_LIGATURE_LUT[k].codept = LigatureAt(t, j)
  <2>1. j \in 1 .. Len(t) /\ j + 1 \in 1 .. Len(t)
    BY <1>1, StartFacts DEF LigatureAt
  <2>2. LigatureAt(t, j) = find_ligature_by_codepts(<<t[j], t[j + 1]>>)
    BY <1>1, <2>1, StartFacts DEF LigatureAt
  <2> QED BY <1>1, <2>1, <2>2, LigatureFound
<1>2. PICK k \in DOMAIN ARABIC_LIGATURE_LUT :
        /\ ARABIC_LIGATURE_LUT[k].pattern[1] = t[i]
        /\ ARABIC_LIGATURE_LUT[k].pattern[2] = t[i + 1]
        /\ ARABIC_LIGATURE_LUT[k].codept = LigatureAt(t, i)
  BY <1>1
<1>3. i \in 1 .. Len(t) /\ i + 1 \in 1 .. Len(t)
  BY <1>1
<1>4. LigatureAt(t, i - 1) = 0
  <2>1. SUFFICES ASSUME LigatureAt(t, i - 1) # 0 PROVE FALSE
    OBVIOUS
  <2>2. i - 1 \in Int /\ (i - 1) + 1 = i
    OBVIOUS
  <2>3. \E j \in DOMAIN ARABIC_LIGATURE_LUT : ARABIC_LIGATURE_LUT[j].pattern[2] = t[i]
    BY <1>1, <2>1, <2>2
  <2> QED BY <1>2, <2>3, Patterns
<1>5. LigatureAt(t, i + 1) = 0
  <2>1. SUFFICES ASSUME LigatureAt(t, i + 1) # 0 PROVE FALSE
    OBVIOUS
  <2>2. \E j \in DOMAIN ARABIC_LIGATURE_LUT : ARABIC_LIGATURE_LUT[j].pattern[1] = t[i + 1]
    BY <1>1, <2>1
  <2> QED BY <1>2, <2>2, Patterns
<1>6. t[i] \in LigatureLetters /\ t[i + 1] \in LigatureLetters
  BY <1>2 DEF LigatureLetters
<1> QED BY <1>2, <1>3, <1>4, <1>5, <1>6, LigatureFacts, Patterns

\* What shape_text reads at a rune, and at the two ends of the text.
LEMMA RuneRead ==
  ASSUME NEW t, Start(t), NEW i \in Int
  PROVE  /\ ReadAt(t, i) \in uint16 /\ EntryAt(t, i) \in 0 .. Len(ARABIC_SHAPER_LUT)
         /\ i \notin 1 .. Len(t) => /\ ReadAt(t, i) = 0 /\ EntryAt(t, i) = NULL
                                    /\ LigatureAt(t, i) = 0 /\ Breaks(t, i)
         /\ i \in 1 .. Len(t) => ReadAt(t, i) # 0
         /\ LigatureAt(t, i) # 0 => ReadAt(t, i) = t[i] /\ t[i] \in TwoBytes /\ i \in 1 .. Len(t)
         /\ i \in 1 .. Len(t) /\ LigatureAt(t, i - 1) # 0 =>
              /\ Shapes(t, i) /\ ReadAt(t, i) = LigatureAt(t, i - 1)
              /\ ReadAt(t, i) \in LigatureCodepts
         /\ i \in 1 .. Len(t) /\ LigatureAt(t, i - 1) = 0 => ReadAt(t, i) = t[i]
         /\ Shapes(t, i) => /\ i \in 1 .. Len(t) /\ LigatureAt(t, i) = 0 /\ t[i] \in TwoBytes
                            /\ EntryAt(t, i) \in 1 .. Len(ARABIC_SHAPER_LUT)
                            /\ Entry(EntryAt(t, i)).true = ReadAt(t, i)
<1>1. i \notin 1 .. Len(t) => /\ ReadAt(t, i) = 0 /\ EntryAt(t, i) = NULL
                              /\ LigatureAt(t, i) = 0 /\ Breaks(t, i)
  <2>1. SUFFICES ASSUME i \notin 1 .. Len(t)
                 PROVE  /\ ReadAt(t, i) = 0 /\ EntryAt(t, i) = NULL
                        /\ LigatureAt(t, i) = 0 /\ Breaks(t, i)
    OBVIOUS
  <2>2. ReadAt(t, i) = 0 /\ LigatureAt(t, i) = 0
    BY <2>1, StartFacts DEF ReadAt, LigatureAt
  <2>3. EntryAt(t, i) = NULL
    BY <2>2, Alphabet DEF EntryAt
  <2> QED BY <2>2, <2>3, Alphabet DEF Breaks, Skips
<1>2. i \in 1 .. Len(t) /\ LigatureAt(t, i - 1) = 0 => ReadAt(t, i) = t[i]
  BY StartFacts DEF ReadAt
<1>3. i \in 1 .. Len(t) /\ LigatureAt(t, i - 1) # 0 =>
        /\ Shapes(t, i) /\ ReadAt(t, i) = LigatureAt(t, i - 1)
        /\ ReadAt(t, i) \in LigatureCodepts /\ t[i] \in TwoBytes
  <2>1. SUFFICES ASSUME i \in 1 .. Len(t), LigatureAt(t, i - 1) # 0
                 PROVE  /\ Shapes(t, i) /\ ReadAt(t, i) = LigatureAt(t, i - 1)
                        /\ ReadAt(t, i) \in LigatureCodepts /\ t[i] \in TwoBytes
    OBVIOUS
  <2>2. i - 1 \in Int /\ (i - 1) + 1 = i
    OBVIOUS
  <2>3. LigatureAt(t, i - 1) \in LigatureCodepts /\ LigatureAt(t, i) = 0 /\ t[i] \in TwoBytes
    BY <2>1, <2>2, LigaturePair
  <2>4. ReadAt(t, i) = LigatureAt(t, i - 1)
    BY <2>1, StartFacts DEF ReadAt
  <2> QED BY <2>3, <2>4, Alphabet DEF Shapes, Skips, EntryAt
<1>4. LigatureAt(t, i) # 0 => ReadAt(t, i) = t[i] /\ t[i] \in TwoBytes /\ i \in 1 .. Len(t)
  BY <1>2, LigaturePair
<1>5. ReadAt(t, i) \in uint16 /\ (i \in 1 .. Len(t) => ReadAt(t, i) # 0)
  <2>1. \A cp \in LigatureCodepts : cp \in uint16 /\ cp # 0
    BY LigatureFacts, RangeFacts
  <2> QED BY <1>1, <1>2, <1>3, <2>1, StartFacts, CodeptFacts
<1>6. EntryAt(t, i) \in 0 .. Len(ARABIC_SHAPER_LUT)
  BY FindEntry DEF EntryAt
<1>7. Shapes(t, i) => /\ i \in 1 .. Len(t) /\ LigatureAt(t, i) = 0 /\ t[i] \in TwoBytes
                      /\ EntryAt(t, i) \in 1 .. Len(ARABIC_SHAPER_LUT)
                      /\ Entry(EntryAt(t, i)).true = ReadAt(t, i)
  <2>1. SUFFICES ASSUME Shapes(t, i)
                 PROVE  /\ i \in 1 .. Len(t) /\ LigatureAt(t, i) = 0 /\ t[i] \in TwoBytes
                        /\ EntryAt(t, i) \in 1 .. Len(ARABIC_SHAPER_LUT)
                        /\ Entry(EntryAt(t, i)).true = ReadAt(t, i)
    OBVIOUS
  <2>2. EntryAt(t, i) # NULL /\ LigatureAt(t, i) = 0
    BY <2>1 DEF Shapes, Skips
  <2>3. i \in 1 .. Len(t)
    BY <1>1, <2>2
  <2>4. /\ EntryAt(t, i) \in 1 .. Len(ARABIC_SHAPER_LUT)
        /\ Entry(EntryAt(t, i)).true = ReadAt(t, i) /\ ReadAt(t, i) \in TwoBytes
    BY <2>2, Alphabet DEF EntryAt
  <2> QED BY <1>2, <1>3, <2>2, <2>3, <2>4
<1> QED BY <1>1, <1>2, <1>3, <1>4, <1>5, <1>6, <1>7

\* The rune that becomes of rune i.
LEMMA ShapedRune ==
  ASSUME NEW t, Start(t), NEW i \in 1 .. Len(t)
  PROVE  /\ LigatureAt(t, i) # 0 => Shaped(t)[i] = ZERO_WIDTH_CODEPT
         /\ Shapes(t, i) => Shaped(t)[i] = LastForm(t, i)
         /\ LigatureAt(t, i) = 0 /\ ~Shapes(t, i) => Shaped(t)[i] = t[i]
         /\ Shapes(t, i) /\ LigatureAt(t, i - 1) = 0 =>
              Restored(t)[i] = find_base_codept_by_shaped(LastForm(t, i))
         /\ ~Shapes(t, i) \/ LigatureAt(t, i - 1) # 0 => Restored(t)[i] = t[i]
<1>1. i \in Int /\ i \in DOMAIN t
  BY StartFacts
<1>2. Shapes(t, i) => LigatureAt(t, i) = 0
  BY <1>1, RuneRead
<1>3. /\ Shaped(t)[i] = IF LigatureAt(t, i) # 0 THEN ZERO_WIDTH_CODEPT
                        ELSE IF Shapes(t, i) THEN LastForm(t, i) ELSE t[i]
      /\ Restored(t)[i] = IF Shapes(t, i) /\ LigatureAt(t, i - 1) = 0
                          THEN find_base_codept_by_shaped(LastForm(t, i)) ELSE t[i]
  BY <1>1, Zenon DEF Shaped, Restored
<1> QED BY ONLY <1>2, <1>3

\* The forms at a rune are forms of the entry of what was read there.
LEMMA FormsAt ==
  ASSUME NEW t, Start(t), NEW i \in Int, Shapes(t, i)
  PROVE  /\ FirstForm(t, i) \in FormCodepts(Entry(EntryAt(t, i)))
         /\ LastForm(t, i) \in FormCodepts(Entry(EntryAt(t, i)))
<1> DEFINE e == Entry(EntryAt(t, i))
<1>1. EntryAt(t, i) \in 1 .. Len(ARABIC_SHAPER_LUT)
  BY RuneRead
<1>2. /\ e.isolated \in FormCodepts(e) /\ e.isolated + e.initial \in FormCodepts(e)
      /\ e.isolated + e.medial \in FormCodepts(e) /\ e.isolated + e.final \in FormCodepts(e)
      /\ e.isolated + 0 = e.isolated
  BY <1>1, FormType, EntryFacts
<1>3. FirstForm(t, i) = e.isolated + (IF Medial(t, i) THEN IF EndsWord(t, i) THEN e.final ELSE e.medial
                                      ELSE IF EndsWord(t, i) THEN 0 ELSE e.initial)
  BY DEF FirstForm
<1>4. FirstForm(t, i) \in FormCodepts(e)
  <2> HIDE DEF e
  <2> QED BY <1>2, <1>3
<1>5. LastForm(t, i) = IF ~EndsWord(t, i) /\ Left(t, i) THEN e.isolated + e.final ELSE FirstForm(t, i)
  BY DEF LastForm
<1> HIDE DEF e
<1>6. LastForm(t, i) \in FormCodepts(e)
  BY <1>2, <1>4, <1>5
<1> QED BY <1>4, <1>6 DEF e

\* What an iteration of shape_text reads and decides, in terms of the whole text.
LEMMA Decides ==
  ASSUME NEW t, Start(t), NEW k, Reading(t, k), text \in [1 .. Len(t) -> Nat],
         \A i \in 1 .. Len(t) : i >= k => text[i] = t[i]
  PROVE  /\ unread <=> k + 1 \in 1 .. Len(t)
         /\ ligates <=> LigatureAt(t, k) # 0
         /\ marks <=> LigatureAt(t, k) = 0 /\ is_zero_width(ReadAt(t, k))
         /\ shapes <=> Shapes(t, k)
         /\ shapes => (finishes <=> EndsWord(t, k))
         /\ read_codept = ReadAt(t, k + 1) /\ read_lut_entry = EntryAt(t, k + 1)
<1>1. /\ k \in 0 .. Len(t) + 1 /\ Len(t) \in Nat /\ DOMAIN text = 1 .. Len(t)
      /\ ptr = IF k <= Len(t) THEN k + 1 ELSE k
      /\ codept_this = ReadAt(t, k) /\ this_lut_entry = EntryAt(t, k)
  BY StartFacts DEF Reading, codept_this, this_lut_entry
<1>2. unread <=> k + 1 \in 1 .. Len(t)
  BY <1>1 DEF unread
<1>3. unread => ptr = k + 1 /\ codept(text[ptr]) = t[k + 1] /\ codept(t[k + 1]) = t[k + 1]
  BY <1>1, <1>2, StartFacts
<1>4. k \in Int /\ k + 1 \in Int /\ (k + 1) - 1 = k
  BY <1>1
<1>5. lig_codept = LigatureAt(t, k)
  <2>1. CASE ~unread
    BY <1>1, <1>2, <2>1, StartFacts DEF lig_codept, LigatureAt
  <2>2. CASE unread /\ k \in 1 .. Len(t) /\ LigatureAt(t, k - 1) = 0
    <3>1. ReadAt(t, k) = t[k] /\ codept(t[k]) = t[k]
      BY <1>4, <2>2, RuneRead, StartFacts
    <3>2. lig_codept = find_ligature_by_codepts(<<t[k], t[k + 1]>>)
      BY <1>1, <1>3, <2>2, <3>1 DEF lig_codept
    <3>3. LigatureAt(t, k) = find_ligature_by_codepts(<<t[k], t[k + 1]>>)
      BY <1>1, <1>2, <1>3, <2>2, <3>1, StartFacts DEF LigatureAt
    <3> QED BY <3>2, <3>3
  <2>3. CASE unread /\ k \in 1 .. Len(t) /\ LigatureAt(t, k - 1) # 0
    <3>1. k - 1 \in Int /\ (k - 1) + 1 = k
      BY <1>4
    <3>2. LigatureAt(t, k) = 0
      BY <2>3, <3>1, LigaturePair
    <3>3. ReadAt(t, k) \in LigatureCodepts
      BY <1>4, <2>3, RuneRead
    <3>4. lig_codept = find_ligature_by_codepts(<<ReadAt(t, k), t[k + 1]>>)
      BY <1>1, <1>3, <2>3 DEF lig_codept
    <3>5. lig_codept # 0 => \E j \in DOMAIN ARABIC_LIGATURE_LUT :
                              ARABIC_LIGATURE_LUT[j].pattern[1] = ReadAt(t, k)
      BY <3>4, LigatureFound
    <3> QED BY <3>2, <3>3, <3>5, LigatureFacts
  <2>4. CASE unread /\ k \notin 1 .. Len(t)
    <3>1. ReadAt(t, k) = 0 /\ LigatureAt(t, k) = 0
      BY <1>4, <2>4, RuneRead
    <3>2. lig_codept = find_ligature_by_codepts(<<ReadAt(t, k), t[k + 1]>>)
      BY <1>1, <1>3, <2>4 DEF lig_codept
    <3>3. lig_codept # 0 => \E j \in DOMAIN ARABIC_LIGATURE_LUT :
                              ARABIC_LIGATURE_LUT[j].pattern[1] = 0
      BY <3>1, <3>2, LigatureFound
    <3> QED BY <3>1, <3>3, LigatureFacts, RangeFacts
  <2> QED BY <2>1, <2>2, <2>3, <2>4
<1>6. read_codept = ReadAt(t, k + 1)
  <2>1. CASE unread
    BY <1>2, <1>3, <1>4, <1>5, <2>1, StartFacts DEF read_codept, ReadAt
  <2>2. CASE ~unread
    BY <1>2, <2>2, StartFacts DEF read_codept, ReadAt
  <2> QED BY <2>1, <2>2
<1>7. read_lut_entry = EntryAt(t, k + 1)
  BY <1>2, <1>4, <1>6, RuneRead DEF read_lut_entry, EntryAt
<1>8. /\ ligates <=> LigatureAt(t, k) # 0
      /\ marks <=> LigatureAt(t, k) = 0 /\ is_zero_width(ReadAt(t, k))
  BY <1>1, <1>5 DEF ligates, marks
<1>9. shapes <=> Shapes(t, k)
  BY <1>1, <1>8 DEF shapes, Shapes, Skips
<1>10. finishes <=> EndsWord(t, k)
  BY <1>1, <1>6, <1>7 DEF finishes, EndsWord, NoMedial
<1> QED BY <1>2, <1>6, <1>7, <1>8, <1>9, <1>10

-----------------------------------------------------------------------------
(* An iteration of shape_text, in terms of the whole text.                 *)

\* The word goes on over a rune that is skipped, stops at a rune that does not
\* join, and starts anew at one that does.
LEMMA WordSkips ==
  ASSUME NEW t, NEW k \in Nat, Skips(t, k)
  PROVE  /\ \A p \in Int : OpenUntil(t, p, k) => OpenUntil(t, p, k + 1)
         /\ Medial(t, k + 1) => Medial(t, k)
<1>1. ~Joins(t, k)
  BY DEF Joins, Shapes
<1>2. ASSUME NEW p \in Int, OpenUntil(t, p, k) PROVE OpenUntil(t, p, k + 1)
  <2>1. p \in 1 .. k - 1 /\ Joins(t, p) /\ \A m \in p + 1 .. k - 1 : Skips(t, m)
    BY <1>2 DEF OpenUntil
  <2>2. \A m \in p + 1 .. k : m = k \/ m \in p + 1 .. k - 1
    OBVIOUS
  <2>3. p \in 1 .. (k + 1) - 1 /\ (k + 1) - 1 = k
    BY <2>1
  <2> QED BY <2>1, <2>2, <2>3 DEF OpenUntil
<1>3. ASSUME NEW p \in 1 .. (k + 1) - 1, OpenUntil(t, p, k + 1) PROVE OpenUntil(t, p, k)
  <2>1. Joins(t, p) /\ \A m \in p + 1 .. k : Skips(t, m)
    BY <1>3 DEF OpenUntil
  <2>2. p \in 1 .. k - 1
    BY <1>1, <2>1
  <2> QED BY <2>1, <2>2 DEF OpenUntil
<1>4. ASSUME Medial(t, k + 1) PROVE Medial(t, k)
  <2>1. PICK p \in 1 .. (k + 1) - 1 : OpenUntil(t, p, k + 1)
    BY <1>4 DEF Medial
  <2>2. OpenUntil(t, p, k)
    BY <1>3, <2>1
  <2>3. p \in 1 .. k - 1
    BY <2>2 DEF OpenUntil
  <2> QED BY <2>2, <2>3 DEF Medial
<1> QED BY <1>2, <1>4

LEMMA WordStops ==
  ASSUME NEW t, NEW k \in Nat, ~Skips(t, k), ~Joins(t, k)
  PROVE  ~Medial(t, k + 1)
<1>1. SUFFICES ASSUME NEW p \in 1 .. (k + 1) - 1, OpenUntil(t, p, k + 1) PROVE FALSE
  BY DEF Medial
<1>2. Joins(t, p) /\ \A m \in p + 1 .. k : Skips(t, m)
  BY <1>1 DEF OpenUntil
<1>3. p # k
  BY <1>2
<1>4. k \in p + 1 .. k
  BY <1>3
<1> QED BY <1>2, <1>4

LEMMA WordStarts ==
  ASSUME NEW t, NEW k \in Nat, k >= 1, Joins(t, k)
  PROVE  OpenUntil(t, k, k + 1)
<1>1. k \in 1 .. (k + 1) - 1 /\ (k + 1) .. (k + 1) - 1 = {}
  OBVIOUS
<1> QED BY <1>1 DEF OpenUntil

\* The form of a joined letter stays if the word goes on, and becomes the final
\* form if it does not.
LEMMA WordGoesOn ==
  ASSUME NEW t, Start(t), NEW k \in Nat, NEW p \in Int, OpenUntil(t, p, k), Shapes(t, k)
  PROVE  LastForm(t, p) = FirstForm(t, p)
<1>1. p \in 1 .. k - 1 /\ \A m \in p + 1 .. k - 1 : Skips(t, m)
  BY DEF OpenUntil
<1>2. ~Skips(t, k) /\ ~Breaks(t, k)
  BY DEF Shapes, Breaks
<1>3. ~Left(t, p)
  <2>1. SUFFICES ASSUME NEW j \in p + 1 .. Len(t) + 1, Breaks(t, j),
                        \A m \in p + 1 .. j - 1 : Skips(t, m)
                 PROVE  FALSE
    BY DEF Left
  <2>2. Len(t) \in Nat /\ ~Skips(t, j)
    BY <2>1, StartFacts DEF Breaks
  <2>3. j \notin p + 1 .. k - 1 /\ k \notin p + 1 .. j - 1 /\ j # k
    BY <1>1, <1>2, <2>1, <2>2
  <2> QED BY <1>1, <2>1, <2>2, <2>3
<1> QED BY <1>3 DEF LastForm

LEMMA WordLeft ==
  ASSUME NEW t, Start(t), NEW k \in 0 .. Len(t) + 1, NEW p \in Int, OpenUntil(t, p, k), Breaks(t, k)
  PROVE  LastForm(t, p) = Entry(EntryAt(t, p)).isolated + Entry(EntryAt(t, p)).final
<1>1. p \in 1 .. k - 1 /\ ~EndsWord(t, p) /\ \A m \in p + 1 .. k - 1 : Skips(t, m)
  BY DEF OpenUntil, Joins
<1>2. Len(t) \in Nat
  BY StartFacts
<1>3. k \in p + 1 .. Len(t) + 1
  BY <1>1, <1>2
<1>4. Left(t, p)
  BY <1>1, <1>3 DEF Left
<1> QED BY <1>1, <1>4 DEF LastForm

\* A write to a rune of two bytes.
LEMMA RuneWritten ==
  ASSUME NEW n \in Nat, text \in [1 .. n -> Nat], NEW p \in 1 .. n, text[p] \in TwoBytes,
         NEW cp, Write(p, cp)
  PROVE  \A i \in 1 .. n : text'[i] = IF i = p THEN cp ELSE text[i]
<1>1. text' = [text EXCEPT ![p] = cp]
  BY DEF Write, write_utf8
<1> QED BY <1>1

LEMMA WritingStep ==
  ASSUME NEW t, Start(t), text \in [1 .. Len(t) -> Nat],
         state \in {"STATE_INITIAL", "STATE_MEDIAL"}, late_finalize_ptr \in Nat,
         NEW k, Reading(t, k), Writing(t, k), ShapeIterate
  PROVE  Writing(t, k + 1)'
<1> DEFINE n == Len(t)
<1>1. k \in 0 .. n + 1 /\ n \in Nat /\ k \in Nat /\ k \in Int
  BY StartFacts DEF Reading
<1>2. /\ (state = "STATE_MEDIAL") <=> late_finalize_ptr # NULL
      /\ Medial(t, k) => late_finalize_ptr # NULL
      /\ late_finalize_ptr # NULL => /\ OpenUntil(t, late_finalize_ptr, k)
                                     /\ late_finalize_lut_entry = EntryAt(t, late_finalize_ptr)
  BY DEF Writing
<1>3. \A i \in 1 .. n :
        text[i] = IF i >= k THEN t[i]
                  ELSE IF i = late_finalize_ptr THEN FirstForm(t, i) ELSE Shaped(t)[i]
  BY DEF Writing
<1>4. late_finalize_ptr # NULL => /\ late_finalize_ptr \in 1 .. n /\ late_finalize_ptr < k
                                  /\ Shapes(t, late_finalize_ptr) /\ Medial(t, k)
  <2>1. SUFFICES ASSUME late_finalize_ptr # NULL
                 PROVE  /\ late_finalize_ptr \in 1 .. n /\ late_finalize_ptr < k
                        /\ Shapes(t, late_finalize_ptr) /\ Medial(t, k)
    OBVIOUS
  <2>2. late_finalize_ptr \in 1 .. k - 1 /\ Joins(t, late_finalize_ptr)
    BY <1>2, <2>1 DEF OpenUntil
  <2> QED BY <1>1, <1>2, <2>1, <2>2 DEF Joins, Medial
<1>5. state = "STATE_INITIAL" <=> ~Medial(t, k)
  BY <1>2, <1>4
<1>6. /\ ligates <=> LigatureAt(t, k) # 0
      /\ marks <=> LigatureAt(t, k) = 0 /\ is_zero_width(ReadAt(t, k))
      /\ shapes <=> Shapes(t, k)
      /\ shapes => (finishes <=> EndsWord(t, k))
  <2>1. \A i \in 1 .. Len(t) : i >= k => text[i] = t[i]
    BY <1>3
  <2> QED BY <2>1, Decides
<1>7. /\ this_lut_entry = EntryAt(t, k)
      /\ k \in 1 .. n => this_rune_ptr = k
  BY DEF Reading, this_lut_entry, this_rune_ptr
<1>8. SUFFICES /\ (state' = "STATE_MEDIAL") <=> late_finalize_ptr' # NULL
               /\ Medial(t, k + 1) => late_finalize_ptr' # NULL
               /\ late_finalize_ptr' # NULL =>
                    /\ OpenUntil(t, late_finalize_ptr', k + 1)
                    /\ late_finalize_lut_entry' = EntryAt(t, late_finalize_ptr')
               /\ \A i \in 1 .. n :
                    text'[i] = IF i >= k + 1 THEN t[i]
                               ELSE IF i = late_finalize_ptr' THEN FirstForm(t, i)
                               ELSE Shaped(t)[i]
  BY DEF Writing
<1> HIDE DEF n
<1>9. CASE Ligate \/ SkipMark
  <2>1. Skips(t, k) /\ UNCHANGED <<state, late_finalize_ptr, late_finalize_lut_entry>>
    BY <1>6, <1>9 DEF Ligate, SkipMark, Skips
  <2>2. \A i \in 1 .. n :
          text'[i] = IF i >= k + 1 THEN t[i]
                     ELSE IF i = late_finalize_ptr THEN FirstForm(t, i) ELSE Shaped(t)[i]
    <3>1. CASE Ligate
      <4>1. LigatureAt(t, k) # 0 /\ k \in 1 .. n /\ t[k] \in TwoBytes
        BY <1>1, <1>6, <3>1, RuneRead DEF Ligate, n
      <4>2. Shaped(t)[k] = ZERO_WIDTH_CODEPT
        BY <4>1, ShapedRune DEF n
      <4>3. Write(k, ZERO_WIDTH_CODEPT) /\ text[k] = t[k]
        BY <1>1, <1>3, <1>7, <3>1, <4>1 DEF Ligate
      <4>4. \A i \in 1 .. n : text'[i] = IF i = k THEN ZERO_WIDTH_CODEPT ELSE text[i]
        BY <1>1, <4>1, <4>3, RuneWritten DEF n
      <4> QED BY <1>1, <1>2, <1>3, <1>4, <4>2, <4>4 DEF NULL
    <3>2. CASE SkipMark
      <4>1. text' = text /\ LigatureAt(t, k) = 0 /\ ~Shapes(t, k)
        BY <1>6, <2>1, <3>2 DEF SkipMark, Shapes
      <4>2. k \in 1 .. n => Shaped(t)[k] = t[k]
        BY <4>1, ShapedRune DEF n
      <4> QED BY <1>1, <1>3, <1>4, <4>1, <4>2 DEF NULL
    <3> QED BY <1>9, <3>1, <3>2
  <2>3. /\ Medial(t, k + 1) => Medial(t, k)
        /\ late_finalize_ptr # NULL => OpenUntil(t, late_finalize_ptr, k + 1)
    BY <1>1, <1>2, <2>1, WordSkips
  <2> QED BY <1>2, <2>1, <2>2, <2>3
<1>10. Shapes(t, k) /\ late_finalize_ptr # NULL =>
         Shaped(t)[late_finalize_ptr] = FirstForm(t, late_finalize_ptr)
  <2>1. SUFFICES ASSUME Shapes(t, k), late_finalize_ptr # NULL
                 PROVE  Shaped(t)[late_finalize_ptr] = FirstForm(t, late_finalize_ptr)
    OBVIOUS
  <2>2. LastForm(t, late_finalize_ptr) = FirstForm(t, late_finalize_ptr)
    BY <1>1, <1>2, <2>1, WordGoesOn
  <2> QED BY <1>4, <2>1, <2>2, ShapedRune DEF n
<1>11. Shapes(t, k) => /\ k \in 1 .. n /\ text[k] \in TwoBytes /\ this_rune_ptr = k
                       /\ Shaped(t)[k] = LastForm(t, k)
                       /\ Entry(EntryAt(t, k)).isolated \in Nat
  <2>1. Shapes(t, k) => /\ k \in 1 .. n /\ t[k] \in TwoBytes
                        /\ EntryAt(t, k) \in 1 .. Len(ARABIC_SHAPER_LUT)
    BY <1>1, RuneRead DEF n
  <2> QED BY <1>1, <1>3, <1>7, <2>1, ShapedRune, EntryFacts DEF n
<1>12. CASE ShapeLast
  <2> DEFINE e == Entry(EntryAt(t, k))
             cp == IF state = "STATE_INITIAL" THEN e.isolated ELSE e.isolated + e.final
  <2>1. /\ Shapes(t, k) /\ EndsWord(t, k) /\ Write(this_rune_ptr, cp)
        /\ late_finalize_ptr' = NULL /\ state' = "STATE_INITIAL"
    BY <1>6, <1>7, <1>12 DEF ShapeLast
  <2>2. cp = Shaped(t)[k]
    <3>1. LastForm(t, k) = e.isolated + (IF Medial(t, k) THEN e.final ELSE 0)
      BY <2>1 DEF LastForm, FirstForm
    <3>2. e.isolated + 0 = e.isolated
      BY <1>11, <2>1
    <3> HIDE DEF e
    <3> QED BY <1>5, <1>11, <2>1, <3>1, <3>2
  <2> HIDE DEF cp
  <2>3. \A i \in 1 .. n : text'[i] = IF i = k THEN cp ELSE text[i]
    BY <1>1, <1>11, <2>1, RuneWritten DEF n
  <2>4. ~Medial(t, k + 1)
    BY <1>1, <2>1, WordStops DEF Joins, Shapes
  <2>5. \A i \in 1 .. n : text'[i] = IF i >= k + 1 THEN t[i] ELSE Shaped(t)[i]
    BY <1>1, <1>3, <1>4, <1>10, <2>1, <2>2, <2>3 DEF NULL
  <2> QED BY <1>1, <2>1, <2>4, <2>5 DEF NULL
<1>13. CASE ShapeJoined
  <2> DEFINE e == Entry(EntryAt(t, k))
             cp == e.isolated + (IF state = "STATE_INITIAL" THEN e.initial ELSE e.medial)
  <2>1. /\ Shapes(t, k) /\ ~EndsWord(t, k) /\ Write(this_rune_ptr, cp)
        /\ late_finalize_ptr' = this_rune_ptr /\ late_finalize_lut_entry' = EntryAt(t, k)
        /\ state' = "STATE_MEDIAL"
    BY <1>6, <1>7, <1>13 DEF ShapeJoined
  <2>2. cp = FirstForm(t, k)
    <3>1. FirstForm(t, k) = e.isolated + (IF Medial(t, k) THEN e.medial ELSE e.initial)
      BY <2>1 DEF FirstForm
    <3> HIDE DEF e
    <3> QED BY <1>5, <3>1
  <2> HIDE DEF cp
  <2>3. \A i \in 1 .. n : text'[i] = IF i = k THEN cp ELSE text[i]
    BY <1>1, <1>11, <2>1, RuneWritten DEF n
  <2>4. OpenUntil(t, k, k + 1) /\ late_finalize_ptr' = k /\ k # NULL
    BY <1>1, <1>11, <2>1, WordStarts DEF Joins, NULL
  <2>5. \A i \in 1 .. n : text'[i] = IF i >= k + 1 THEN t[i]
                                     ELSE IF i = k THEN FirstForm(t, i) ELSE Shaped(t)[i]
    BY <1>1, <1>3, <1>4, <1>10, <2>1, <2>2, <2>3 DEF NULL
  <2> QED BY <1>1, <2>1, <2>4, <2>5
<1>14. CASE EndWord
  <2>1. /\ Breaks(t, k) /\ late_finalize_ptr' = NULL /\ state' = "STATE_INITIAL"
    BY <1>6, <1>14 DEF EndWord, Breaks, Shapes, Skips
  <2>2. ~Medial(t, k + 1)
    BY <1>1, <2>1, WordStops DEF Breaks, Joins, Shapes
  <2>3. k \in 1 .. n => Shaped(t)[k] = t[k]
    BY <2>1, ShapedRune DEF n, Breaks, Shapes, Skips
  <2>4. \A i \in 1 .. n : text'[i] = IF i >= k + 1 THEN t[i] ELSE Shaped(t)[i]
    <3>1. CASE late_finalize_ptr = NULL
      <4>1. text' = text
        BY <1>14, <3>1 DEF EndWord
      <4> QED BY <1>1, <1>3, <2>3, <3>1, <4>1 DEF NULL
    <3>2. CASE late_finalize_ptr # NULL
      <4> DEFINE p == late_finalize_ptr
                 e == Entry(EntryAt(t, p))
      <4>1. /\ p \in 1 .. n /\ p < k /\ Shapes(t, p) /\ OpenUntil(t, p, k)
            /\ late_finalize_lut_entry = EntryAt(t, p)
        BY <1>2, <1>4, <3>2
      <4>2. Write(p, e.isolated + e.final)
        BY <1>2, <1>14, <3>2, <4>1 DEF EndWord
      <4>3. e.isolated + e.final = Shaped(t)[p]
        <5>1. LastForm(t, p) = e.isolated + e.final
          BY <1>1, <2>1, <4>1, WordLeft DEF n
        <5> QED BY <4>1, <5>1, ShapedRune DEF n
      <4>4. text[p] \in TwoBytes
        <5>1. EntryAt(t, p) \in 1 .. Len(ARABIC_SHAPER_LUT) /\ FirstForm(t, p) \in FormCodepts(e)
          BY <4>1, RuneRead, FormsAt
        <5>2. text[p] = FirstForm(t, p)
          BY <1>1, <1>3, <4>1
        <5> QED BY <5>1, <5>2, FormSafe
      <4> HIDE DEF e
      <4>5. \A i \in 1 .. n : text'[i] = IF i = p THEN e.isolated + e.final ELSE text[i]
        BY <1>1, <4>1, <4>2, <4>4, RuneWritten DEF n
      <4> QED BY <1>1, <1>3, <2>3, <4>1, <4>3, <4>5
    <3> QED BY <3>1, <3>2
  <2> QED BY <1>1, <2>1, <2>2, <2>4 DEF NULL
<1> QED BY <1>9, <1>12, <1>13, <1>14 DEF ShapeIterate

\* shape_text starts on a text, goes through it, and leaves it shaped.
LEMMA ShapingStarts ==
  ASSUME NEW t, Start(t), text = t, ShapeCall
  PROVE  Reading(t, 0)' /\ Writing(t, 0)'
<1>1. /\ ptr' = 1 /\ next_rune_ptr' = NULL /\ codept_next' = 0 /\ next_lut_entry' = NULL
      /\ late_finalize_ptr' = NULL /\ state' = "STATE_INITIAL" /\ text' = t
  BY DEF ShapeCall
<1>2. ReadAt(t, 0) = 0 /\ EntryAt(t, 0) = NULL
  BY StartFacts, RuneRead
<1>3. Reading(t, 0)'
  <2>1. Len(t) \in Nat /\ 0 \in 0 .. Len(t) + 1 /\ 0 <= Len(t) /\ 0 \notin 1 .. Len(t)
    BY StartFacts
  <2> QED BY <1>1, <1>2, <2>1 DEF Reading
<1>4. ~Medial(t, 0)
  BY DEF Medial
<1>5. \A i \in 1 .. Len(t) : i >= 0
  BY StartFacts
<1> QED BY <1>1, <1>3, <1>4, <1>5 DEF Writing

LEMMA ShapingGoesOn ==
  ASSUME ShaperType, NEW t, Start(t), Len(t) = Len(orig), UNCHANGED orig,
         NEW k, Reading(t, k), Writing(t, k), ShapeIterate
  PROVE  \/ shaper_pc' = "shape" /\ k + 1 \in Int /\ Reading(t, k + 1)' /\ Writing(t, k + 1)'
         \/ shaper_pc' = "idle" /\ text' = Shaped(t)
<1> DEFINE n == Len(t)
<1>1. /\ n \in Nat /\ k \in 0 .. n + 1 /\ k \in Int /\ DOMAIN t = 1 .. n
      /\ text \in [1 .. n -> Nat] /\ text' \in [1 .. n -> Nat]
      /\ late_finalize_ptr \in Nat /\ late_finalize_ptr' \in Nat
      /\ state \in {"STATE_INITIAL", "STATE_MEDIAL"}
  <2>1. ShaperType'
    BY ShapeIterateType
  <2>2. late_finalize_ptr \in 0 .. Len(orig) /\ late_finalize_ptr' \in 0 .. Len(orig)
    BY <2>1 DEF ShaperType
  <2>3. n \in Nat /\ DOMAIN t = 1 .. n
    BY StartFacts
  <2>4. k \in 0 .. n + 1
    BY DEF Reading
  <2>5. text \in [1 .. n -> Nat] /\ text' \in [1 .. n -> Nat]
    BY <2>1 DEF ShaperType
  <2>6. state \in {"STATE_INITIAL", "STATE_MEDIAL"}
    BY DEF ShaperType
  <2>7. Len(orig) \in Nat
    BY <2>3
  <2> HIDE DEF n
  <2> QED BY <2>2, <2>3, <2>4, <2>5, <2>6, <2>7
<1>2. Writing(t, k + 1)'
  BY <1>1, WritingStep
<1>3. ReadForward
  BY DEF ShapeIterate, Ligate, SkipMark, ShapeLast, ShapeJoined, EndWord
<1>4. /\ unread <=> k + 1 \in 1 .. n
      /\ read_codept = ReadAt(t, k + 1) /\ read_lut_entry = EntryAt(t, k + 1)
  <2>1. \A i \in 1 .. Len(t) : i >= k => text[i] = t[i]
    BY DEF Writing
  <2> QED BY <1>1, <2>1, Decides
<1>5. codept_this = ReadAt(t, k) /\ ptr = IF k <= n THEN k + 1 ELSE k
  BY DEF Reading, codept_this
<1>6. CASE k \in 1 .. n \/ k + 1 \in 1 .. n
  <2>1. codept_this # 0 \/ read_codept # 0
    BY <1>1, <1>4, <1>5, <1>6, RuneRead
  <2>2. shaper_pc' = "shape"
    BY <1>3, <2>1 DEF ReadForward
  <2>3. Reading(t, k + 1)'
    <3>1. /\ ptr' = IF k + 1 \in 1 .. n THEN ptr + 1 ELSE ptr
          /\ next_rune_ptr' = IF k + 1 \in 1 .. n THEN ptr ELSE NULL
          /\ codept_next' = ReadAt(t, k + 1) /\ next_lut_entry' = EntryAt(t, k + 1)
      BY <1>3, <1>4 DEF ReadForward
    <3> HIDE DEF n
    <3>2. /\ k + 1 \in 0 .. n + 1
          /\ ptr' = IF k + 1 <= n THEN (k + 1) + 1 ELSE k + 1
          /\ next_rune_ptr' = IF k + 1 \in 1 .. n THEN k + 1 ELSE NULL
      BY <1>1, <1>5, <1>6, <3>1
    <3> QED BY <3>1, <3>2 DEF Reading, n
  <2> QED BY <1>1, <1>2, <2>2, <2>3
<1>7. CASE ~(k \in 1 .. n \/ k + 1 \in 1 .. n)
  <2>1. codept_this = 0 /\ read_codept = 0 /\ Breaks(t, k)
    <3>1. ReadAt(t, k) = 0 /\ Breaks(t, k)
      BY <1>1, <1>7, RuneRead
    <3>2. k + 1 \in Int /\ k + 1 \notin 1 .. Len(t)
      BY <1>1, <1>7
    <3>3. ReadAt(t, k + 1) = 0
      BY <3>2, RuneRead
    <3> QED BY <1>4, <1>5, <3>1, <3>3
  <2>2. shaper_pc' = "idle"
    BY <1>3, <2>1 DEF ReadForward
  <2>3. ~Medial(t, k + 1)
    BY <1>1, <2>1, WordStops DEF Breaks, Joins, Shapes
  <2>4. late_finalize_ptr' = NULL
    <3>1. SUFFICES ASSUME late_finalize_ptr' # NULL PROVE FALSE
      OBVIOUS
    <3>2. OpenUntil(t, late_finalize_ptr', k + 1)
      BY <1>2, <3>1 DEF Writing
    <3>3. late_finalize_ptr' \in 1 .. (k + 1) - 1
      BY <3>2 DEF OpenUntil
    <3> QED BY <2>3, <3>2, <3>3 DEF Medial
  <2>5. \A i \in 1 .. n : text'[i] = IF i >= k + 1 THEN t[i]
                                     ELSE IF i = late_finalize_ptr' THEN FirstForm(t, i)
                                     ELSE Shaped(t)[i]
    BY <1>2 DEF Writing
  <2>6. \A i \in 1 .. n : ~(i >= k + 1) /\ i # NULL
    BY <1>1, <1>7 DEF NULL
  <2>7. \A i \in 1 .. n : text'[i] = Shaped(t)[i]
    BY <2>4, <2>5, <2>6
  <2>8. Shaped(t) = [i \in 1 .. n |-> Shaped(t)[i]]
    BY <1>1 DEF Shaped
  <2>9. text' = [i \in 1 .. n |-> text'[i]]
    BY <1>1
  <2> HIDE DEF n
  <2> QED BY <2>2, <2>7, <2>8, <2>9
<1> QED BY <1>6, <1>7

-----------------------------------------------------------------------------
(* An iteration of unshape_text, in terms of the whole text.               *)

\* unshape_text knows every form, and a ligature's forms for those of a ligature.
LEMMA FormRead ==
  ASSUME NEW k \in 1 .. Len(ARABIC_SHAPER_LUT), NEW f \in FormCodepts(Entry(k))
  PROVE  /\ find_base_codept_by_shaped(f) # 0 /\ f \in uint16 /\ f \in TwoBytes
         /\ f \in ARABIC_SHAPER_RANGE /\ f \notin LigatureCodepts
         /\ find_lut_entry_by_codept(find_base_codept_by_shaped(f)) # NULL
         /\ f \in FormsOf(find_base_codept_by_shaped(f))
         /\ find_base_codept_by_shaped(f) \in LigatureCodepts <=>
              Entry(k).true \in LigatureCodepts
         /\ FormsReadBack /\ Entry(k).true \in LigatureCodepts =>
              find_base_codept_by_shaped(f) = Entry(k).true
<1> DEFINE hits == { i \in DOMAIN ARABIC_SHAPER_LUT :
                       f - Entry(i).isolated \in
                         {0, Entry(i).initial, Entry(i).medial, Entry(i).final} }
<1>1. f \in Nat /\ f \in uint16 /\ f \in TwoBytes /\ f \in ARABIC_SHAPER_RANGE
      /\ f \notin LigatureCodepts
  BY EntryFacts, RangeFacts
<1>2. k \in hits
  BY <1>1, EntryFacts DEF FormCodepts
<1>3. hits \subseteq 1 .. Len(ARABIC_SHAPER_LUT) /\ hits \subseteq Nat
  BY EntryFacts
<1>4. find_base_codept_by_shaped(f) = IF hits = {} THEN 0 ELSE Entry(First(hits)).true
  BY DEF find_base_codept_by_shaped
<1> HIDE DEF hits
<1>5. First(hits) \in 1 .. Len(ARABIC_SHAPER_LUT)
  BY <1>2, <1>3, FirstIn
<1>6. find_base_codept_by_shaped(f) # 0
  BY <1>2, <1>4, <1>5, EntryFacts, RangeFacts
<1>7. PICK j \in 1 .. Len(ARABIC_SHAPER_LUT) :
        find_base_codept_by_shaped(f) = Entry(j).true /\ f \in FormCodepts(Entry(j))
  BY <1>1, <1>6, FindBase
<1>8. find_lut_entry_by_codept(find_base_codept_by_shaped(f)) # NULL
  BY <1>7, Alphabet
<1>9. f \in FormsOf(find_base_codept_by_shaped(f))
  BY <1>7, EntryFacts DEF FormsOf
<1>10. LigatureEntry(j) <=> LigatureEntry(k)
  BY <1>7, EntryFacts DEF LigatureForm
<1>11. find_base_codept_by_shaped(f) \in LigatureCodepts <=> Entry(k).true \in LigatureCodepts
  BY <1>7, <1>10 DEF LigatureEntry
<1>12. FormsReadBack /\ Entry(k).true \in LigatureCodepts =>
         find_base_codept_by_shaped(f) = Entry(k).true
  BY <1>11, EntryFacts DEF FormsReadBack
<1> QED BY <1>1, <1>6, <1>8, <1>9, <1>11, <1>12

\* A rune of a shaped text, as unshape_text sees it.
LEMMA ShapedRead ==
  ASSUME FormsReadBack, NEW t, Start(t), \A i \in 1 .. Len(t) : t[i] \notin ARABIC_SHAPER_RANGE,
         NEW i \in 1 .. Len(t)
  PROVE  /\ codept(Shaped(t)[i]) = Shaped(t)[i]
         /\ Shapes(t, i) => /\ Shaped(t)[i] \in ARABIC_SHAPER_RANGE /\ Shaped(t)[i] \in TwoBytes
                            /\ find_base_codept_by_shaped(Shaped(t)[i]) # 0
         /\ Shapes(t, i) /\ LigatureAt(t, i - 1) # 0 =>
              find_base_codept_by_shaped(Shaped(t)[i]) = LigatureAt(t, i - 1)
         /\ Shapes(t, i) /\ LigatureAt(t, i - 1) = 0 =>
              /\ find_base_codept_by_shaped(Shaped(t)[i]) \notin LigatureCodepts
              /\ Restored(t)[i] = find_base_codept_by_shaped(Shaped(t)[i])
         /\ ~Shapes(t, i) => Shaped(t)[i] \notin ARABIC_SHAPER_RANGE
<1>1. i \in Int
  OBVIOUS
<1>2. ~Shapes(t, i) => /\ Shaped(t)[i] \notin ARABIC_SHAPER_RANGE
                       /\ codept(Shaped(t)[i]) = Shaped(t)[i]
  <2>1. ZERO_WIDTH_CODEPT \notin ARABIC_SHAPER_RANGE /\ codept(ZERO_WIDTH_CODEPT) = ZERO_WIDTH_CODEPT
    BY RangeFacts, CodeptFacts
  <2> QED BY <2>1, ShapedRune, StartFacts
<1>3. ASSUME Shapes(t, i)
      PROVE  /\ Shaped(t)[i] \in ARABIC_SHAPER_RANGE /\ Shaped(t)[i] \in TwoBytes
             /\ find_base_codept_by_shaped(Shaped(t)[i]) # 0
             /\ codept(Shaped(t)[i]) = Shaped(t)[i]
             /\ LigatureAt(t, i - 1) # 0 =>
                  find_base_codept_by_shaped(Shaped(t)[i]) = LigatureAt(t, i - 1)
             /\ LigatureAt(t, i - 1) = 0 =>
                  /\ find_base_codept_by_shaped(Shaped(t)[i]) \notin LigatureCodepts
                  /\ Restored(t)[i] = find_base_codept_by_shaped(Shaped(t)[i])
  <2>1. /\ EntryAt(t, i) \in 1 .. Len(ARABIC_SHAPER_LUT)
        /\ Entry(EntryAt(t, i)).true = ReadAt(t, i)
        /\ LigatureAt(t, i - 1) # 0 => /\ ReadAt(t, i) = LigatureAt(t, i - 1)
                                       /\ ReadAt(t, i) \in LigatureCodepts
        /\ LigatureAt(t, i - 1) = 0 => ReadAt(t, i) = t[i] /\ ReadAt(t, i) \notin LigatureCodepts
    <3>1. t[i] \notin LigatureCodepts
      BY StartFacts
    <3> QED BY <1>1, <1>3, <3>1, RuneRead
  <2>2. Shaped(t)[i] = LastForm(t, i) /\ LastForm(t, i) \in FormCodepts(Entry(EntryAt(t, i)))
    BY <1>1, <1>3, ShapedRune, FormsAt
  <2>3. LigatureAt(t, i - 1) = 0 => Restored(t)[i] = find_base_codept_by_shaped(LastForm(t, i))
    BY <1>3, ShapedRune
  <2> QED BY <2>1, <2>2, <2>3, FormRead, CodeptFacts
<1> QED BY <1>2, <1>3

LEMMA Unshapes ==
  ASSUME FormsReadBack, ShaperType, Start(orig),
         \A i \in 1 .. Len(orig) : orig[i] \notin ARABIC_SHAPER_RANGE,
         UNCHANGED orig, Unshaping(orig), UnshapeIterate
  PROVE  \/ shaper_pc' = "unshape" /\ Unshaping(orig)'
         \/ shaper_pc' = "idle" /\ text' = Restored(orig)
<1> DEFINE n == Len(orig)
           S == Shaped(orig)
           R == Restored(orig)
           At(q, i) == IF i >= q \/ (i = q - 1 /\ LigatureAt(orig, i) # 0) THEN S[i] ELSE R[i]
<1>1. /\ n \in Nat /\ ptr \in 1 .. n + 1 /\ ptr \in Int /\ DOMAIN orig = 1 .. n
      /\ text \in [1 .. n -> Nat]
      /\ unread <=> ptr \in 1 .. n
  BY TextFacts DEF Unshaping
<1>2. \A i \in 1 .. n : text[i] = At(ptr, i)
  BY DEF Unshaping
<1>3. ASSUME ptr' = ptr + 1, ptr \in 1 .. n, shaper_pc' = shaper_pc,
             \A i \in 1 .. n : text'[i] = At(ptr + 1, i)
      PROVE  shaper_pc' = "unshape" /\ Unshaping(orig)'
  <2>1. shaper_pc = "unshape"
    BY DEF UnshapeIterate, LeaveRune, RestoreRune, expand_ligature, UnshapeReturn
  <2>2. ptr + 1 \in 1 .. n + 1
    BY <1>1, <1>3
  <2> QED BY <1>3, <2>1, <2>2 DEF Unshaping
<1>4. ptr \in 1 .. n =>
        /\ text[ptr] = S[ptr]
        /\ LigatureAt(orig, ptr - 1) # 0 => Shapes(orig, ptr) /\ LigatureAt(orig, ptr) = 0
        /\ LigatureAt(orig, ptr) # 0 => LigatureAt(orig, ptr - 1) = 0 /\ ~Shapes(orig, ptr)
        /\ LigatureAt(orig, ptr) = 0 /\ ~Shapes(orig, ptr) => S[ptr] = R[ptr]
  <2>1. SUFFICES ASSUME ptr \in 1 .. n
                 PROVE  /\ text[ptr] = S[ptr]
                        /\ LigatureAt(orig, ptr - 1) # 0 =>
                             Shapes(orig, ptr) /\ LigatureAt(orig, ptr) = 0
                        /\ LigatureAt(orig, ptr) # 0 =>
                             LigatureAt(orig, ptr - 1) = 0 /\ ~Shapes(orig, ptr)
                        /\ LigatureAt(orig, ptr) = 0 /\ ~Shapes(orig, ptr) => S[ptr] = R[ptr]
    OBVIOUS
  <2>2. text[ptr] = S[ptr]
    BY <1>1, <1>2, <2>1
  <2>3. LigatureAt(orig, ptr - 1) # 0 => Shapes(orig, ptr) /\ LigatureAt(orig, ptr) = 0
    BY <1>1, <2>1, RuneRead
  <2>4. LigatureAt(orig, ptr) # 0 => LigatureAt(orig, ptr - 1) = 0 /\ ~Shapes(orig, ptr)
    BY <1>1, <2>1, <2>3, RuneRead
  <2>5. LigatureAt(orig, ptr) = 0 /\ ~Shapes(orig, ptr) => S[ptr] = R[ptr]
    BY <2>1, ShapedRune
  <2> QED BY <2>2, <2>3, <2>4, <2>5
<1>5. ptr \in 1 .. n =>
        /\ ~Shapes(orig, ptr) => old_codept = 0
        /\ Shapes(orig, ptr) => /\ old_codept = find_base_codept_by_shaped(S[ptr])
                                /\ old_codept # 0 /\ text[ptr] \in TwoBytes
        /\ Shapes(orig, ptr) /\ LigatureAt(orig, ptr - 1) # 0 =>
             old_codept = LigatureAt(orig, ptr - 1)
        /\ Shapes(orig, ptr) /\ LigatureAt(orig, ptr - 1) = 0 =>
             old_codept \notin LigatureCodepts /\ R[ptr] = old_codept
  BY <1>4, ShapedRead DEF old_codept
<1> HIDE DEF S, R
<1>6. CASE LeaveRune
  <2>1. ptr \in 1 .. n /\ old_codept = 0 /\ ptr' = ptr + 1 /\ text' = text /\ shaper_pc' = shaper_pc
    BY <1>1, <1>6 DEF LeaveRune
  <2>2. ~Shapes(orig, ptr) /\ LigatureAt(orig, ptr - 1) = 0
    BY <1>4, <1>5, <2>1
  <2>3. \A i \in 1 .. n : text'[i] = At(ptr + 1, i)
    <3>1. ASSUME NEW i \in 1 .. n PROVE At(ptr, i) = At(ptr + 1, i)
      <4>1. CASE i = ptr
        BY <1>1, <1>4, <2>1, <2>2, <4>1
      <4>2. CASE i # ptr
        BY <1>1, <2>2, <4>2
      <4> QED BY <4>1, <4>2
    <3> QED BY <1>2, <2>1, <3>1
  <2> QED BY <1>3, <2>1, <2>3
<1>7. CASE RestoreRune
  <2>1. /\ ptr \in 1 .. n /\ old_codept # 0 /\ old_ligature = {} /\ Write(ptr, old_codept)
        /\ ptr' = ptr + 1 /\ shaper_pc' = shaper_pc
    BY <1>1, <1>7 DEF RestoreRune
  <2>2. old_codept \notin LigatureCodepts
    BY <2>1 DEF old_ligature, LigatureCodepts
  <2>3. Shapes(orig, ptr) /\ LigatureAt(orig, ptr - 1) = 0 /\ R[ptr] = old_codept
    <3>1. Shapes(orig, ptr)
      BY <1>5, <2>1
    <3>2. LigatureAt(orig, ptr - 1) # 0 => LigatureAt(orig, ptr - 1) \in LigatureCodepts
      BY <1>1, LigaturePair
    <3> QED BY <1>5, <2>1, <2>2, <3>1, <3>2
  <2>4. \A i \in 1 .. n : text'[i] = IF i = ptr THEN old_codept ELSE text[i]
    BY <1>1, <1>5, <2>1, <2>3, RuneWritten
  <2>5. LigatureAt(orig, ptr) = 0
    BY <1>4, <2>1, <2>3
  <2>6. ASSUME NEW i \in 1 .. n PROVE text'[i] = At(ptr + 1, i)
    <3>1. CASE i = ptr
      BY <1>1, <2>3, <2>4, <2>5, <3>1
    <3>2. CASE i # ptr
      BY <1>1, <1>2, <2>3, <2>4, <3>2
    <3> QED BY <3>1, <3>2
  <2> QED BY <1>3, <2>1, <2>6
<1>8. CASE expand_ligature
  <2> DEFINE p == ARABIC_LIGATURE_LUT[First(old_ligature)].pattern
             u == write_utf8(text, ptr - 1, p[1])
  <2>1. /\ ptr \in 1 .. n /\ old_codept # 0 /\ old_ligature # {}
        /\ text' = write_utf8(u, ptr, p[2])
        /\ ptr' = ptr + 1 /\ shaper_pc' = shaper_pc
    BY <1>1, <1>8 DEF expand_ligature
  <2>2. First(old_ligature) \in old_ligature
    <3>1. old_ligature \subseteq Nat
      BY LigatureFacts DEF old_ligature
    <3> QED BY <2>1, <3>1, FirstIn
  <2>3. /\ First(old_ligature) \in DOMAIN ARABIC_LIGATURE_LUT
        /\ ARABIC_LIGATURE_LUT[First(old_ligature)].codept = old_codept
        /\ old_codept \in LigatureCodepts
    BY <2>2 DEF old_ligature, LigatureCodepts
  <2>4. Shapes(orig, ptr) /\ LigatureAt(orig, ptr - 1) # 0 /\ old_codept = LigatureAt(orig, ptr - 1)
    BY <1>5, <2>1, <2>3
  <2>5. ptr - 1 \in 1 .. n /\ p[1] = orig[ptr - 1] /\ p[2] = orig[ptr]
    <3>1. ptr - 1 \in Int /\ (ptr - 1) + 1 = ptr
      BY <1>1
    <3>2. PICK k \in DOMAIN ARABIC_LIGATURE_LUT :
            /\ ARABIC_LIGATURE_LUT[k].pattern[1] = orig[ptr - 1]
            /\ ARABIC_LIGATURE_LUT[k].pattern[2] = orig[ptr]
            /\ ARABIC_LIGATURE_LUT[k].codept = LigatureAt(orig, ptr - 1)
      <4>1. \E k \in DOMAIN ARABIC_LIGATURE_LUT :
              /\ ARABIC_LIGATURE_LUT[k].pattern[1] = orig[ptr - 1]
              /\ ARABIC_LIGATURE_LUT[k].pattern[2] = orig[(ptr - 1) + 1]
              /\ ARABIC_LIGATURE_LUT[k].codept = LigatureAt(orig, ptr - 1)
        BY <2>4, <3>1, LigaturePair
      <4> QED BY <3>1, <4>1
    <3>3. k = First(old_ligature)
      BY <2>3, <2>4, <3>2, LutAssumption, Zenon
    <3> QED BY <2>4, <3>1, <3>2, <3>3, LigaturePair
  <2>6. R[ptr - 1] = orig[ptr - 1] /\ R[ptr] = orig[ptr] /\ LigatureAt(orig, ptr) = 0
    <3>1. ~Shapes(orig, ptr - 1)
      BY <2>4, <2>5, RuneRead
    <3> QED BY <1>4, <2>1, <2>4, <2>5, <3>1, ShapedRune DEF R
  <2>7. text[ptr - 1] = ZERO_WIDTH_CODEPT
    <3>1. text[ptr - 1] = S[ptr - 1]
      BY <1>1, <1>2, <2>4, <2>5
    <3> QED BY <2>4, <2>5, <3>1, ShapedRune DEF S
  <2>8. text[ptr - 1] \in TwoBytes /\ text[ptr] \in TwoBytes
    BY <1>5, <2>1, <2>4, <2>7, RangeFacts
  <2> HIDE DEF p
  <2>9. u = [text EXCEPT ![ptr - 1] = p[1]]
    BY <1>1, <2>5, <2>8 DEF write_utf8
  <2>10. /\ DOMAIN u = 1 .. n
         /\ \A i \in 1 .. n : u[i] = IF i = ptr - 1 THEN p[1] ELSE text[i]
    BY <1>1, <2>5, <2>9
  <2> HIDE DEF u
  <2>11. text' = [u EXCEPT ![ptr] = p[2]]
    BY <1>1, <2>1, <2>8, <2>10 DEF write_utf8
  <2>12. \A i \in 1 .. n : text'[i] = IF i = ptr THEN p[2] ELSE IF i = ptr - 1 THEN p[1] ELSE text[i]
    BY <2>10, <2>11
  <2>13. ASSUME NEW i \in 1 .. n PROVE text'[i] = At(ptr + 1, i)
    <3>1. CASE i = ptr
      BY <1>1, <2>5, <2>6, <2>12, <3>1
    <3>2. CASE i = ptr - 1
      BY <1>1, <2>5, <2>6, <2>12, <3>2
    <3>3. CASE i # ptr /\ i # ptr - 1
      BY <1>1, <1>2, <2>12, <3>3
    <3> QED BY <3>1, <3>2, <3>3
  <2> QED BY <1>3, <2>1, <2>13
<1>9. CASE UnshapeReturn
  <2>1. ptr = n + 1 /\ shaper_pc' = "idle" /\ text' = text
    BY <1>1, <1>9 DEF UnshapeReturn
  <2>2. LigatureAt(orig, n) = 0
    BY <1>1, LigaturePair
  <2>3. \A i \in 1 .. n : text[i] = R[i]
    <3>1. ASSUME NEW i \in 1 .. n PROVE At(ptr, i) = R[i]
      <4>1. ~(i >= ptr) /\ (i = ptr - 1 => i = n)
        <5> HIDE DEF n
        <5> QED BY <1>1, <2>1
      <4> QED BY <2>2, <4>1
    <3> QED BY <1>2, <3>1
  <2>4. R = [i \in 1 .. n |-> R[i]]
    BY <1>1 DEF R, Restored
  <2>5. text = [i \in 1 .. n |-> text[i]]
    BY <1>1
  <2> HIDE DEF n
  <2> QED BY <2>1, <2>3, <2>4, <2>5 DEF R
<1> QED BY <1>6, <1>7, <1>8, <1>9 DEF UnshapeIterate

-----------------------------------------------------------------------------
(* A shaped text stays as it is when it is shaped again, and a restored    *)
(* one becomes the same shaped text.                                       *)

LEMMA SeqOf ==
  ASSUME NEW n \in Nat, NEW f, DOMAIN f = 1 .. n, f = [i \in 1 .. n |-> f[i]],
         \A i \in 1 .. n : f[i] \in Nat
  PROVE  f \in Seq(Nat) /\ Len(f) = n
<1>1. f \in [1 .. n -> Nat]
  OBVIOUS
<1> QED BY <1>1

LEMMA ShapedAgain ==
  ASSUME NEW t, Start(t), \A i \in 1 .. Len(t) : t[i] \notin ARABIC_SHAPER_RANGE
  PROVE  Start(Shaped(t)) /\ Len(Shaped(t)) = Len(t) /\ Shaped(Shaped(t)) = Shaped(t)
<1> DEFINE n == Len(t)
           s == Shaped(t)
<1>1. n \in Nat /\ DOMAIN t = 1 .. n
  BY StartFacts
<1>2. ASSUME NEW i \in 1 .. n
      PROVE  s[i] \in uint16 /\ s[i] # 0 /\ s[i] \notin LigatureCodepts
             /\ find_lut_entry_by_codept(s[i]) = NULL
  <2>1. i \in Int
    OBVIOUS
  <2>2. CASE LigatureAt(t, i) # 0
    <3>1. s[i] = ZERO_WIDTH_CODEPT
      BY <2>2, ShapedRune
    <3>2. ZERO_WIDTH_CODEPT \notin LigatureCodepts
      BY RangeFacts, LigatureFacts
    <3> HIDE DEF s
    <3> QED BY <3>1, <3>2, RangeFacts, Alphabet
  <2>3. CASE Shapes(t, i)
    <3>1. s[i] = LastForm(t, i) /\ LastForm(t, i) \in FormCodepts(Entry(EntryAt(t, i)))
      BY <2>1, <2>3, ShapedRune, FormsAt
    <3>2. EntryAt(t, i) \in 1 .. Len(ARABIC_SHAPER_LUT)
      BY <2>1, <2>3, RuneRead
    <3>3. s[i] \in uint16 /\ s[i] \in TwoBytes /\ s[i] \in ARABIC_SHAPER_RANGE
          /\ s[i] \notin LigatureCodepts
      BY <3>1, <3>2, FormRead
    <3> HIDE DEF s
    <3> QED BY <3>3, RangeFacts, Alphabet
  <2>4. CASE LigatureAt(t, i) = 0 /\ ~Shapes(t, i)
    <3>1. s[i] = t[i]
      BY <2>4, ShapedRune
    <3>2. LigatureAt(t, i - 1) = 0 /\ ReadAt(t, i) = t[i]
      BY <2>1, <2>4, RuneRead
    <3>3. is_zero_width(t[i]) \/ find_lut_entry_by_codept(t[i]) = NULL
      BY <2>4, <3>2 DEF Shapes, Skips, EntryAt
    <3> HIDE DEF s
    <3> QED BY <3>1, <3>3, StartFacts, Alphabet
  <2> QED BY <2>2, <2>3, <2>4
<1>3. DOMAIN s = 1 .. n /\ s = [i \in 1 .. n |-> s[i]]
  BY <1>1 DEF Shaped
<1> HIDE DEF s
<1>4. s \in Seq(Nat) /\ Len(s) = n
  BY <1>1, <1>2, <1>3, SeqOf, CodeptFacts
<1>5. Start(s)
  BY <1>2, <1>4 DEF Start
<1>6. ASSUME NEW i \in 1 .. n PROVE Shaped(s)[i] = s[i]
  <2>1. i \in Int /\ i - 1 \in Int /\ (i - 1) + 1 = i /\ i \in 1 .. Len(s)
    BY <1>4
  <2>2. LigatureAt(s, i) = 0 /\ LigatureAt(s, i - 1) = 0
    BY <1>2, <1>5, <2>1, LigaturePair
  <2>3. EntryAt(s, i) = NULL
    <3>1. ReadAt(s, i) = s[i]
      BY <1>5, <2>1, <2>2, RuneRead
    <3> QED BY <1>2, <3>1 DEF EntryAt
  <2> QED BY <1>5, <2>1, <2>2, <2>3, ShapedRune DEF Shapes
<1>7. Shaped(s) = [i \in 1 .. n |-> Shaped(s)[i]]
  BY <1>3 DEF Shaped
<1>8. Shaped(s) = s
  <2> HIDE DEF n
  <2> QED BY <1>3, <1>6, <1>7
<1> QED BY <1>4, <1>5, <1>8 DEF s

\* Two texts of the same words: what is skipped, shaped and joined is the same.
SameWords(s, t) ==
  /\ Len(s) = Len(t) /\ DOMAIN s = DOMAIN t
  /\ \A i \in Int : /\ LigatureAt(s, i) = LigatureAt(t, i)
                    /\ Skips(s, i) <=> Skips(t, i)
                    /\ Shapes(s, i) <=> Shapes(t, i)
                    /\ Breaks(s, i) <=> Breaks(t, i)
                    /\ Shapes(t, i) => (EndsWord(s, i) <=> EndsWord(t, i))

LEMMA SameStates ==
  ASSUME NEW s, NEW t, SameWords(s, t), NEW i \in Int, Len(t) \in Nat
  PROVE  (Medial(s, i) <=> Medial(t, i)) /\ (Left(s, i) <=> Left(t, i))
<1>1. \A j \in Int : /\ Joins(s, j) <=> Joins(t, j)
                     /\ Skips(s, j) <=> Skips(t, j)
                     /\ Breaks(s, j) <=> Breaks(t, j)
  BY DEF SameWords, Joins
<1>2. \A p \in 1 .. i - 1 : p \in Int /\ \A m \in p + 1 .. i - 1 : m \in Int
  OBVIOUS
<1>3. \A p \in 1 .. i - 1 : OpenUntil(s, p, i) <=> OpenUntil(t, p, i)
  BY <1>1, <1>2 DEF OpenUntil
<1>4. Medial(s, i) <=> Medial(t, i)
  BY <1>3 DEF Medial
<1>5. \A j \in i + 1 .. Len(t) + 1 : j \in Int /\ \A m \in i + 1 .. j - 1 : m \in Int
  OBVIOUS
<1>6. Len(s) = Len(t)
  BY DEF SameWords
<1>7. Left(s, i) <=> Left(t, i)
  BY <1>1, <1>5, <1>6 DEF Left
<1> QED BY <1>4, <1>7

\* The letter unshape_text writes for a shaped one joins as that did, and has the
\* same form.
LEMMA RestoredLetter ==
  ASSUME FormsReadBack, NEW t, Start(t), NEW i \in 1 .. Len(t),
         Shapes(t, i), LigatureAt(t, i - 1) = 0
  PROVE  LET cp == Restored(t)[i]
             e == Entry(EntryAt(t, i))
             g == Entry(find_lut_entry_by_codept(cp))
         IN  /\ find_lut_entry_by_codept(cp) # NULL /\ cp \notin LigatureCodepts
             /\ SameForm(e, g, LastForm(t, i)) /\ (NoMedial(g) <=> NoMedial(e))
             /\ cp \in LigatureLetters => cp = t[i]
<1> DEFINE cp == Restored(t)[i]
           e == Entry(EntryAt(t, i))
           g == Entry(find_lut_entry_by_codept(cp))
           f == LastForm(t, i)
<1>1. i \in Int
  OBVIOUS
<1>2. /\ EntryAt(t, i) \in 1 .. Len(ARABIC_SHAPER_LUT) /\ e.true = ReadAt(t, i)
      /\ ReadAt(t, i) = t[i]
  BY <1>1, RuneRead
<1>3. f \in FormCodepts(e) /\ cp = find_base_codept_by_shaped(f)
  BY <1>1, FormsAt, ShapedRune
<1>4. t[i] \notin LigatureCodepts
  BY StartFacts
<1>5. find_lut_entry_by_codept(cp) # NULL /\ cp \notin LigatureCodepts
  BY <1>2, <1>3, <1>4, FormRead
<1>6. /\ SameForm(e, g, f) /\ (NoMedial(e) <=> NoMedial(g))
      /\ cp \in LigatureLetters \union LigatureCodepts => cp = e.true
  <2>1. EntryAt(t, i) \in DOMAIN ARABIC_SHAPER_LUT
    BY <1>2, EntryFacts
  <2> HIDE DEF cp
  <2> QED BY <1>3, <2>1 DEF FormsReadBack
<1> HIDE DEF cp, e, g, f
<1>7. /\ find_lut_entry_by_codept(cp) # NULL /\ cp \notin LigatureCodepts
      /\ SameForm(e, g, f) /\ (NoMedial(g) <=> NoMedial(e))
      /\ cp \in LigatureLetters => cp = t[i]
  BY <1>2, <1>5, <1>6
<1> QED BY <1>7 DEF cp, e, g, f

LEMMA RestoredStart ==
  ASSUME FormsReadBack, NEW t, Start(t)
  PROVE  /\ Start(Restored(t)) /\ Len(Restored(t)) = Len(t) /\ DOMAIN Restored(t) = 1 .. Len(t)
         /\ \A i \in Int : LigatureAt(Restored(t), i) = LigatureAt(t, i)
<1> DEFINE n == Len(t)
           s == Restored(t)
<1>1. n \in Nat /\ DOMAIN t = 1 .. n
  BY StartFacts
<1>2. ASSUME NEW i \in 1 .. n
      PROVE  /\ s[i] \in uint16 /\ s[i] # 0 /\ s[i] \notin LigatureCodepts
             /\ s[i] \in LigatureLetters => s[i] = t[i]
  <2>1. CASE Shapes(t, i) /\ LigatureAt(t, i - 1) = 0
    <3>1. /\ find_lut_entry_by_codept(s[i]) # NULL /\ s[i] \notin LigatureCodepts
          /\ s[i] \in LigatureLetters => s[i] = t[i]
      BY <2>1, RestoredLetter
    <3>2. s[i] \in TwoBytes
      BY <3>1, Alphabet
    <3> HIDE DEF s
    <3> QED BY <3>1, <3>2, RangeFacts
  <2>2. CASE ~(Shapes(t, i) /\ LigatureAt(t, i - 1) = 0)
    <3>1. s[i] = t[i]
      BY <2>2, ShapedRune
    <3> HIDE DEF s
    <3> QED BY <3>1, StartFacts
  <2> QED BY <2>1, <2>2
<1>3. DOMAIN s = 1 .. n /\ s = [i \in 1 .. n |-> s[i]]
  BY <1>1 DEF Restored
<1>4. \A i \in 1 .. n : ~Shapes(t, i) \/ LigatureAt(t, i - 1) # 0 => s[i] = t[i]
  BY ShapedRune
<1> HIDE DEF s
<1>5. s \in Seq(Nat) /\ Len(s) = n
  BY <1>1, <1>2, <1>3, SeqOf, CodeptFacts
<1>6. Start(s)
  BY <1>2, <1>5 DEF Start
<1>7. ASSUME NEW i \in Int, i \in 1 .. n, i + 1 \in 1 .. n, s[i] = t[i], s[i + 1] = t[i + 1]
      PROVE  LigatureAt(s, i) = LigatureAt(t, i)
  BY <1>1, <1>3, <1>7 DEF LigatureAt
<1>8. ASSUME NEW i \in Int PROVE LigatureAt(s, i) = LigatureAt(t, i)
  <2>1. CASE LigatureAt(t, i) # 0
    <3>1. i \in 1 .. n /\ i + 1 \in 1 .. n /\ ~Shapes(t, i) /\ (i + 1) - 1 = i
      <4>1. i \in 1 .. n /\ i + 1 \in 1 .. n
        BY <2>1, LigaturePair
      <4>2. ~Shapes(t, i)
        BY <2>1 DEF Shapes, Skips
      <4> QED BY <4>1, <4>2
    <3>2. s[i] = t[i] /\ s[i + 1] = t[i + 1]
      BY <1>4, <2>1, <3>1
    <3> QED BY <1>7, <3>1, <3>2
  <2>2. CASE LigatureAt(s, i) # 0
    <3>1. /\ i \in 1 .. Len(s) /\ i + 1 \in 1 .. Len(s)
          /\ s[i] \in LigatureLetters /\ s[i + 1] \in LigatureLetters
      BY <1>6, <2>2, LigaturePair
    <3>2. i \in 1 .. n /\ i + 1 \in 1 .. n
      BY <1>5, <3>1
    <3>3. s[i] = t[i] /\ s[i + 1] = t[i + 1]
      BY <1>2, <3>1, <3>2
    <3> QED BY <1>7, <3>2, <3>3
  <2> QED BY <2>1, <2>2
<1> QED BY <1>3, <1>5, <1>6, <1>8 DEF s

LEMMA RestoredWords ==
  ASSUME FormsReadBack, NEW t, Start(t)
  PROVE  SameWords(Restored(t), t)
<1> DEFINE n == Len(t)
           s == Restored(t)
<1>1. /\ n \in Nat /\ DOMAIN t = 1 .. n /\ DOMAIN s = 1 .. n /\ Start(s) /\ Len(s) = n
      /\ \A i \in Int : LigatureAt(s, i) = LigatureAt(t, i)
  BY StartFacts, RestoredStart
<1>2. ASSUME NEW i \in Int, ~(Shapes(t, i) /\ LigatureAt(t, i - 1) = 0)
      PROVE  ReadAt(s, i) = ReadAt(t, i)
  <2>1. CASE i \notin 1 .. n
    <3> HIDE DEF s
    <3> QED BY <1>1, <2>1 DEF ReadAt
  <2>2. CASE i \in 1 .. n
    <3>1. s[i] = t[i]
      BY <1>2, <2>2, ShapedRune
    <3>2. LigatureAt(s, i - 1) = LigatureAt(t, i - 1)
      BY <1>1, <1>2
    <3> HIDE DEF s
    <3> QED BY <1>1, <2>2, <3>1, <3>2 DEF ReadAt
  <2> QED BY <2>1, <2>2
<1>3. ASSUME NEW i \in Int, Shapes(t, i), LigatureAt(t, i - 1) = 0
      PROVE  /\ EntryAt(s, i) # NULL /\ EntryAt(t, i) # NULL
             /\ ~is_zero_width(ReadAt(s, i)) /\ ~is_zero_width(ReadAt(t, i))
             /\ NoMedial(Entry(EntryAt(s, i))) <=> NoMedial(Entry(EntryAt(t, i)))
  <2>1. i \in 1 .. n
    BY <1>3, RuneRead
  <2>2. /\ find_lut_entry_by_codept(s[i]) # NULL
        /\ NoMedial(Entry(find_lut_entry_by_codept(s[i]))) <=> NoMedial(Entry(EntryAt(t, i)))
    BY <1>3, <2>1, RestoredLetter
  <2>3. LigatureAt(s, i - 1) = 0
    BY <1>1, <1>3
  <2> HIDE DEF s
  <2>4. ReadAt(s, i) = s[i]
    BY <1>1, <2>1, <2>3, RuneRead
  <2>5. EntryAt(s, i) = find_lut_entry_by_codept(s[i])
    BY <2>4 DEF EntryAt
  <2>6. EntryAt(t, i) # NULL /\ ~is_zero_width(ReadAt(t, i))
    BY <1>3 DEF Shapes, Skips
  <2> QED BY <2>2, <2>4, <2>5, <2>6, Alphabet
<1> HIDE DEF s
<1>4. ASSUME NEW i \in Int
      PROVE  /\ EntryAt(s, i) = NULL <=> EntryAt(t, i) = NULL
             /\ is_zero_width(ReadAt(s, i)) <=> is_zero_width(ReadAt(t, i))
             /\ Shapes(t, i) =>
                  (NoMedial(Entry(EntryAt(s, i))) <=> NoMedial(Entry(EntryAt(t, i))))
  <2>1. CASE Shapes(t, i) /\ LigatureAt(t, i - 1) = 0
    BY <1>3, <2>1
  <2>2. CASE ~(Shapes(t, i) /\ LigatureAt(t, i - 1) = 0)
    <3>1. ReadAt(s, i) = ReadAt(t, i)
      BY <1>2, <2>2
    <3>2. EntryAt(s, i) = EntryAt(t, i)
      BY <3>1 DEF EntryAt
    <3> QED BY <3>1, <3>2
  <2> QED BY <2>1, <2>2
<1>5. ASSUME NEW i \in Int
      PROVE  /\ Skips(s, i) <=> Skips(t, i)
             /\ Shapes(s, i) <=> Shapes(t, i)
             /\ Breaks(s, i) <=> Breaks(t, i)
  BY <1>1, <1>4 DEF Skips, Shapes, Breaks
<1>6. ASSUME NEW i \in Int, Shapes(t, i) PROVE EndsWord(s, i) <=> EndsWord(t, i)
  <2>1. /\ EntryAt(s, i + 1) = NULL <=> EntryAt(t, i + 1) = NULL
        /\ is_zero_width(ReadAt(s, i + 1)) <=> is_zero_width(ReadAt(t, i + 1))
        /\ NoMedial(Entry(EntryAt(s, i))) <=> NoMedial(Entry(EntryAt(t, i)))
    BY <1>4, <1>6
  <2> QED BY <2>1 DEF EndsWord
<1> QED BY <1>1, <1>5, <1>6 DEF SameWords, s

LEMMA RestoredAgain ==
  ASSUME FormsReadBack, NEW t, Start(t)
  PROVE  Shaped(Restored(t)) = Shaped(t)
<1> DEFINE n == Len(t)
           s == Restored(t)
<1>1. /\ n \in Nat /\ DOMAIN t = 1 .. n /\ DOMAIN s = 1 .. n /\ Start(s) /\ Len(s) = n
      /\ SameWords(s, t)
  BY StartFacts, RestoredStart, RestoredWords
<1>2. ASSUME NEW i \in 1 .. n, Shapes(t, i) PROVE LastForm(s, i) = LastForm(t, i)
  <2> DEFINE Form(e) == e.isolated + (IF EndsWord(t, i)
                                      THEN IF Medial(t, i) THEN e.final ELSE 0
                                      ELSE IF Left(t, i) THEN e.final
                                      ELSE IF Medial(t, i) THEN e.medial ELSE e.initial)
             e == Entry(EntryAt(t, i))
             g == Entry(EntryAt(s, i))
  <2>1. i \in Int
    OBVIOUS
  <2>2. LastForm(t, i) = Form(e)
    BY DEF LastForm, FirstForm
  <2>3. /\ Medial(s, i) <=> Medial(t, i)
        /\ Left(s, i) <=> Left(t, i)
        /\ EndsWord(s, i) <=> EndsWord(t, i)
        /\ Shapes(s, i) /\ LigatureAt(s, i - 1) = LigatureAt(t, i - 1)
    BY <1>1, <1>2, <2>1, SameStates DEF SameWords
  <2>4. LastForm(s, i) = Form(g)
    <3> HIDE DEF s
    <3> QED BY <2>3 DEF LastForm, FirstForm
  <2>5. CASE LigatureAt(t, i - 1) # 0
    <3>1. ReadAt(t, i) = LigatureAt(t, i - 1)
      BY <2>1, <2>5, RuneRead
    <3>2. ReadAt(s, i) = LigatureAt(s, i - 1)
      BY <1>1, <2>1, <2>3, <2>5, RuneRead
    <3>3. EntryAt(s, i) = EntryAt(t, i)
      BY <2>3, <3>1, <3>2 DEF EntryAt
    <3> QED BY <2>2, <2>4, <3>3
  <2>6. CASE LigatureAt(t, i - 1) = 0
    <3>1. ReadAt(s, i) = s[i]
      BY <1>1, <2>1, <2>3, <2>6, RuneRead
    <3>2. EntryAt(s, i) = find_lut_entry_by_codept(s[i])
      BY <3>1 DEF EntryAt
    <3>3. SameForm(e, Entry(find_lut_entry_by_codept(s[i])), LastForm(t, i))
      BY <1>2, <2>6, RestoredLetter
    <3>4. SameForm(e, g, LastForm(t, i))
      BY <3>2, <3>3
    <3>5. e.isolated + 0 = e.isolated /\ g.isolated + 0 = g.isolated
      <4>1. /\ EntryAt(t, i) \in 1 .. Len(ARABIC_SHAPER_LUT)
            /\ EntryAt(s, i) \in 1 .. Len(ARABIC_SHAPER_LUT)
        BY <1>1, <1>2, <2>1, <2>3, RuneRead
      <4> QED BY <4>1, EntryFacts
    <3> HIDE DEF e, g, s
    <3>6. LastForm(t, i) = Form(g)
      BY <2>2, <3>4, <3>5 DEF SameForm
    <3> QED BY <2>4, <3>6
  <2> QED BY <2>5, <2>6
<1>3. ASSUME NEW i \in 1 .. n PROVE Shaped(s)[i] = Shaped(t)[i]
  <2>1. /\ i \in Int /\ i \in 1 .. Len(s) /\ LigatureAt(s, i) = LigatureAt(t, i)
        /\ Shapes(s, i) <=> Shapes(t, i)
    BY <1>1 DEF SameWords
  <2>2. ~Shapes(t, i) => s[i] = t[i]
    BY ShapedRune
  <2> HIDE DEF s
  <2> QED BY <1>1, <1>2, <2>1, <2>2, ShapedRune
<1> HIDE DEF s
<1>4. /\ Shaped(s) = [i \in 1 .. n |-> Shaped(s)[i]]
      /\ Shaped(t) = [i \in 1 .. n |-> Shaped(t)[i]]
  BY <1>1 DEF Shaped
<1>5. Shaped(s) = Shaped(t)
  <2> HIDE DEF n
  <2> QED BY <1>3, <1>4
<1> QED BY <1>5 DEF s

-----------------------------------------------------------------------------
(***************************************************************************)
(* Whatever the calls before, the buffer holds the application's text,     *)
(* that text shaped or that text restored, and every call measures the     *)
(* same.                                                                   *)
(***************************************************************************)
Versions == {orig, Shaped(orig), Restored(orig)}

MeasuredInv ==
  /\ measured \subseteq {Shaped(orig)}
  /\ measure_pc = "idle" => text \in Versions
  /\ measure_pc = "idle" /\ measured # {} /\ ~keeps_shape => text = Restored(orig)
  /\ measure_pc = "shape" => \E t \in Versions : \E k \in Int : Reading(t, k) /\ Writing(t, k)
  /\ measure_pc = "passthru" => text = Shaped(orig)
  /\ measure_pc = "unshape" => Unshaping(orig)

\* All versions of the text are shaped alike.
LEMMA VersionFacts ==
  ASSUME FormsReadBack, ShaperType, CallType, PlainText
  PROVE  /\ Start(orig) /\ \A i \in 1 .. Len(orig) : orig[i] \notin ARABIC_SHAPER_RANGE
         /\ \A t \in Versions : Start(t) /\ Len(t) = Len(orig) /\ Shaped(t) = Shaped(orig)
<1>1. orig \in Seq(Nat) /\ \A i \in 1 .. Len(orig) : orig[i] # 0
  BY TextFacts, TextsAssumption DEF CallType
<1>2. \A i \in 1 .. Len(orig) : orig[i] \in uint16 /\ orig[i] \notin ARABIC_SHAPER_RANGE
  BY TextFacts, PlainFacts DEF PlainText, Bmp, uint16
<1>3. Start(orig)
  BY <1>1, <1>2, LettersAreNoForms DEF Start
<1>4. /\ Start(Shaped(orig)) /\ Len(Shaped(orig)) = Len(orig)
      /\ Shaped(Shaped(orig)) = Shaped(orig)
  BY <1>2, <1>3, ShapedAgain
<1>5. /\ Start(Restored(orig)) /\ Len(Restored(orig)) = Len(orig)
      /\ Shaped(Restored(orig)) = Shaped(orig)
  BY <1>3, RestoredStart, RestoredAgain
<1> QED BY <1>2, <1>3, <1>4, <1>5 DEF Versions

LEMMA MeasuredInit == MeasureInit => MeasuredInv
BY DEF MeasureInit, MeasuredInv, Versions

LEMMA MeasuredNext ==
  ASSUME FormsReadBack, MeasureInv, PlainText, MeasuredInv, [MeasureNext]_all_measure_vars
  PROVE  MeasuredInv'
<1>1. /\ ShaperType /\ CallType
      /\ Start(orig) /\ \A i \in 1 .. Len(orig) : orig[i] \notin ARABIC_SHAPER_RANGE
      /\ \A t \in Versions : Start(t) /\ Len(t) = Len(orig) /\ Shaped(t) = Shaped(orig)
  BY VersionFacts DEF MeasureInv
<1>2. orig' = orig /\ platform' = platform
  BY DEF MeasureNext, Measure, ShapeStep, PassthruAndKeep, PassthruAndUnshape, UnshapeStep,
         all_measure_vars, measure_vars
<1>3. /\ Versions' = Versions /\ Shaped(orig)' = Shaped(orig) /\ Restored(orig)' = Restored(orig)
      /\ Shaped(orig') = Shaped(orig) /\ Restored(orig') = Restored(orig)
      /\ (overflow_mode' = overflow_mode => (keeps_shape' <=> keeps_shape))
  <2>1. Shaped(orig') = Shaped(orig) /\ Restored(orig') = Restored(orig)
    BY <1>2
  <2>2. Shaped(orig)' = Shaped(orig')
    BY Zenon DEF Shaped, LastForm, FirstForm, Shapes, Skips, EntryAt, ReadAt, LigatureAt,
                 Medial, Left, Breaks, EndsWord, Joins, OpenUntil
  <2>3. Restored(orig)' = Restored(orig')
    BY Zenon DEF Restored, LastForm, FirstForm, Shapes, Skips, EntryAt, ReadAt, LigatureAt,
                 Medial, Left, Breaks, EndsWord, Joins, OpenUntil
  <2> QED BY <1>2, <2>1, <2>2, <2>3 DEF Versions, keeps_shape, TEXT_UNSHAPE
<1>4. ASSUME NEW mode \in {0, COOKIE}, Measure(mode) PROVE MeasuredInv'
  <2>1. text \in Versions /\ ShapeCall /\ measure_pc' = "shape" /\ measured' = measured
    BY <1>4 DEF Measure, MeasuredInv
  <2>2. PICK t \in Versions : text = t
    BY <2>1
  <2>3. Reading(t, 0)' /\ Writing(t, 0)'
    BY <1>1, <2>1, <2>2, ShapingStarts
  <2>4. t \in Versions' /\ 0 \in Int
    BY <1>3, <2>2
  <2> QED BY <1>3, <2>1, <2>3, <2>4 DEF MeasuredInv
<1>5. CASE ShapeStep
  <2>1. measure_pc = "shape" /\ shaper_pc = "shape" /\ ShapeIterate /\ measured' = measured
    BY <1>1, <1>5 DEF ShapeStep, CallType
  <2>2. PICK t \in Versions : \E k \in Int : Reading(t, k) /\ Writing(t, k)
    BY <2>1 DEF MeasuredInv
  <2>3. PICK k \in Int : Reading(t, k) /\ Writing(t, k)
    BY <2>2
  <2>4. \/ shaper_pc' = "shape" /\ k + 1 \in Int /\ Reading(t, k + 1)' /\ Writing(t, k + 1)'
        \/ shaper_pc' = "idle" /\ text' = Shaped(t)
    BY <1>1, <1>2, <2>1, <2>2, <2>3, ShapingGoesOn
  <2>5. measure_pc' = IF shaper_pc' = "idle" THEN "passthru" ELSE "shape"
    BY <1>5 DEF ShapeStep
  <2> QED BY <1>1, <1>3, <2>1, <2>2, <2>4, <2>5 DEF MeasuredInv
<1>6. CASE PassthruAndKeep
  <2>1. /\ measure_pc = "passthru" /\ keeps_shape /\ measured' = measured \cup {text}
        /\ measure_pc' = "idle" /\ text' = text /\ overflow_mode' = overflow_mode
    BY <1>6 DEF PassthruAndKeep
  <2>2. text = Shaped(orig) /\ text \in Versions
    BY <2>1 DEF MeasuredInv, Versions
  <2> QED BY <1>3, <2>1, <2>2 DEF MeasuredInv
<1>7. CASE PassthruAndUnshape
  <2>1. /\ measure_pc = "passthru" /\ measured' = measured \cup {text}
        /\ measure_pc' = "unshape" /\ text' = text /\ ptr' = 1
    BY <1>7 DEF PassthruAndUnshape, UnshapeCall
  <2>2. text = Shaped(orig)
    BY <2>1 DEF MeasuredInv
  <2>3. Unshaping(orig)'
    <3>1. Len(orig) \in Nat /\ 1 \in 1 .. Len(orig) + 1 /\ \A i \in 1 .. Len(orig) : i >= 1
      BY <1>1, TextFacts
    <3> QED BY <1>2, <1>3, <2>1, <2>2, <3>1 DEF Unshaping
  <2> QED BY <1>3, <2>1, <2>2, <2>3 DEF MeasuredInv
<1>8. CASE UnshapeStep
  <2>1. /\ measure_pc = "unshape" /\ shaper_pc = "unshape" /\ UnshapeIterate
        /\ measured' = measured
        /\ measure_pc' = IF shaper_pc' = "idle" THEN "idle" ELSE "unshape"
    BY <1>1, <1>8 DEF UnshapeStep, CallType
  <2>2. Unshaping(orig)
    BY <2>1 DEF MeasuredInv
  <2>3. \/ shaper_pc' = "unshape" /\ Unshaping(orig)'
        \/ shaper_pc' = "idle" /\ text' = Restored(orig)
    BY <1>1, <1>2, <2>1, <2>2, Unshapes
  <2>4. Restored(orig) \in Versions
    BY DEF Versions
  <2> QED BY <1>3, <2>1, <2>3, <2>4 DEF MeasuredInv
<1>9. CASE UNCHANGED all_measure_vars
  <2>1. UNCHANGED <<text, orig, ptr, next_rune_ptr, codept_next, next_lut_entry, late_finalize_ptr,
                    late_finalize_lut_entry, state, measure_pc, overflow_mode, measured>>
    BY <1>9 DEF all_measure_vars, measure_vars, shaper_locals
  <2>2. \A t, k : (Reading(t, k) /\ Writing(t, k)) => (Reading(t, k) /\ Writing(t, k))'
    BY <2>1 DEF Reading, Writing
  <2>3. Unshaping(orig) => Unshaping(orig)'
    BY <1>3, <2>1 DEF Unshaping
  <2> QED BY <1>3, <2>1, <2>2, <2>3 DEF MeasuredInv
<1> QED BY <1>4, <1>5, <1>6, <1>7, <1>8, <1>9 DEF MeasureNext

LEMMA MeasuredInvariance ==
  ASSUME FormsReadBack PROVE MeasureSpec => [](MeasureInv /\ (PlainText => MeasuredInv))
<1>1. MeasureInit => MeasureInv /\ (PlainText => MeasuredInv)
  BY MeasureInit_Inv, MeasuredInit
<1>2. MeasureInv /\ (PlainText => MeasuredInv) /\ [MeasureNext]_all_measure_vars =>
        (MeasureInv /\ (PlainText => MeasuredInv))'
  <2>1. [MeasureNext]_all_measure_vars => (PlainText' <=> PlainText)
    BY DEF MeasureNext, Measure, ShapeStep, PassthruAndKeep, PassthruAndUnshape, UnshapeStep,
           all_measure_vars, measure_vars, PlainText, Bmp, Unshaped
  <2> QED BY <2>1, MeasureNext_Inv, MeasuredNext
<1> QED BY <1>1, <1>2, PTL DEF MeasureSpec

\* A measurement does not depend on the earlier ones, nor on whether they left the
\* buffer shaped: shape_text leaves a shaped text alone, and makes of a restored one
\* what it made of the application's, although unshape_text may have put another
\* letter of the same glyph there.
THEOREM MeasureAlwaysStable == ASSUME FormsReadBack PROVE MeasureSpec => []MeasureStable
<1>1. MeasureInv /\ (PlainText => MeasuredInv) => MeasureStable
  <2>1. SUFFICES ASSUME PlainText => MeasuredInv, Unshaped(orig), Bmp(orig),
                        NEW m1 \in measured, NEW m2 \in measured
                 PROVE  m1 = m2
    BY DEF MeasureStable
  <2> QED BY <2>1 DEF PlainText, MeasuredInv
<1> QED BY <1>1, MeasuredInvariance, PTL

\* After a call without the cookie the application has its text back, whatever the
\* calls before it left, but for letters that share a glyph.
THEOREM TextAlwaysGivenBack == ASSUME FormsReadBack PROVE MeasureSpec => []TextGivenBack
<1>1. MeasureInv /\ (PlainText => MeasuredInv) => TextGivenBack
  <2>1. SUFFICES ASSUME MeasureInv, PlainText => MeasuredInv, measure_pc = "idle", measured # {},
                        ~keeps_shape, Unshaped(orig), Bmp(orig), NEW i \in DOMAIN orig
                 PROVE  text[i] = orig[i] \/ ShareForm(text[i], orig[i])
    BY DEF TextGivenBack
  <2>2. PlainText /\ ShaperType /\ CallType /\ text = Restored(orig)
    BY <2>1 DEF PlainText, MeasuredInv, MeasureInv
  <2>3. Start(orig) /\ i \in 1 .. Len(orig) /\ i \in Int
    BY <2>1, <2>2, VersionFacts, TextFacts
  <2>4. CASE Shapes(orig, i) /\ LigatureAt(orig, i - 1) = 0
    <3> DEFINE k == EntryAt(orig, i)
               f == LastForm(orig, i)
    <3>1. k \in 1 .. Len(ARABIC_SHAPER_LUT) /\ Entry(k).true = orig[i]
      BY <2>3, <2>4, RuneRead
    <3>2. f \in FormCodepts(Entry(k)) /\ text[i] = find_base_codept_by_shaped(f)
      BY <2>2, <2>3, <2>4, FormsAt, ShapedRune
    <3>3. f \in FormsOf(text[i])
      BY <3>1, <3>2, FormRead
    <3>4. f \in FormsOf(orig[i])
      BY <3>1, <3>2, EntryFacts DEF FormsOf
    <3> QED BY <3>3, <3>4 DEF ShareForm
  <2>5. CASE ~(Shapes(orig, i) /\ LigatureAt(orig, i - 1) = 0)
    BY <2>2, <2>3, <2>5, ShapedRune
  <2> QED BY <2>4, <2>5
<1> QED BY <1>1, MeasuredInvariance, PTL

-----------------------------------------------------------------------------
(***************************************************************************)
(* What is measured is joined as Unicode says.                             *)
(***************************************************************************)

\* The reference's view of a rune: what shape_text reads there, with its class.
LEMMA LigatedRune ==
  ASSUME JoiningClassesAgree, NEW t, Start(t), AllJoin(t), NEW i \in 1 .. Len(t)
  PROVE  LET u == Ligated(t)
         IN  /\ LigatureAt(t, i) # 0 => u[i] = ZERO_WIDTH_CODEPT
             /\ LigatureAt(t, i) = 0 => u[i] = ReadAt(t, i)
             /\ Mark(u[i]) <=> Skips(t, i)
             /\ u[i] \in JoinsBefore <=> Shapes(t, i)
             /\ u[i] \in JoinsAfter <=> Shapes(t, i) /\ ~NoMedial(Entry(EntryAt(t, i)))
<1> DEFINE u == Ligated(t)
<1>1. i \in Int /\ i \in DOMAIN t
  BY StartFacts
<1>2. u[i] = IF LigatureAt(t, i) # 0 THEN ZERO_WIDTH_CODEPT
             ELSE IF LigatureAt(t, i - 1) # 0 THEN LigatureAt(t, i - 1) ELSE t[i]
  BY <1>1 DEF Ligated
<1> HIDE DEF u
<1>3. /\ LigatureAt(t, i) # 0 => u[i] = ZERO_WIDTH_CODEPT
      /\ LigatureAt(t, i) = 0 => u[i] = ReadAt(t, i)
  BY <1>1, <1>2, RuneRead
<1>4. Mark(u[i]) <=> is_zero_width(u[i])
  <2>1. ZERO_WIDTH_CODEPT \in uint16
    BY RangeFacts
  <2>2. ReadAt(t, i) \in uint16
    BY <1>1, RuneRead
  <2>3. u[i] \in uint16
    BY <1>3, <2>1, <2>2
  <2> QED BY <2>3, CodeptFacts DEF Mark
<1>5. Mark(u[i]) <=> Skips(t, i)
  BY <1>3, <1>4, Alphabet DEF Skips
<1>6. u[i] \in JoinsBefore => Shapes(t, i)
  <2>1. SUFFICES ASSUME u[i] \in JoinsBefore PROVE Shapes(t, i)
    OBVIOUS
  <2>2. \E k \in 1 .. Len(ARABIC_SHAPER_LUT) : Entry(k).true = u[i]
    BY <2>1, EntryFacts DEF JoiningClassesAgree
  <2>3. find_lut_entry_by_codept(u[i]) # NULL /\ ~is_zero_width(u[i])
    BY <2>2, Alphabet
  <2>4. LigatureAt(t, i) = 0 /\ u[i] = ReadAt(t, i)
    BY <1>3, <2>3, Alphabet
  <2> QED BY <2>3, <2>4 DEF Shapes, Skips, EntryAt
<1>7. ASSUME Shapes(t, i)
      PROVE  /\ u[i] \in JoinsBefore
             /\ u[i] \in JoinsAfter <=> ~NoMedial(Entry(EntryAt(t, i)))
  <2>1. /\ LigatureAt(t, i) = 0 /\ u[i] = ReadAt(t, i)
        /\ EntryAt(t, i) \in 1 .. Len(ARABIC_SHAPER_LUT) /\ Entry(EntryAt(t, i)).true = u[i]
    BY <1>1, <1>3, <1>7, RuneRead
  <2>2. u[i] \in JoinsBefore
    <3>1. CASE LigatureAt(t, i - 1) # 0
      BY <1>1, <2>1, <3>1, RuneRead DEF JoiningClassesAgree, JoinsBefore
    <3>2. CASE LigatureAt(t, i - 1) = 0
      <4>1. u[i] = t[i] /\ codept(t[i]) = t[i]
        BY <1>2, <2>1, <3>2, StartFacts
      <4>2. find_lut_entry_by_codept(codept(t[i])) # NULL
        BY <1>7, <2>1, <4>1 DEF Shapes, EntryAt
      <4> QED BY <1>1, <4>1, <4>2 DEF AllJoin
    <3> QED BY <3>1, <3>2
  <2>3. NoMedial(Entry(EntryAt(t, i))) <=> u[i] \in RightJoining
    BY <2>1, <2>2, EntryFacts DEF JoiningClassesAgree
  <2>4. u[i] \in JoinsAfter <=> u[i] \notin RightJoining
    BY <2>2 DEF JoiningClassesAgree, JoinsBefore, JoinsAfter
  <2> QED BY <2>2, <2>3, <2>4
<1>8. u[i] \in JoinsAfter => u[i] \in JoinsBefore
  BY DEF JoinsAfter, JoinsBefore
<1>9. /\ u[i] \in JoinsBefore <=> Shapes(t, i)
      /\ u[i] \in JoinsAfter <=> Shapes(t, i) /\ ~NoMedial(Entry(EntryAt(t, i)))
  BY <1>6, <1>7, <1>8
<1> QED BY <1>3, <1>5, <1>9 DEF u

\* Two letters with nothing but marks and blanked runes between them: shape_text does
\* not see the end of the word at the first one.
LEMMA NoEndBetween ==
  ASSUME NEW t, Start(t), NEW p \in Int, NEW i \in Int, p < i,
         \A m \in p + 1 .. i - 1 : Skips(t, m), Shapes(t, i), Shapes(t, p)
  PROVE  /\ ~Left(t, p)
         /\ EndsWord(t, p) <=> NoMedial(Entry(EntryAt(t, p)))
<1>1. ~Skips(t, i) /\ ~Breaks(t, i) /\ EntryAt(t, i) # NULL
  BY DEF Shapes, Breaks
<1>2. ~Left(t, p)
  <2>1. SUFFICES ASSUME NEW j \in p + 1 .. Len(t) + 1, Breaks(t, j),
                        \A m \in p + 1 .. j - 1 : Skips(t, m)
                 PROVE  FALSE
    BY DEF Left
  <2>2. Len(t) \in Nat /\ ~Skips(t, j)
    BY <2>1, StartFacts DEF Breaks
  <2>3. j \notin p + 1 .. i - 1 /\ i \notin p + 1 .. j - 1 /\ j # i
    BY <1>1, <2>1, <2>2
  <2> QED BY <2>1, <2>2, <2>3
<1>3. EntryAt(t, p + 1) # NULL \/ is_zero_width(ReadAt(t, p + 1))
  <2>1. CASE p + 1 = i
    BY <1>1, <2>1
  <2>2. CASE p + 1 # i
    <3>1. Skips(t, p + 1)
      BY <2>2
    <3>2. LigatureAt(t, p + 1) # 0 => EntryAt(t, p + 1) # NULL
      <4>1. SUFFICES ASSUME LigatureAt(t, p + 1) # 0 PROVE EntryAt(t, p + 1) # NULL
        OBVIOUS
      <4>2. p + 1 \in Int
        OBVIOUS
      <4>3. ReadAt(t, p + 1) = t[p + 1]
        BY <4>1, <4>2, RuneRead
      <4>4. find_lut_entry_by_codept(t[p + 1]) # NULL
        BY <4>1, <4>2, LigaturePair
      <4> QED BY <4>3, <4>4 DEF EntryAt
    <3> QED BY <3>1, <3>2 DEF Skips
  <2> QED BY <2>1, <2>2
<1> QED BY <1>2, <1>3 DEF EndsWord

\* A letter joins to the one before it in the text of the reference if and only if
\* shape_text comes to it in the medial state.
LEMMA BeforeAgrees ==
  ASSUME JoiningClassesAgree, NEW t, Start(t), AllJoin(t), NEW i \in 1 .. Len(t), Shapes(t, i)
  PROVE  LET u == Ligated(t)
         IN  (\E j \in BaseBefore(u, i) : u[j] \in JoinsAfter) <=> Medial(t, i)
<1> DEFINE u == Ligated(t)
<1>1. Len(t) \in Nat /\ i \in Int
  BY StartFacts
<1>2. ASSUME NEW m \in 1 .. Len(t)
      PROVE  /\ Mark(u[m]) <=> Skips(t, m)
             /\ u[m] \in JoinsAfter <=> Shapes(t, m) /\ ~NoMedial(Entry(EntryAt(t, m)))
  BY LigatedRune
<1> HIDE DEF u
<1>3. ASSUME NEW j \in BaseBefore(u, i), u[j] \in JoinsAfter PROVE Medial(t, i)
  <2>1. j \in 1 .. i - 1 /\ \A k \in j + 1 .. i - 1 : Mark(u[k])
    BY DEF BaseBefore
  <2>2. j \in 1 .. Len(t) /\ j \in Int /\ \A k \in j + 1 .. i - 1 : k \in 1 .. Len(t)
    BY <1>1, <2>1
  <2>3. Shapes(t, j) /\ ~NoMedial(Entry(EntryAt(t, j))) /\ \A k \in j + 1 .. i - 1 : Skips(t, k)
    BY <1>2, <1>3, <2>1, <2>2
  <2>4. ~EndsWord(t, j)
    BY <1>1, <2>1, <2>2, <2>3, NoEndBetween
  <2> QED BY <2>1, <2>3, <2>4 DEF Medial, OpenUntil, Joins
<1>4. ASSUME NEW p \in 1 .. i - 1, OpenUntil(t, p, i)
      PROVE  p \in BaseBefore(u, i) /\ u[p] \in JoinsAfter
  <2>1. Shapes(t, p) /\ ~EndsWord(t, p) /\ \A m \in p + 1 .. i - 1 : Skips(t, m)
    BY <1>4 DEF OpenUntil, Joins
  <2>2. p \in 1 .. Len(t) /\ \A k \in p + 1 .. i - 1 : k \in 1 .. Len(t)
    BY <1>1, <1>4
  <2>3. ~Skips(t, p) /\ ~NoMedial(Entry(EntryAt(t, p)))
    BY <2>1 DEF Shapes, EndsWord
  <2>4. ~Mark(u[p]) /\ u[p] \in JoinsAfter /\ \A k \in p + 1 .. i - 1 : Mark(u[k])
    BY <1>2, <2>1, <2>2, <2>3
  <2> QED BY <1>4, <2>4 DEF BaseBefore
<1>5. (\E j \in BaseBefore(u, i) : u[j] \in JoinsAfter) <=> Medial(t, i)
  BY <1>3, <1>4 DEF Medial
<1> QED BY <1>5 DEF u

\* It joins to the one after it if and only if shape_text neither sees the end of the
\* word there nor finds it later.
LEMMA AfterAgrees ==
  ASSUME JoiningClassesAgree, NEW t, Start(t), AllJoin(t), NEW i \in 1 .. Len(t), Shapes(t, i)
  PROVE  LET u == Ligated(t)
         IN  (u[i] \in JoinsAfter /\ \E j \in BaseAfter(u, i) : u[j] \in JoinsBefore)
               <=> ~EndsWord(t, i) /\ ~Left(t, i)
<1> DEFINE u == Ligated(t)
           n == Len(t)
<1>1. n \in Nat /\ i \in Int /\ Len(u) = n
  <2>1. n \in Nat /\ DOMAIN t = 1 .. n
    BY StartFacts
  <2>2. u = [k \in 1 .. n |-> u[k]] /\ DOMAIN u = 1 .. n
    BY <2>1 DEF Ligated
  <2> QED BY <2>1, <2>2
<1>2. ASSUME NEW m \in 1 .. n
      PROVE  /\ Mark(u[m]) <=> Skips(t, m)
             /\ u[m] \in JoinsBefore <=> Shapes(t, m)
             /\ u[m] \in JoinsAfter <=> Shapes(t, m) /\ ~NoMedial(Entry(EntryAt(t, m)))
  BY LigatedRune
<1> HIDE DEF u
<1>3. ASSUME u[i] \in JoinsAfter, NEW j \in BaseAfter(u, i), u[j] \in JoinsBefore
      PROVE  ~EndsWord(t, i) /\ ~Left(t, i)
  <2>1. j \in i + 1 .. n /\ \A k \in i + 1 .. j - 1 : Mark(u[k])
    BY <1>1 DEF BaseAfter
  <2>2. j \in 1 .. n /\ j \in Int /\ i < j /\ \A k \in i + 1 .. j - 1 : k \in 1 .. n
    BY <1>1, <2>1
  <2>3. /\ Shapes(t, j) /\ ~NoMedial(Entry(EntryAt(t, i)))
        /\ \A k \in i + 1 .. j - 1 : Skips(t, k)
    BY <1>2, <1>3, <2>1, <2>2
  <2> QED BY <1>1, <2>2, <2>3, NoEndBetween
<1>4. ASSUME ~EndsWord(t, i), ~Left(t, i)
      PROVE  u[i] \in JoinsAfter /\ \E j \in BaseAfter(u, i) : u[j] \in JoinsBefore
  <2> DEFINE bases == { j \in i + 1 .. n + 1 : ~Skips(t, j) }
  <2>1. u[i] \in JoinsAfter
    BY <1>2, <1>4 DEF EndsWord
  <2>2. n + 1 \in bases
    <3>1. n + 1 \in Int /\ n + 1 \notin 1 .. n /\ n + 1 \in i + 1 .. n + 1
      BY <1>1
    <3>2. Breaks(t, n + 1)
      BY <3>1, RuneRead
    <3> QED BY <3>1, <3>2 DEF Breaks
  <2>3. PICK j \in bases : \A k \in bases : j <= k
    <3>1. bases \subseteq Nat /\ bases # {}
      BY <1>1, <2>2
    <3> HIDE DEF bases
    <3> QED BY <3>1, LeastNat
  <2>4. j \in i + 1 .. n + 1 /\ ~Skips(t, j) /\ \A k \in i + 1 .. j - 1 : Skips(t, k)
    <3>1. j \in i + 1 .. n + 1 /\ ~Skips(t, j)
      OBVIOUS
    <3>2. \A k \in i + 1 .. j - 1 : k \in i + 1 .. n + 1 /\ ~(j <= k)
      BY <1>1, <3>1
    <3> QED BY <2>3, <3>1, <3>2
  <2> HIDE DEF bases
  <2>5. Shapes(t, j)
    BY <1>4, <2>4 DEF Left, Breaks, Shapes
  <2>6. j \in Int
    BY <1>1, <2>4
  <2>7. j \in 1 .. n
    BY <2>5, <2>6, RuneRead
  <2>8. \A k \in i + 1 .. j - 1 : k \in 1 .. n
    BY <1>1, <2>7
  <2>9. u[j] \in JoinsBefore /\ ~Mark(u[j]) /\ \A k \in i + 1 .. j - 1 : Mark(u[k])
    BY <1>2, <2>4, <2>5, <2>7, <2>8
  <2>10. j \in i + 1 .. Len(u)
    BY <1>1, <2>4, <2>7
  <2> QED BY <2>1, <2>9, <2>10 DEF BaseAfter
<1>5. (u[i] \in JoinsAfter /\ \E j \in BaseAfter(u, i) : u[j] \in JoinsBefore)
        <=> ~EndsWord(t, i) /\ ~Left(t, i)
  BY <1>3, <1>4
<1> QED BY <1>5 DEF u

\* Where shape_text finds the end of the word only later, diacritics hid it.
LEMMA LateMarks ==
  ASSUME JoiningClassesAgree, NEW t, Start(t), AllJoin(t), NEW i \in 1 .. Len(t),
         Shapes(t, i), ~EndsWord(t, i), Left(t, i)
  PROVE  MarksEndWord(t)
<1> DEFINE n == Len(t)
<1>1. n \in Nat /\ i \in Int /\ DOMAIN t = 1 .. n
  BY StartFacts
<1>2. PICK j \in i + 1 .. n + 1 : Breaks(t, j) /\ \A m \in i + 1 .. j - 1 : Skips(t, m)
  BY DEF Left
<1>3. j \in Int /\ ~Skips(t, j) /\ EntryAt(t, j) = NULL /\ ~Shapes(t, j)
  BY <1>1, <1>2 DEF Breaks, Shapes
<1>4. ASSUME NEW m \in i + 1 .. j - 1
      PROVE  m \in 1 .. n /\ LigatureAt(t, m) = 0 /\ is_zero_width(t[m])
  <2>1. m \in 1 .. n /\ m \in Int /\ m + 1 \in Int /\ (m + 1) - 1 = m
    BY <1>1, <1>2
  <2>2. LigatureAt(t, m) = 0
    <3>1. SUFFICES ASSUME LigatureAt(t, m) # 0 PROVE FALSE
      OBVIOUS
    <3>2. m + 1 \in 1 .. n
      BY <2>1, <3>1, LigaturePair
    <3>3. Shapes(t, m + 1)
      BY <2>1, <3>1, <3>2, RuneRead
    <3>4. ~Skips(t, m + 1) /\ m + 1 # j
      BY <1>3, <3>3 DEF Shapes
    <3>5. m + 1 \in i + 1 .. j - 1
      BY <1>1, <1>2, <1>3, <1>4, <3>4
    <3> QED BY <1>2, <3>4, <3>5
  <2>3. is_zero_width(ReadAt(t, m))
    BY <1>2, <2>2 DEF Skips
  <2>4. LigatureAt(t, m - 1) = 0
    <3>1. SUFFICES ASSUME LigatureAt(t, m - 1) # 0 PROVE FALSE
      OBVIOUS
    <3>2. ReadAt(t, m) \in LigatureCodepts
      BY <2>1, <3>1, RuneRead
    <3> QED BY <2>3, <3>2, Alphabet
  <2>5. ReadAt(t, m) = t[m]
    BY <2>1, <2>4, RuneRead
  <2> QED BY <2>1, <2>2, <2>3, <2>5
<1>5. j \in 1 .. n => ReadAt(t, j) = t[j] /\ ~is_zero_width(t[j]) /\ find_lut_entry_by_codept(t[j]) = NULL
  <2>1. SUFFICES ASSUME j \in 1 .. n
                 PROVE  /\ ReadAt(t, j) = t[j] /\ ~is_zero_width(t[j])
                        /\ find_lut_entry_by_codept(t[j]) = NULL
    OBVIOUS
  <2>2. LigatureAt(t, j - 1) = 0
    BY <1>3, <2>1, RuneRead
  <2>3. ReadAt(t, j) = t[j]
    BY <1>3, <2>1, <2>2, RuneRead
  <2> QED BY <1>3, <2>3 DEF Skips, EntryAt
<1>6. i + 1 \in i + 1 .. j - 1
  <2>1. i + 1 # j
    BY <1>3 DEF EndsWord, Skips
  <2> QED BY <1>1, <1>2, <2>1
<1>7. t[i] \in JoinsAfter
  <2>1. ~NoMedial(Entry(EntryAt(t, i)))
    BY DEF EndsWord
  <2>2. Ligated(t)[i] \in JoinsAfter /\ LigatureAt(t, i) = 0 /\ Ligated(t)[i] = ReadAt(t, i)
    BY <1>1, <2>1, LigatedRune, RuneRead
  <2>3. LigatureAt(t, i - 1) = 0
    <3>1. SUFFICES ASSUME LigatureAt(t, i - 1) # 0 PROVE FALSE
      OBVIOUS
    <3>2. ReadAt(t, i) \in LigatureCodepts
      BY <1>1, <3>1, RuneRead
    <3> QED BY <2>2, <3>2 DEF JoiningClassesAgree
  <2> QED BY <1>1, <2>2, <2>3, RuneRead
<1>8. \A m \in 1 .. n : Mark(t[m]) <=> is_zero_width(t[m])
  BY StartFacts DEF Mark
<1>9. \A cp \in JoinsBefore : find_lut_entry_by_codept(cp) # NULL /\ ~is_zero_width(cp)
  <2>1. \A cp \in JoinsBefore : \E k \in 1 .. Len(ARABIC_SHAPER_LUT) : Entry(k).true = cp
    BY EntryFacts DEF JoiningClassesAgree
  <2> QED BY <2>1, Alphabet
<1> HIDE DEF n
<1>10. ASSUME NEW b \in BaseAfter(t, i) PROVE t[b] \notin JoinsBefore
  <2>1. b \in i + 1 .. n /\ ~Mark(t[b]) /\ \A m \in i + 1 .. b - 1 : Mark(t[m])
    BY DEF BaseAfter, n
  <2>2. b \in 1 .. n /\ b \in Int
    BY <1>1, <2>1
  <2>3. CASE b < j
    BY <1>1, <1>3, <1>4, <1>8, <2>1, <2>2, <2>3
  <2>4. CASE b = j
    BY <1>5, <1>9, <2>2, <2>4
  <2>5. CASE j < b
    <3>1. j \in i + 1 .. b - 1 /\ j \in 1 .. n
      BY <1>1, <1>2, <2>1, <2>5
    <3> QED BY <1>5, <1>8, <2>1, <3>1
  <2> QED BY <1>3, <2>2, <2>3, <2>4, <2>5
<1>11. i + 1 \in 1 .. n /\ Mark(t[i + 1])
  BY <1>4, <1>6, <1>8
<1>12. i \in 1 .. n
  BY DEF n
<1> QED BY <1>1, <1>7, <1>10, <1>11, <1>12 DEF MarksEndWord

LEMMA ShapedJoined ==
  ASSUME JoiningClassesAgree, NEW t, Start(t), AllJoin(t), ~MarksEndWord(t)
  PROVE  Shaped(t) = Joined(t)
<1> DEFINE n == Len(t)
           u == Ligated(t)
           before(i) == u[i] \in JoinsBefore /\ \E j \in BaseBefore(u, i) : u[j] \in JoinsAfter
           after(i) == u[i] \in JoinsAfter /\ \E j \in BaseAfter(u, i) : u[j] \in JoinsBefore
           J(i) == IF find_lut_entry_by_codept(u[i]) = NULL \/ Mark(u[i]) THEN u[i]
                   ELSE LET e == Entry(find_lut_entry_by_codept(u[i]))
                        IN  e.isolated + (IF before(i) THEN IF after(i) THEN e.medial ELSE e.final
                                          ELSE IF after(i) THEN e.initial ELSE 0)
<1>1. n \in Nat /\ DOMAIN t = 1 .. n /\ DOMAIN u = 1 .. n
  BY StartFacts DEF Ligated
<1>2. Joined(t) = [i \in 1 .. n |-> J(i)]
  <2>1. Joined(t) = [i \in DOMAIN u |-> J(i)]
    BY DEF Joined
  <2> QED BY <1>1, <2>1
<1>3. ASSUME NEW i \in 1 .. n PROVE Shaped(t)[i] = J(i)
  <2>1. /\ LigatureAt(t, i) # 0 => u[i] = ZERO_WIDTH_CODEPT
        /\ LigatureAt(t, i) = 0 => u[i] = ReadAt(t, i)
        /\ Mark(u[i]) <=> Skips(t, i)
        /\ u[i] \in JoinsBefore <=> Shapes(t, i)
    BY LigatedRune
  <2>2. i \in Int
    OBVIOUS
  <2>3. CASE LigatureAt(t, i) # 0
    <3>1. Mark(u[i]) /\ Shaped(t)[i] = ZERO_WIDTH_CODEPT
      BY <2>1, <2>3, ShapedRune DEF Skips
    <3> HIDE DEF u
    <3> QED BY <2>1, <2>3, <3>1
  <2>4. CASE LigatureAt(t, i) = 0 /\ ~Shapes(t, i)
    <3>1. LigatureAt(t, i - 1) = 0
      BY <2>2, <2>4, RuneRead
    <3>2. ReadAt(t, i) = t[i]
      BY <2>2, <3>1, RuneRead
    <3>3. u[i] = t[i]
      BY <2>1, <2>4, <3>2
    <3>4. Shaped(t)[i] = t[i]
      BY <2>4, ShapedRune
    <3>5. find_lut_entry_by_codept(u[i]) = NULL \/ Mark(u[i])
      BY <2>1, <2>4 DEF Shapes, EntryAt
    <3> HIDE DEF u
    <3> QED BY <3>3, <3>4, <3>5
  <2>5. CASE Shapes(t, i)
    <3> DEFINE e == Entry(EntryAt(t, i))
    <3>1. LigatureAt(t, i) = 0 /\ ~Mark(u[i]) /\ EntryAt(t, i) # NULL
      BY <2>1, <2>5 DEF Shapes, Skips
    <3>2. find_lut_entry_by_codept(u[i]) = EntryAt(t, i)
      BY <2>1, <3>1 DEF EntryAt
    <3>3. before(i) <=> Medial(t, i)
      BY <2>1, <2>5, BeforeAgrees
    <3>4. ~(~EndsWord(t, i) /\ Left(t, i))
      BY <2>5, LateMarks
    <3>5. after(i) <=> ~EndsWord(t, i)
      BY <2>5, <3>4, AfterAgrees
    <3>6. Shaped(t)[i] = FirstForm(t, i)
      BY <2>5, <3>4, ShapedRune DEF LastForm
    <3>7. FirstForm(t, i) =
            e.isolated + (IF Medial(t, i) THEN IF EndsWord(t, i) THEN e.final ELSE e.medial
                          ELSE IF EndsWord(t, i) THEN 0 ELSE e.initial)
      BY DEF FirstForm
    <3>8. J(i) = e.isolated + (IF before(i) THEN IF after(i) THEN e.medial ELSE e.final
                               ELSE IF after(i) THEN e.initial ELSE 0)
      BY <3>1, <3>2
    <3> HIDE DEF e, before, after, J
    <3> QED BY <3>3, <3>5, <3>6, <3>7, <3>8
  <2> QED BY <2>3, <2>4, <2>5
<1> HIDE DEF J
<1>4. Shaped(t) = [i \in 1 .. n |-> Shaped(t)[i]]
  BY <1>1 DEF Shaped
<1> HIDE DEF n
<1> QED BY <1>2, <1>3, <1>4

\* The firmware measures cursive text joined as Unicode says: on every call, and on
\* every version of the text the calls before may have left in the buffer.
THEOREM MeasuresAlwaysJoined ==
  ASSUME FormsReadBack, JoiningClassesAgree PROVE MeasureSpec => []MeasuresJoined
<1>1. MeasureInv /\ (PlainText => MeasuredInv) => MeasuresJoined
  <2>1. SUFFICES ASSUME MeasureInv, PlainText => MeasuredInv, measure_pc = "passthru",
                        AllJoin(orig), Unshaped(orig), Bmp(orig), ~MarksEndWord(orig)
                 PROVE  text = Joined(orig)
    BY DEF MeasuresJoined
  <2>2. PlainText /\ ShaperType /\ CallType /\ text = Shaped(orig)
    BY <2>1 DEF PlainText, MeasuredInv, MeasureInv
  <2>3. Start(orig)
    BY <2>2, VersionFacts
  <2> QED BY <2>1, <2>2, <2>3, ShapedJoined
<1> QED BY <1>1, MeasuredInvariance, PTL
=============================================================================
