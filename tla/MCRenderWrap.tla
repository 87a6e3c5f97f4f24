---------------------------- MODULE MCRenderWrap ----------------------------
(* Small instances of RenderWrap for TLC. *)
EXTENDS RenderWrap, SequencesExt, MCTextSets

CONSTANTS
  LongRunes,  \* the runes of the longest texts
  EdgeRunes   \* the runes of the texts that are cut into lines anywhere

\* The whole buffer as one line.
WholeLine(t) == { <<1, Len(t) + 1>> }

\* Any stretch of the buffer.
AnyLine(t) == { l \in (1 .. Len(t) + 1) \X (1 .. Len(t) + 1) : l[1] <= l[2] }

EdgeTexts == UNION { [1 .. n -> EdgeRunes] : n \in 0 .. 4 }
MixedTexts == MCTexts \union [1 .. MaxLen + 1 -> LongRunes] \union EdgeTexts
MixedLines(t) == IF t \in EdgeTexts THEN AnyLine(t) ELSE WholeLine(t)

=============================================================================
