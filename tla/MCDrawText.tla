----------------------------- MODULE MCDrawText -----------------------------
(* Small instances of DrawText for TLC. *)
EXTENDS DrawText, MCShaperTables, MCTextSets

\* The text on one line, or broken in two anywhere.
TwoLines(t) == { l \in (1 .. Len(t) + 1) \X (1 .. Len(t) + 1) :
                   l[1] <= l[2] /\ (l[1] = 1 \/ l[2] = Len(t) + 1) }
OneLine(t) == { <<1, Len(t) + 1>> }

MCSoundTexts == { t \in MCTexts : Sound(t) }

=============================================================================
