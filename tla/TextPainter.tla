---------------------------- MODULE TextPainter ----------------------------
(***************************************************************************)
(* What the patched text functions promise an application: its text is     *)
(* its own.  A call shows lines of it, each as it should be read, and then *)
(* leaves the buffer as it was or, where the platform does not unshape, in *)
(* joined form, which later calls take for the same text.                  *)
(***************************************************************************)
CONSTANTS
  Contents,        \* the texts an application may write
  Join(_),         \* a text in joined form
  LinesOf(_),      \* the lines a text may be broken into
  Shows(_, _),     \* what a line of a text shows
  Alignments,
  Align(_, _)      \* the alignment a requested alignment stands for

VARIABLES
  content,         \* the text the application wrote
  keeps_joined,    \* draws leave the buffer in joined form
  buffer,          \* {what the buffer holds} between calls, {} during one
  call,            \* "none", "draw" or "measure"
  canvas           \* {[line, seen, align]} for the line just painted, or {}

painter_vars == <<content, keeps_joined, buffer, call, canvas>>

Forms == {{content}, {Join(content)}}

PainterInit ==
  content \in Contents /\ keeps_joined \in BOOLEAN /\ buffer = {content} /\ call = "none" /\ canvas = {}

Begin ==
  /\ call = "none"
  /\ buffer \in Forms
  /\ call' \in {"draw", "measure"}
  /\ buffer' = {}
  /\ UNCHANGED <<content, keeps_joined, canvas>>

Paint ==
  /\ call = "draw" /\ canvas = {} /\ canvas' # {}
  /\ \E l \in LinesOf(content), a \in Alignments :
       canvas' = {[line |-> l, seen |-> Shows(content, l), align |-> Align(content, a)]}
  /\ UNCHANGED <<content, keeps_joined, buffer, call>>

Wipe ==
  /\ canvas # {}
  /\ canvas' = {}
  /\ UNCHANGED <<content, keeps_joined, buffer, call>>

End ==
  /\ call # "none" /\ canvas = {}
  /\ call' = "none"
  /\ buffer' \in IF keeps_joined \/ call = "measure" THEN Forms ELSE {{content}}
  /\ UNCHANGED <<content, keeps_joined, canvas>>

PainterNext == Begin \/ Paint \/ Wipe \/ End

PainterSpec == PainterInit /\ [][PainterNext]_painter_vars
=============================================================================
