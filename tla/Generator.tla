------------------------------ MODULE Generator -----------------------------
(***************************************************************************)
(* generator.py: runs of the script, one after the other, over a cache     *)
(* directory and the generated sources in runtime/ that outlive them.      *)
(* Every step that is cached asks only whether its path exists; a run that *)
(* ends early leaves what it had created.                                  *)
(*                                                                         *)
(* One firmware version per hardware revision is published, and one SDK.   *)
(* A file or directory is "partial" from its creation until its content is *)
(* complete.                                                               *)
(***************************************************************************)
EXTENDS Integers, Sequences, FiniteSets

CONSTANTS
  Requests,    \* command lines: [hw_rev, langpacks]
  MaxFails,    \* bound on runs ended by the network, a tool or the user
  MaxLeftOut   \* bound on compositions that leave fonts out

hw_rev_platform_map(hw_rev) ==
  CASE hw_rev \in {"ev2_4", "v1_5", "v2_0"} -> "aplite"
    [] hw_rev \in {"snowy_dvt", "snowy_s3"} -> "basalt"
    [] hw_rev = "spalding" -> "chalk"
    [] hw_rev = "silk" -> "diorite"

platform_subset_map(platform) == IF platform = "aplite" THEN "arabic" ELSE "full"

size_shift_keys == << "small", "medium", "large" >>

Subset(hw_rev) == platform_subset_map(hw_rev_platform_map(hw_rev))

HwRevs == {r.hw_rev : r \in Requests}
Sizes == {size_shift_keys[i] : i \in 1 .. 3}

ASSUME GeneratorAssumption ==
  /\ HwRevs \subseteq {"ev2_4", "v1_5", "v2_0", "snowy_dvt", "snowy_s3", "spalding", "silk"}
  /\ \A r \in Requests : r.langpacks \in BOOLEAN
  /\ MaxFails \in Nat /\ MaxLeftOut \in Nat

\* The paths of the cache.
pbz_path(hw) == <<"stock-firmware", hw, "">>
fw_path(hw) == <<"unpacked-firmware", hw, "">>
sdk_zip_path == <<"sdk-zip", "", "">>
sdk_path == <<"sdk", "", "">>
res_path(hw) == <<"system_resources", hw, "">>
fonts_path(hw) == <<"system_fonts", hw, "">>
\* Mutant: the directory is not named after the size.
new_fonts_unsized(hw, size) == <<"generated_fonts", hw, "small">>

new_fonts_path(hw, size) == <<"generated_fonts", hw, size>>

\* Mutant: the binary is not cached by revision.
patched_path_shared(hw) == <<"tintin_fw.patched.bin", "", "">>

patched_path(hw) == <<"tintin_fw.patched.bin", hw, "">>

RevPaths(hw) ==
  {pbz_path(hw), fw_path(hw), res_path(hw), fonts_path(hw), patched_path(hw)}
    \union {new_fonts_path(hw, size) : size \in Sizes}

Paths == {sdk_zip_path, sdk_path} \union UNION {RevPaths(hw) : hw \in HwRevs}

VARIABLES
  disk,          \* for each path: its state, and for which request it was made
  tables,        \* the subset runtime/text_shaper_lut.c was generated for
  patched_with,  \* the tables that went into each patched binary
  request,       \* {} or {the request being processed}
  script,        \* the steps that are left of the run
  open,          \* the current step has created its path and not completed it
  delivered,     \* the outputs of the last run
  fails,         \* history: number of runs ended from outside
  interrupted,   \* history: for the runs that ended early in another step than a
                 \* download, the revision, and {the step, if it had created its
                 \* path and not completed it}
  left_out       \* history: <<revision, size>> whose fonts compose.py did not output
                 \* in full, and said nothing more of it

history == <<fails, interrupted, left_out>>
generator_vars ==
  <<disk, tables, patched_with, request, script, open, delivered, history>>

Step(name, size) == [name |-> name, size |-> size]
font_steps(size) ==
  << Step("resources", size), Step("fonts", size), Step("compose", size), Step("pack", size) >>

\* The calls at the end of generator.py, in order.
main(r) ==
  << Step("firmware", ""), Step("unpack", ""), Step("sdk_zip", ""), Step("sdk", "") >>
  \o (IF r.langpacks
      THEN font_steps(size_shift_keys[1]) \o font_steps(size_shift_keys[2])
             \o font_steps(size_shift_keys[3])
      ELSE << >>)
  \o << Step("patch", ""), Step("pbz", "") >>

-----------------------------------------------------------------------------
(* The steps *)

running == request # {}
hw_rev == (CHOOSE r \in request : TRUE).hw_rev
At(name) == running /\ script # << >> /\ Head(script).name = name
size_shift_key == Head(script).size
state(path) == disk[path].state
exists(path) == state(path) # "absent"

Made(path, s) ==
  disk' = [disk EXCEPT ![path] = [state |-> s, for |-> <<hw_rev, size_shift_key>>]]

\* What a step makes of its inputs: from partial ones it may still get all it needs.
Results(inputs) ==
  IF \A p \in inputs : state(p) = "complete" THEN {"complete"} ELSE {"partial", "complete"}

Return == script' = Tail(script)

\* if not os.path.exists(path): create it and fill it.
Reuse(path) == ~open /\ exists(path) /\ Return /\ UNCHANGED <<disk, open>>
Create(path) == ~open /\ ~exists(path) /\ Made(path, "partial") /\ open' = TRUE /\ UNCHANGED script
Fill(path, inputs) ==
  /\ open
  /\ \E s \in Results(inputs) : Made(path, s)
  /\ open' = FALSE /\ Return

Cached(path, inputs) == Reuse(path) \/ Create(path) \/ Fill(path, inputs)

Same == UNCHANGED <<tables, patched_with, request, delivered, history>>

\* open(pbz_path, "wb") comes before the request for its content.
download_firmware == At("firmware") /\ Cached(pbz_path(hw_rev), {}) /\ Same

\* Only a complete archive can be opened, and that is tried before anything is created.
unpack_fw ==
  /\ At("unpack")
  /\ exists(fw_path(hw_rev)) \/ state(pbz_path(hw_rev)) = "complete"
  /\ Cached(fw_path(hw_rev), {pbz_path(hw_rev)})
  /\ Same

download_sdk_zip == At("sdk_zip") /\ Cached(sdk_zip_path, {}) /\ Same

\* Here the directory is created before the archive is opened.
download_sdk ==
  /\ At("sdk")
  /\ open => state(sdk_zip_path) = "complete"
  /\ Cached(sdk_path, {sdk_zip_path})
  /\ Same

unpack_resources ==
  At("resources") /\ Cached(res_path(hw_rev), {fw_path(hw_rev)}) /\ Same

extract_fonts ==
  At("fonts") /\ Cached(fonts_path(hw_rev), {fw_path(hw_rev), res_path(hw_rev)}) /\ Same

\* compose.py generates the tables with the first Arabic font it composes; it may
\* find none to compose in a partial directory.
compose_tables ==
  /\ At("compose") /\ open
  /\ tables # Subset(hw_rev)
  /\ tables' = Subset(hw_rev)
  /\ UNCHANGED <<disk, patched_with, request, script, open, delivered, history>>

generate_fonts ==
  /\ At("compose")
  /\ open => tables = Subset(hw_rev) \/ state(fonts_path(hw_rev)) = "partial"
  /\ Cached(new_fonts_path(hw_rev, size_shift_key), {fonts_path(hw_rev)})
  /\ Same

\* fontgen.py fails on a member of a font: "it will not be output!", and compose.py
\* goes on with the next font.  It may or may not have generated the tables.
leave_out_font ==
  /\ At("compose") /\ open /\ Cardinality(left_out) < MaxLeftOut
  /\ Made(new_fonts_path(hw_rev, size_shift_key), "partial")
  /\ left_out' = left_out \union {<<hw_rev, size_shift_key>>}
  /\ open' = FALSE /\ Return
  /\ UNCHANGED <<tables, patched_with, request, delivered, fails, interrupted>>

Deliver(what, path) ==
  delivered' = delivered \union
    {[what |-> what, hw |-> hw_rev, size |-> size_shift_key,
      state |-> state(path), for |-> disk[path].for]}

\* A font without a file becomes an empty resource: this never fails.
generate_langpack ==
  /\ At("pack")
  /\ Deliver("pbl", new_fonts_path(hw_rev, size_shift_key))
  /\ Return
  /\ UNCHANGED <<disk, tables, patched_with, request, open, history>>

\* patch.py compiles the tables in, and opens its output for writing at the very
\* end; without tables it cannot compile.
patch_firmware ==
  /\ At("patch")
  /\ exists(patched_path(hw_rev)) \/ tables # "none"
  /\ Cached(patched_path(hw_rev), {fw_path(hw_rev)})
  /\ patched_with' = IF exists(patched_path(hw_rev)) THEN patched_with
                     ELSE [patched_with EXCEPT ![hw_rev] = tables]
  /\ UNCHANGED <<tables, request, delivered, history>>

pack_firmware ==
  /\ At("pbz")
  /\ Deliver("pbz", patched_path(hw_rev))
  /\ Return
  /\ UNCHANGED <<disk, tables, patched_with, request, open, history>>

-----------------------------------------------------------------------------
(* Runs *)

GeneratorInit ==
  /\ disk = [p \in Paths |-> [state |-> "absent", for |-> <<"", "">>]]
  /\ tables = "none"
  /\ patched_with = [hw \in HwRevs |-> "none"]
  /\ request = {} /\ script = << >> /\ open = FALSE
  /\ delivered = {} /\ fails = 0 /\ interrupted = {} /\ left_out = {}

StartRun(r) ==
  /\ ~running
  /\ request' = {r} /\ script' = main(r) /\ delivered' = {}
  /\ UNCHANGED <<disk, tables, patched_with, open, history>>

EndRun ==
  /\ running /\ script = << >>
  /\ request' = {}
  /\ UNCHANGED <<disk, tables, patched_with, script, open, delivered, history>>

Abort ==
  /\ request' = {} /\ script' = << >> /\ open' = FALSE
  /\ interrupted' = IF Head(script).name \in {"firmware", "sdk_zip", "sdk"}
                    THEN interrupted
                    ELSE interrupted \union
                           {[hw |-> hw_rev, in |-> IF open THEN {Head(script)} ELSE {}]}
  /\ UNCHANGED <<disk, tables, patched_with, delivered, left_out>>

\* What the current step reads.
inputs_of(step, hw) ==
  CASE step = "unpack" -> {pbz_path(hw)}
    [] step = "sdk" -> {sdk_zip_path}
    [] step = "resources" -> {fw_path(hw)}
    [] step = "fonts" -> {fw_path(hw), res_path(hw)}
    [] step = "compose" -> {fonts_path(hw)}
    [] step = "patch" -> {fw_path(hw), sdk_path}
    [] step = "pbz" -> {fw_path(hw), patched_path(hw)}
    [] OTHER -> {}

\* A step finds its input unusable and raises an exception, if it was to make
\* anything: a step whose path exists reads nothing.  patch.py has read all of its
\* input when it creates its output.
Raise ==
  /\ running /\ script # << >>
  /\ \/ /\ \E p \in inputs_of(Head(script).name, hw_rev) : state(p) = "partial"
        /\ \/ open /\ ~At("patch")
           \/ At("unpack") /\ ~exists(fw_path(hw_rev))
           \/ At("patch") /\ ~exists(patched_path(hw_rev))
           \/ At("pbz")
     \/ At("patch") /\ ~exists(patched_path(hw_rev)) /\ tables = "none"
  /\ Abort
  /\ UNCHANGED fails

\* The network, a tool or the user ends the run at any point.
Fail ==
  /\ running /\ script # << >> /\ fails < MaxFails
  /\ Abort
  /\ fails' = fails + 1

GeneratorNext ==
  \/ \E r \in Requests : StartRun(r)
  \/ download_firmware \/ unpack_fw \/ download_sdk_zip \/ download_sdk
  \/ unpack_resources \/ extract_fonts \/ compose_tables \/ generate_fonts
  \/ leave_out_font \/ generate_langpack \/ patch_firmware \/ pack_firmware
  \/ EndRun \/ Raise \/ Fail

GeneratorSpec == GeneratorInit /\ [][GeneratorNext]_generator_vars

-----------------------------------------------------------------------------
(* Properties *)

\* A run for this revision ended in one of these steps, after the step had created
\* its path.
CutShort(hw, steps) == \E e \in interrupted : e.hw = hw /\ e.in \intersect steps # {}

\* What the fonts of a size are made from, one after the other.
font_sources(size) ==
  {Step("unpack", ""), Step("compose", size)}
    \union {Step("resources", s) : s \in Sizes} \union {Step("fonts", s) : s \in Sizes}

\* The language packs of a run are made of fonts generated for the revision and the
\* size asked for.  They lack fonts only if compose.py left some out of this size, or
\* was cut short in composing them, or a step that their sources come from was, in an
\* earlier run for this very revision: failures in runs for other revisions, in
\* downloads, in the other sizes or in patching do not spread to them.
LangpacksSound ==
  \A d \in delivered :
    d.what = "pbl" =>
      /\ d.for = <<d.hw, d.size>>
      /\ \/ d.state = "complete"
         \/ <<d.hw, d.size>> \in left_out
         \/ CutShort(d.hw, font_sources(d.size))

\* Whatever failed before, and however the SDK or the fonts were left, a delivered
\* firmware is a complete patched image for its revision, unless the unpacking of the
\* stock firmware was cut short, or patch.py in the one write of its output.
FirmwareSound ==
  \A d \in delivered :
    d.what = "pbz" =>
      /\ d.for[1] = d.hw
      /\ \/ d.state = "complete"
         \/ CutShort(d.hw, {Step("unpack", ""), Step("patch", "")})

\* The tables compiled into the firmware of a revision are those with which its
\* fonts were generated, unless a run for it was interrupted in between: the shaper
\* would map letters to scratch code points at which the fonts have other glyphs.
TablesMatch ==
  \A hw \in HwRevs \ {e.hw : e \in interrupted} :
    exists(patched_path(hw)) /\ (\E size \in Sizes : state(new_fonts_path(hw, size)) = "complete")
      => patched_with[hw] = Subset(hw)

=============================================================================
