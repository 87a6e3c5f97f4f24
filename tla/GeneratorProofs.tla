--------------------------- MODULE GeneratorProofs --------------------------
(***************************************************************************)
(* Proofs about Generator: what the runs of generator.py deliver, whatever *)
(* sequence of command lines and failures came before, for every set of    *)
(* requests and any number of failures.                                    *)
(*                                                                         *)
(* The argument rests on the order of the calls of main, which the rank of *)
(* a step stands for: a step is reached only when all those of smaller     *)
(* rank have returned, so that the paths they make exist by then.          *)
(***************************************************************************)
EXTENDS Generator, TLAPS

-----------------------------------------------------------------------------
(* The order of the steps *)

FontStepNames == {"resources", "fonts", "compose", "pack"}

PlainNames == {"firmware", "unpack", "sdk_zip", "sdk", "patch", "pbz"}

PlainSteps == {Step(name, "") : name \in PlainNames}
FontSteps == {Step(name, size) : name \in FontStepNames, size \in Sizes}
Steps == PlainSteps \union FontSteps

SizeRank(size) ==
  CASE size = "small" -> 0 [] size = "medium" -> 4 [] size = "large" -> 8 [] OTHER -> 0

NameRank(name) ==
  CASE name = "firmware" -> 1 [] name = "unpack" -> 2 [] name = "sdk_zip" -> 3
    [] name = "sdk" -> 4 [] name = "resources" -> 5 [] name = "fonts" -> 6
    [] name = "compose" -> 7 [] name = "pack" -> 8 [] name = "patch" -> 17
    [] name = "pbz" -> 18 [] OTHER -> 0

Rank(step) == NameRank(step.name) + SizeRank(step.size)

Ordered(s) == \A i, j \in 1 .. Len(s) : i < j => Rank(s[i]) < Rank(s[j])

Elems(s) == {s[i] : i \in 1 .. Len(s)}

\* The steps that have not returned.
Pending == Elems(script)

-----------------------------------------------------------------------------
(* The inductive invariant *)

States == {"absent", "partial", "complete"}
Fors == (HwRevs \union {""}) \X (Sizes \union {""})

GeneratorTypeOK ==
  /\ disk \in [Paths -> [state : States, for : Fors]]
  /\ tables \in {"none", "arabic", "full"}
  /\ patched_with \in [HwRevs -> {"none", "arabic", "full"}]
  /\ request = {} \/ \E r \in Requests : request = {r}
  /\ script \in Seq(Steps) /\ Ordered(script)
  /\ open \in BOOLEAN
  /\ delivered \subseteq [what : {"pbl", "pbz"}, hw : HwRevs, size : Sizes \union {""},
                          state : States, for : Fors]
  /\ interrupted \subseteq [hw : HwRevs, in : SUBSET Steps]
  /\ left_out \subseteq HwRevs \X Sizes

\* The path whose existence the step asks for.
path_of(step, hw) ==
  CASE step.name = "firmware" -> pbz_path(hw)
    [] step.name = "unpack" -> fw_path(hw)
    [] step.name = "sdk_zip" -> sdk_zip_path
    [] step.name = "sdk" -> sdk_path
    [] step.name = "resources" -> res_path(hw)
    [] step.name = "fonts" -> fonts_path(hw)
    [] step.name = "patch" -> patched_path(hw)
    [] OTHER -> new_fonts_path(hw, step.size)

\* The steps that make a path, and among them those that make one of the revision
\* and are not downloads.
CachedNames ==
  {"firmware", "unpack", "sdk_zip", "sdk", "resources", "fonts", "compose", "patch"}
RevNames == {"unpack", "resources", "fonts", "compose", "patch"}
RevSteps == {step \in Steps : step.name \in RevNames}

OpenPath == path_of(Head(script), hw_rev)

\* The steps from which the path of a step comes, itself included.
unpack_sources == {Step("unpack", "")}
resource_sources == unpack_sources \union {Step("resources", s) : s \in Sizes}
extract_sources == resource_sources \union {Step("fonts", s) : s \in Sizes}
patch_sources == {Step("unpack", ""), Step("patch", "")}

MadeFrom(step) ==
  CASE step.name = "unpack" -> unpack_sources
    [] step.name = "resources" -> resource_sources
    [] step.name = "fonts" -> extract_sources
    [] step.name = "compose" -> font_sources(step.size)
    [] OTHER -> patch_sources

\* Why the path of a step may be partial for good.
Excused(hw, step) ==
  \/ CutShort(hw, MadeFrom(step))
  \/ step.name = "compose" /\ <<hw, step.size>> \in left_out

\* An open step is the current one of a run, and has created its path. The archive to
\* unpack was opened before that.
OpenInv ==
  open =>
    /\ running /\ script # << >>
    /\ Head(script).name \in CachedNames
    /\ state(OpenPath) = "partial"
    /\ Head(script).name = "unpack" => state(pbz_path(hw_rev)) = "complete"

\* Where the run is: what the steps that returned have made exists.
ProgressInv ==
  running =>
    /\ Step("unpack", "") \in Pending \/ exists(fw_path(hw_rev))
    /\ Step("patch", "") \in Pending \/ exists(patched_path(hw_rev))
    /\ \A size \in Sizes :
         /\ Step("pack", size) \in Pending =>
              /\ Step("resources", size) \in Pending \/ exists(res_path(hw_rev))
              /\ Step("fonts", size) \in Pending \/ exists(fonts_path(hw_rev))
              /\ Step("compose", size) \in Pending \/ exists(new_fonts_path(hw_rev, size))
         /\ \A name \in FontStepNames :
              Step(name, size) \in Pending => Step("pack", size) \in Pending

\* A path is made for the revision, and the size, that it is named after.
ForInv ==
  \A hw \in HwRevs :
    /\ exists(patched_path(hw)) => disk[patched_path(hw)].for[1] = hw
    /\ \A size \in Sizes :
         exists(new_fonts_path(hw, size)) => disk[new_fonts_path(hw, size)].for = <<hw, size>>

\* Partial, and not because its step is at work on it.
Unfinished(path) == state(path) = "partial" /\ ~(open /\ path = OpenPath)

\* A path of a revision stays partial only because of one of the steps it comes from,
\* in a run for that revision.
PartialInv ==
  \A hw \in HwRevs, step \in RevSteps : Unfinished(path_of(step, hw)) => Excused(hw, step)

\* Each of these parts needs some of the others: they are inductive together.
SoundInv ==
  /\ GeneratorTypeOK
  /\ OpenInv /\ ProgressInv /\ ForInv /\ PartialInv
  /\ LangpacksSound /\ FirmwareSound

-----------------------------------------------------------------------------
(* Facts about the script *)

LEMMA StepFields ==
  ASSUME NEW n, NEW s
  PROVE  Step(n, s).name = n /\ Step(n, s).size = s
  BY DEF Step

LEMMA RankTypes ==
  /\ \A size : SizeRank(size) \in Int
  /\ \A name : NameRank(name) \in Int
  /\ \A step : Rank(step) \in Int
  <1>1. \A size : SizeRank(size) \in Int
    BY DEF SizeRank
  <1>2. \A name : NameRank(name) \in Int
    BY DEF NameRank
  <1> QED BY <1>1, <1>2 DEF Rank

LEMMA SizesFact == Sizes = {"small", "medium", "large"}
  BY DEF Sizes, size_shift_keys

LEMMA StepFacts ==
  ASSUME NEW step \in Steps
  PROVE  /\ \/ step.name \in PlainNames /\ step.size = ""
            \/ step.name \in FontStepNames /\ step.size \in Sizes
         /\ step = Step(step.name, step.size)
  <1>1. CASE step \in PlainSteps
    <2>1. PICK n \in PlainNames : step = Step(n, "")
      BY <1>1 DEF PlainSteps
    <2> QED BY <2>1, StepFields
  <1>2. CASE step \in FontSteps
    <2>1. PICK n \in FontStepNames, s \in Sizes : step = Step(n, s)
      BY <1>2 DEF FontSteps
    <2> QED BY <2>1, StepFields
  <1> QED BY <1>1, <1>2 DEF Steps

\* When the current step returns, it alone is no longer pending, and those that are
\* left come after it.
LEMMA ScriptFacts ==
  ASSUME NEW s \in Seq(Steps), Ordered(s), s # << >>
  PROVE  /\ Head(s) \in Steps /\ Head(s) \in Elems(s)
         /\ Tail(s) \in Seq(Steps) /\ Ordered(Tail(s))
         /\ Elems(Tail(s)) = Elems(s) \ {Head(s)}
         /\ \A t \in Elems(s) : t # Head(s) => Rank(Head(s)) < Rank(t)
  <1>1. Len(s) \in Nat /\ Len(s) > 0 /\ Head(s) = s[1] /\ Head(s) \in Steps
    OBVIOUS
  <1>2. Head(s) \in Elems(s)
    BY <1>1 DEF Elems
  <1>3. Tail(s) \in Seq(Steps) /\ Len(Tail(s)) = Len(s) - 1
    OBVIOUS
  <1>4. \A i \in 1 .. Len(Tail(s)) : Tail(s)[i] = s[i + 1]
    OBVIOUS
  <1>5. Ordered(Tail(s))
    BY <1>1, <1>3, <1>4 DEF Ordered
  <1>6. \A i \in 1 .. Len(s) : Rank(s[i]) \in Int
    BY RankTypes
  <1>7. \A t \in Elems(s) : t # Head(s) => Rank(Head(s)) < Rank(t)
    BY <1>1 DEF Ordered, Elems
  <1>8. Elems(Tail(s)) = Elems(s) \ {Head(s)}
    <2>1. ASSUME NEW t \in Elems(Tail(s)) PROVE t \in Elems(s) \ {Head(s)}
      <3>1. PICK i \in 1 .. Len(Tail(s)) : t = s[i + 1]
        BY <1>4 DEF Elems
      <3>2. Rank(s[1]) < Rank(s[i + 1])
        BY <1>1, <1>3, <3>1 DEF Ordered
      <3> QED BY <1>1, <1>3, <1>6, <3>1, <3>2 DEF Elems
    <2>2. ASSUME NEW t \in Elems(s), t # Head(s) PROVE t \in Elems(Tail(s))
      <3>1. PICK i \in 1 .. Len(s) : t = s[i] /\ i # 1
        BY <1>1, <2>2 DEF Elems
      <3>2. i - 1 \in 1 .. Len(Tail(s)) /\ Tail(s)[i - 1] = s[i]
        BY <1>1, <1>3, <1>4, <3>1
      <3> QED BY <3>1, <3>2 DEF Elems
    <2> QED BY <2>1, <2>2
  <1> QED BY <1>1, <1>2, <1>3, <1>5, <1>7, <1>8

LEMMA ConcatFacts ==
  ASSUME NEW s \in Seq(Steps), NEW t \in Seq(Steps), Ordered(s), Ordered(t),
         \A x \in Elems(s), y \in Elems(t) : Rank(x) < Rank(y)
  PROVE  s \o t \in Seq(Steps) /\ Ordered(s \o t) /\ Elems(s \o t) = Elems(s) \union Elems(t)
  <1>1. /\ s \o t \in Seq(Steps) /\ Len(s \o t) = Len(s) + Len(t)
        /\ Len(s) \in Nat /\ Len(t) \in Nat
    OBVIOUS
  <1>2. \A i \in 1 .. Len(s \o t) :
          /\ i <= Len(s) => i \in 1 .. Len(s) /\ (s \o t)[i] = s[i]
          /\ i > Len(s) => i - Len(s) \in 1 .. Len(t) /\ (s \o t)[i] = t[i - Len(s)]
    BY <1>1
  <1>3. Ordered(s \o t)
    <2>1. SUFFICES ASSUME NEW i \in 1 .. Len(s \o t), NEW j \in 1 .. Len(s \o t), i < j
                   PROVE  Rank((s \o t)[i]) < Rank((s \o t)[j])
      BY DEF Ordered
    <2>2. CASE j <= Len(s)
      <3>1. i <= Len(s)
        BY <1>1, <2>1, <2>2
      <3> QED BY <1>2, <2>1, <2>2, <3>1 DEF Ordered
    <2>3. CASE i > Len(s)
      <3>1. j > Len(s) /\ i - Len(s) < j - Len(s)
        BY <1>1, <2>1, <2>3
      <3>2. /\ i - Len(s) \in 1 .. Len(t) /\ (s \o t)[i] = t[i - Len(s)]
            /\ j - Len(s) \in 1 .. Len(t) /\ (s \o t)[j] = t[j - Len(s)]
        BY <1>2, <2>3, <3>1
      <3> QED BY <3>1, <3>2 DEF Ordered
    <2>4. CASE i <= Len(s) /\ j > Len(s)
      <3>1. (s \o t)[i] \in Elems(s) /\ (s \o t)[j] \in Elems(t)
        BY <1>2, <2>4 DEF Elems
      <3> QED BY <3>1
    <2> QED BY <1>1, <2>2, <2>3, <2>4
  <1>4. \A x \in Elems(s) : x \in Elems(s \o t)
    BY <1>1 DEF Elems
  <1>5. ASSUME NEW x \in Elems(t) PROVE x \in Elems(s \o t)
    <2>1. PICK i \in 1 .. Len(t) : x = t[i]
      BY DEF Elems
    <2>2. i + Len(s) \in 1 .. Len(s \o t) /\ (s \o t)[i + Len(s)] = x
      BY <1>1, <1>2, <2>1
    <2> QED BY <2>2 DEF Elems
  <1>6. \A x \in Elems(s \o t) : x \in Elems(s) \/ x \in Elems(t)
    BY <1>2 DEF Elems
  <1> QED BY <1>1, <1>3, <1>4, <1>5, <1>6

\* A part of the script: in order, with these steps, of ranks between lo and hi.
Block(s, set, lo, hi) ==
  /\ s \in Seq(Steps) /\ Ordered(s) /\ Elems(s) = set
  /\ \A x \in set : lo <= Rank(x) /\ Rank(x) <= hi

LEMMA BlockConcat ==
  ASSUME NEW s, NEW t, NEW S, NEW T, NEW a \in Int, NEW b \in Int, NEW c \in Int, NEW d \in Int,
         Block(s, S, a, b), Block(t, T, c, d), a <= b, b < c, c <= d
  PROVE  Block(s \o t, S \union T, a, d)
  <1>1. \A x : Rank(x) \in Int
    BY RankTypes
  <1>2. \A x \in S, y \in T : Rank(x) < Rank(y)
    BY <1>1 DEF Block
  <1>3. s \o t \in Seq(Steps) /\ Ordered(s \o t) /\ Elems(s \o t) = S \union T
    BY <1>2, ConcatFacts DEF Block
  <1>4. \A x \in S \union T : a <= Rank(x) /\ Rank(x) <= d
    BY <1>1 DEF Block
  <1> QED BY <1>3, <1>4 DEF Block

LEMMA BlockOfTwo ==
  ASSUME NEW a \in Steps, NEW b \in Steps, NEW k \in Int,
         Rank(a) = k, Rank(b) = k + 1
  PROVE  Block(<<a, b>>, {a, b}, k, k + 1)
  <1>1. Ordered(<<a, b>>) /\ Elems(<<a, b>>) = {a, b}
    BY DEF Ordered, Elems
  <1> QED BY <1>1 DEF Block

LEMMA BlockOfFour ==
  ASSUME NEW a \in Steps, NEW b \in Steps, NEW c \in Steps, NEW d \in Steps, NEW k \in Int,
         Rank(a) = k, Rank(b) = k + 1, Rank(c) = k + 2, Rank(d) = k + 3
  PROVE  Block(<<a, b, c, d>>, {a, b, c, d}, k, k + 3)
  <1>1. Ordered(<<a, b, c, d>>)
    BY DEF Ordered
  <1>2. Elems(<<a, b, c, d>>) = {a, b, c, d}
    BY DEF Elems
  <1> QED BY <1>1, <1>2 DEF Block

LEMMA StepRanks ==
  /\ \A name \in PlainNames : Step(name, "") \in Steps /\ Rank(Step(name, "")) = NameRank(name)
  /\ \A name \in FontStepNames, size \in Sizes :
       /\ Step(name, size) \in Steps
       /\ Rank(Step(name, size)) = NameRank(name) + SizeRank(size)
  <1>1. ASSUME NEW n \in PlainNames
        PROVE  Step(n, "") \in Steps /\ Rank(Step(n, "")) = NameRank(n)
    <2>1. Step(n, "") \in PlainSteps
      BY DEF PlainSteps
    <2>2. SizeRank("") = 0
      BY DEF SizeRank
    <2>3. Step(n, "") \in Steps
      BY <2>1 DEF Steps
    <2>4. Rank(Step(n, "")) = NameRank(n) + SizeRank("")
      BY StepFields DEF Rank
    <2>5. Rank(Step(n, "")) = NameRank(n)
      <3>1. \A i \in Int : i + 0 = i
        OBVIOUS
      <3>2. NameRank(n) \in Int
        BY RankTypes
      <3> QED BY <2>2, <2>4, <3>1, <3>2, Zenon
    <2> QED BY <2>3, <2>5
  <1>2. ASSUME NEW n \in FontStepNames, NEW s \in Sizes
        PROVE  Step(n, s) \in Steps /\ Rank(Step(n, s)) = NameRank(n) + SizeRank(s)
    <2>1. Step(n, s) \in FontSteps
      BY DEF FontSteps
    <2> QED BY <2>1, StepFields DEF Steps, Rank
  <1> QED BY <1>1, <1>2

LEMMA RankValues ==
  /\ NameRank("firmware") = 1 /\ NameRank("unpack") = 2 /\ NameRank("sdk_zip") = 3
  /\ NameRank("sdk") = 4 /\ NameRank("resources") = 5 /\ NameRank("fonts") = 6
  /\ NameRank("compose") = 7 /\ NameRank("pack") = 8 /\ NameRank("patch") = 17
  /\ NameRank("pbz") = 18
  /\ SizeRank("small") = 0 /\ SizeRank("medium") = 4 /\ SizeRank("large") = 8
  BY DEF NameRank, SizeRank

FontBlock(size) ==
  {Step("resources", size), Step("fonts", size), Step("compose", size), Step("pack", size)}

LEMMA FontSequence ==
  ASSUME NEW size \in Sizes, NEW k \in Int, k = 5 + SizeRank(size)
  PROVE  Block(font_steps(size), FontBlock(size), k, k + 3)
  <1>1. /\ Step("resources", size) \in Steps /\ Rank(Step("resources", size)) = k
        /\ Step("fonts", size) \in Steps /\ Rank(Step("fonts", size)) = k + 1
        /\ Step("compose", size) \in Steps /\ Rank(Step("compose", size)) = k + 2
        /\ Step("pack", size) \in Steps /\ Rank(Step("pack", size)) = k + 3
    <2>1. \A n \in FontStepNames :
            Step(n, size) \in Steps /\ Rank(Step(n, size)) = NameRank(n) + SizeRank(size)
      BY StepRanks
    <2>2. SizeRank(size) \in Int
      BY RankTypes
    <2>3. {"resources", "fonts", "compose", "pack"} \subseteq FontStepNames
      BY DEF FontStepNames
    <2> QED BY <2>1, <2>2, <2>3, RankValues
  <1> QED BY <1>1, BlockOfFour DEF font_steps, FontBlock

\* A run makes every step, or every one but those for the fonts, in the order of the
\* ranks.
LEMMA MainFacts ==
  ASSUME NEW r, r.langpacks \in BOOLEAN
  PROVE  /\ main(r) \in Seq(Steps) /\ Ordered(main(r))
         /\ Elems(main(r)) = IF r.langpacks THEN Steps ELSE PlainSteps
  <1> DEFINE A == << Step("firmware", ""), Step("unpack", ""), Step("sdk_zip", ""), Step("sdk", "") >>
             Z == << Step("patch", ""), Step("pbz", "") >>
             F1 == font_steps("small")
             F2 == font_steps("medium")
             F3 == font_steps("large")
             SetA == {Step("firmware", ""), Step("unpack", ""), Step("sdk_zip", ""), Step("sdk", "")}
             SetZ == {Step("patch", ""), Step("pbz", "")}
             SetF == (FontBlock("small") \union FontBlock("medium")) \union FontBlock("large")
  <1>1. Block(A, SetA, 1, 4)
    <2>1. /\ Step("firmware", "") \in Steps /\ Rank(Step("firmware", "")) = 1
          /\ Step("unpack", "") \in Steps /\ Rank(Step("unpack", "")) = 2
          /\ Step("sdk_zip", "") \in Steps /\ Rank(Step("sdk_zip", "")) = 3
          /\ Step("sdk", "") \in Steps /\ Rank(Step("sdk", "")) = 4
      BY StepRanks, RankValues DEF PlainNames
    <2>2. 1 \in Int /\ 1 + 1 = 2 /\ 1 + 2 = 3 /\ 1 + 3 = 4
      OBVIOUS
    <2> QED BY <2>1, <2>2, BlockOfFour
  <1>2. Block(Z, SetZ, 17, 18)
    <2>1. /\ Step("patch", "") \in Steps /\ Rank(Step("patch", "")) = 17
          /\ Step("pbz", "") \in Steps /\ Rank(Step("pbz", "")) = 18
      BY StepRanks, RankValues DEF PlainNames
    <2>2. 17 \in Int /\ 17 + 1 = 18
      OBVIOUS
    <2> QED BY <2>1, <2>2, BlockOfTwo
  <1>3. /\ Block(F1, FontBlock("small"), 5, 8)
        /\ Block(F2, FontBlock("medium"), 9, 12)
        /\ Block(F3, FontBlock("large"), 13, 16)
    <2>1. "small" \in Sizes /\ "medium" \in Sizes /\ "large" \in Sizes
      BY SizesFact
    <2>2. 5 = 5 + SizeRank("small") /\ 9 = 5 + SizeRank("medium") /\ 13 = 5 + SizeRank("large")
      BY RankValues
    <2>3. 5 + 3 = 8 /\ 9 + 3 = 12 /\ 13 + 3 = 16
      OBVIOUS
    <2> QED BY <2>1, <2>2, <2>3, FontSequence
  <1>4. PlainSteps = SetA \union SetZ
    BY DEF PlainSteps, PlainNames
  <1>5. FontSteps = SetF
    <2>1. FontStepNames = {"resources", "fonts", "compose", "pack"}
      BY DEF FontStepNames
    <2>2. ASSUME NEW x \in FontSteps PROVE x \in SetF
      <3>1. PICK n \in FontStepNames, s \in Sizes : x = Step(n, s)
        BY DEF FontSteps
      <3> QED BY <3>1, <2>1, SizesFact DEF FontBlock
    <2>3. ASSUME NEW s \in Sizes PROVE FontBlock(s) \subseteq FontSteps
      BY <2>1 DEF FontBlock, FontSteps
    <2> QED BY <2>2, <2>3, SizesFact
  <1>6. main(r) = IF r.langpacks THEN (A \o ((F1 \o F2) \o F3)) \o Z ELSE (A \o << >>) \o Z
    BY DEF main, size_shift_keys
  <1> HIDE DEF A, Z, F1, F2, F3, SetA, SetZ
  <1>7. CASE r.langpacks
    <2>1. Block(F1 \o F2, FontBlock("small") \union FontBlock("medium"), 5, 12)
      BY <1>3, BlockConcat
    <2>2. Block((F1 \o F2) \o F3, SetF, 5, 16)
      BY <2>1, <1>3, BlockConcat
    <2> HIDE DEF SetF
    <2>3. Block(A \o ((F1 \o F2) \o F3), SetA \union SetF, 1, 16)
      BY <2>2, <1>1, BlockConcat
    <2>4. Block((A \o ((F1 \o F2) \o F3)) \o Z, (SetA \union SetF) \union SetZ, 1, 18)
      BY <2>3, <1>2, BlockConcat
    <2>5. (SetA \union SetF) \union SetZ = Steps
      BY <1>4, <1>5 DEF Steps
    <2> QED BY <2>4, <2>5, <1>6, <1>7 DEF Block
  <1>8. CASE ~r.langpacks
    <2>1. A \o << >> = A
      BY <1>1 DEF Block
    <2>2. Block(A \o Z, SetA \union SetZ, 1, 18)
      BY <1>1, <1>2, BlockConcat
    <2> QED BY <2>1, <2>2, <1>4, <1>6, <1>8 DEF Block
  <1> QED BY <1>7, <1>8

-----------------------------------------------------------------------------
(* Facts about the paths *)

LEMMA PathFacts ==
  ASSUME NEW hw \in HwRevs
  PROVE  /\ pbz_path(hw) \in Paths /\ fw_path(hw) \in Paths /\ res_path(hw) \in Paths
         /\ fonts_path(hw) \in Paths /\ patched_path(hw) \in Paths
         /\ \A size \in Sizes : new_fonts_path(hw, size) \in Paths
         /\ sdk_zip_path \in Paths /\ sdk_path \in Paths
  <1>1. \A p \in RevPaths(hw) : p \in Paths
    <2> DEFINE Owns == {RevPaths(h) : h \in HwRevs}
    <2>1. RevPaths(hw) \in Owns
      OBVIOUS
    <2>2. Paths = {sdk_zip_path, sdk_path} \union UNION Owns
      BY DEF Paths
    <2> HIDE DEF Owns
    <2> QED BY <2>1, <2>2
  <1>2. /\ {pbz_path(hw), fw_path(hw), res_path(hw), fonts_path(hw), patched_path(hw)}
             \subseteq RevPaths(hw)
        /\ \A size \in Sizes : new_fonts_path(hw, size) \in RevPaths(hw)
    BY DEF RevPaths
  <1>3. sdk_zip_path \in Paths /\ sdk_path \in Paths
    BY DEF Paths
  <1> QED BY <1>1, <1>2, <1>3

\* Two paths of different kinds, revisions or sizes are different.
LEMMA PathsDiffer ==
  ASSUME NEW hw, NEW h, NEW s, NEW t
  PROVE  /\ fw_path(hw) = fw_path(h) => hw = h
         /\ res_path(hw) = res_path(h) => hw = h
         /\ fonts_path(hw) = fonts_path(h) => hw = h
         /\ patched_path(hw) = patched_path(h) => hw = h
         /\ new_fonts_path(hw, s) = new_fonts_path(h, t) => hw = h /\ s = t
         /\ fw_path(hw) \notin {pbz_path(h), sdk_zip_path, sdk_path, res_path(h), fonts_path(h),
                                new_fonts_path(h, t), patched_path(h)}
         /\ res_path(hw) \notin {pbz_path(h), sdk_zip_path, sdk_path, fonts_path(h),
                                 new_fonts_path(h, t), patched_path(h)}
         /\ fonts_path(hw) \notin {pbz_path(h), sdk_zip_path, sdk_path,
                                   new_fonts_path(h, t), patched_path(h)}
         /\ new_fonts_path(hw, s) \notin {pbz_path(h), sdk_zip_path, sdk_path, patched_path(h)}
         /\ patched_path(hw) \notin {pbz_path(h), sdk_zip_path, sdk_path}
  <1>1. /\ fw_path(hw) = fw_path(h) => hw = h
        /\ res_path(hw) = res_path(h) => hw = h
        /\ fonts_path(hw) = fonts_path(h) => hw = h
        /\ patched_path(hw) = patched_path(h) => hw = h
        /\ new_fonts_path(hw, s) = new_fonts_path(h, t) => hw = h /\ s = t
    BY DEF fw_path, res_path, fonts_path, patched_path, new_fonts_path
  <1> DEFINE Kind(p) == p[1]
  <1>2. \A x, y :
          /\ Kind(pbz_path(x)) = "stock-firmware" /\ Kind(fw_path(x)) = "unpacked-firmware"
          /\ Kind(res_path(x)) = "system_resources" /\ Kind(fonts_path(x)) = "system_fonts"
          /\ Kind(new_fonts_path(x, y)) = "generated_fonts"
          /\ Kind(patched_path(x)) = "tintin_fw.patched.bin"
    BY DEF pbz_path, fw_path, res_path, fonts_path, new_fonts_path, patched_path
  <1>3. Kind(sdk_zip_path) = "sdk-zip" /\ Kind(sdk_path) = "sdk"
    BY DEF sdk_zip_path, sdk_path
  <1> HIDE DEF Kind
  <1> QED BY <1>1, <1>2, <1>3

\* Only the step that makes a path has it as its own.
LEMMA PathOfFacts ==
  ASSUME NEW step \in Steps, step.name \in CachedNames, NEW hw \in HwRevs
  PROVE  /\ path_of(step, hw) \in Paths
         /\ \A h \in HwRevs :
              /\ path_of(step, hw) = patched_path(h) <=> step.name = "patch" /\ h = hw
              /\ path_of(step, hw) = fw_path(h) <=> step.name = "unpack" /\ h = hw
              /\ path_of(step, hw) = res_path(h) <=> step.name = "resources" /\ h = hw
              /\ path_of(step, hw) = fonts_path(h) <=> step.name = "fonts" /\ h = hw
              /\ \A size \in Sizes : path_of(step, hw) = new_fonts_path(h, size)
                                       <=> step.name = "compose" /\ step.size = size /\ h = hw
  <1>1. step.name = "compose" => step.size \in Sizes
    BY StepFacts DEF PlainNames
  <1>2. \/ step.name = "firmware" /\ path_of(step, hw) = pbz_path(hw)
        \/ step.name = "unpack" /\ path_of(step, hw) = fw_path(hw)
        \/ step.name = "sdk_zip" /\ path_of(step, hw) = sdk_zip_path
        \/ step.name = "sdk" /\ path_of(step, hw) = sdk_path
        \/ step.name = "resources" /\ path_of(step, hw) = res_path(hw)
        \/ step.name = "fonts" /\ path_of(step, hw) = fonts_path(hw)
        \/ step.name = "patch" /\ path_of(step, hw) = patched_path(hw)
        \/ step.name = "compose" /\ path_of(step, hw) = new_fonts_path(hw, step.size)
    BY DEF path_of, CachedNames
  <1>3. path_of(step, hw) \in Paths
    BY <1>1, <1>2, PathFacts
  <1>4. ASSUME NEW h \in HwRevs
        PROVE  /\ path_of(step, hw) = patched_path(h) <=> step.name = "patch" /\ h = hw
               /\ path_of(step, hw) = fw_path(h) <=> step.name = "unpack" /\ h = hw
               /\ path_of(step, hw) = res_path(h) <=> step.name = "resources" /\ h = hw
               /\ path_of(step, hw) = fonts_path(h) <=> step.name = "fonts" /\ h = hw
               /\ \A size \in Sizes : path_of(step, hw) = new_fonts_path(h, size)
                                        <=> step.name = "compose" /\ step.size = size /\ h = hw
    BY <1>1, <1>2, PathsDiffer
  <1> QED BY <1>3, <1>4

LEMMA RevStepFacts ==
  ASSUME NEW step \in RevSteps
  PROVE  /\ step \in Steps /\ step.name \in CachedNames /\ step.name \in RevNames
         /\ step.name = "compose" => step.size \in Sizes
         /\ step.name \in {"resources", "fonts"} => step.size \in Sizes
         /\ step.name \in {"unpack", "patch"} => step.size = ""
         /\ step = Step(step.name, step.size)
         /\ step \in MadeFrom(step)
  <1>1. step \in Steps /\ step.name \in CachedNames /\ step.name \in RevNames
    BY DEF RevSteps, RevNames, CachedNames
  <1>2. /\ step.name = "compose" => step.size \in Sizes
        /\ step.name \in {"resources", "fonts"} => step.size \in Sizes
        /\ step.name \in {"unpack", "patch"} => step.size = ""
        /\ step = Step(step.name, step.size)
    BY <1>1, StepFacts DEF PlainNames, FontStepNames
  <1>3. step \in MadeFrom(step)
    <2>1. CASE step.name = "unpack"
      <3>1. step = Step("unpack", "") /\ MadeFrom(step) = unpack_sources
        BY <1>2, <2>1 DEF MadeFrom
      <3> QED BY <3>1 DEF unpack_sources
    <2>2. CASE step.name = "patch"
      <3>1. step = Step("patch", "") /\ MadeFrom(step) = patch_sources
        BY <1>2, <2>2 DEF MadeFrom
      <3> QED BY <3>1 DEF patch_sources
    <2>3. CASE step.name = "resources"
      <3>1. PICK z \in Sizes : step = Step("resources", z)
        BY <1>2, <2>3
      <3>2. MadeFrom(step) = resource_sources
        BY <2>3 DEF MadeFrom
      <3> QED BY <3>1, <3>2 DEF resource_sources
    <2>4. CASE step.name = "fonts"
      <3>1. PICK z \in Sizes : step = Step("fonts", z)
        BY <1>2, <2>4
      <3>2. MadeFrom(step) = extract_sources
        BY <2>4 DEF MadeFrom
      <3> QED BY <3>1, <3>2 DEF extract_sources
    <2>5. CASE step.name = "compose"
      <3>1. step = Step("compose", step.size) /\ MadeFrom(step) = font_sources(step.size)
        BY <1>2, <2>5 DEF MadeFrom
      <3> QED BY <3>1 DEF font_sources
    <2> QED BY <1>1, <2>1, <2>2, <2>3, <2>4, <2>5 DEF RevNames
  <1> QED BY <1>1, <1>2, <1>3

\* The sources of a step are sources of what is made from its path.
LEMMA SourcesGrow ==
  /\ unpack_sources \subseteq resource_sources /\ resource_sources \subseteq extract_sources
  /\ \A size : extract_sources \subseteq font_sources(size)
  /\ unpack_sources \subseteq extract_sources /\ unpack_sources \subseteq patch_sources
  <1>1. unpack_sources \subseteq resource_sources /\ unpack_sources \subseteq patch_sources
    BY DEF unpack_sources, resource_sources, patch_sources
  <1>2. resource_sources \subseteq extract_sources
    BY DEF extract_sources
  <1>3. ASSUME NEW size PROVE extract_sources \subseteq font_sources(size)
    <2>1. \A s \in Sizes : /\ Step("resources", s) \in font_sources(size)
                           /\ Step("fonts", s) \in font_sources(size)
      BY DEF font_sources
    <2>2. Step("unpack", "") \in font_sources(size)
      BY DEF font_sources
    <2> QED BY <2>1, <2>2 DEF extract_sources, resource_sources, unpack_sources
  <1> QED BY <1>1, <1>2, <1>3

\* Two steps with the same path are excused for the same reasons.
LEMMA SamePath ==
  ASSUME NEW step \in Steps, step.name \in CachedNames, NEW hw \in HwRevs,
         NEW other \in RevSteps, NEW h \in HwRevs, path_of(other, h) = path_of(step, hw)
  PROVE  /\ h = hw /\ step.name = other.name /\ step \in RevSteps
         /\ step.name = "compose" => step.size = other.size
         /\ MadeFrom(other) = MadeFrom(step)
  <1>1. /\ other.name \in RevNames /\ other \in Steps
        /\ other.name = "compose" => other.size \in Sizes
    BY RevStepFacts
  <1>2. /\ other.name = "unpack" => path_of(other, h) = fw_path(h)
        /\ other.name = "resources" => path_of(other, h) = res_path(h)
        /\ other.name = "fonts" => path_of(other, h) = fonts_path(h)
        /\ other.name = "patch" => path_of(other, h) = patched_path(h)
        /\ other.name = "compose" => path_of(other, h) = new_fonts_path(h, other.size)
    BY DEF path_of
  <1>3. /\ path_of(step, hw) = patched_path(h) <=> step.name = "patch" /\ h = hw
        /\ path_of(step, hw) = fw_path(h) <=> step.name = "unpack" /\ h = hw
        /\ path_of(step, hw) = res_path(h) <=> step.name = "resources" /\ h = hw
        /\ path_of(step, hw) = fonts_path(h) <=> step.name = "fonts" /\ h = hw
        /\ \A size \in Sizes : path_of(step, hw) = new_fonts_path(h, size)
                                 <=> step.name = "compose" /\ step.size = size /\ h = hw
    BY PathOfFacts
  <1>4. /\ h = hw /\ step.name = other.name
        /\ step.name = "compose" => step.size = other.size
    BY <1>1, <1>2, <1>3 DEF RevNames
  <1>5. MadeFrom(other) = MadeFrom(step)
    BY <1>4 DEF MadeFrom
  <1> QED BY <1>1, <1>4, <1>5 DEF RevSteps

\* What excused a path once excuses it for ever.
LEMMA ExcusedStays ==
  ASSUME interrupted \subseteq interrupted', left_out \subseteq left_out',
         NEW hw, NEW step, Excused(hw, step)
  PROVE  Excused(hw, step)'
  BY DEF Excused, CutShort

LEMMA DeliveriesStay ==
  ASSUME LangpacksSound, FirmwareSound, delivered' = delivered,
         interrupted \subseteq interrupted', left_out \subseteq left_out'
  PROVE  LangpacksSound' /\ FirmwareSound'
  <1>1. \A hw, steps : CutShort(hw, steps) => CutShort(hw, steps)'
    BY DEF CutShort
  <1>2. LangpacksSound'
    BY <1>1 DEF LangpacksSound
  <1>3. FirmwareSound'
    BY <1>1 DEF FirmwareSound
  <1> QED BY <1>2, <1>3

-----------------------------------------------------------------------------
(* The cached steps *)

LEMMA CurrentRun ==
  ASSUME GeneratorTypeOK, running
  PROVE  /\ hw_rev \in HwRevs
         /\ \E r \in Requests : request = {r} /\ hw_rev = r.hw_rev
  <1>1. PICK r \in Requests : request = {r}
    BY DEF GeneratorTypeOK, running
  <1>2. hw_rev = r.hw_rev
    BY <1>1 DEF hw_rev
  <1> QED BY <1>1, <1>2 DEF HwRevs

\* What is known of the current step.
LEMMA CurrentStep ==
  ASSUME GeneratorTypeOK, running, script # << >>
  PROVE  /\ Head(script) \in Steps /\ Head(script) \in Pending
         /\ size_shift_key = Head(script).size /\ size_shift_key \in Sizes \union {""}
         /\ Head(script).name \in FontStepNames => size_shift_key \in Sizes
         /\ Head(script) = Step(Head(script).name, size_shift_key)
         /\ Tail(script) \in Seq(Steps) /\ Ordered(Tail(script))
         /\ Elems(Tail(script)) = Pending \ {Head(script)}
         /\ \A t \in Pending : t # Head(script) => Rank(Head(script)) < Rank(t)
  <1>1. Head(script) \in Steps
    BY ScriptFacts DEF GeneratorTypeOK
  <1>2. /\ \/ Head(script).name \in PlainNames /\ Head(script).size = ""
           \/ Head(script).name \in FontStepNames /\ Head(script).size \in Sizes
        /\ Head(script) = Step(Head(script).name, Head(script).size)
    BY <1>1, StepFacts
  <1>3. size_shift_key = Head(script).size
    BY DEF size_shift_key
  <1>4. PlainNames \cap FontStepNames = {}
    BY DEF PlainNames, FontStepNames
  <1> QED BY <1>1, <1>2, <1>3, <1>4, ScriptFacts DEF GeneratorTypeOK, Pending

\* The path of a cached step, among those of all revisions.
LEMMA OpenPathFacts ==
  ASSUME GeneratorTypeOK, running, script # << >>, Head(script).name \in CachedNames
  PROVE  /\ OpenPath \in Paths
         /\ \A h \in HwRevs :
              /\ OpenPath = patched_path(h) <=> Head(script).name = "patch" /\ h = hw_rev
              /\ OpenPath = fw_path(h) <=> Head(script).name = "unpack" /\ h = hw_rev
              /\ OpenPath = res_path(h) <=> Head(script).name = "resources" /\ h = hw_rev
              /\ OpenPath = fonts_path(h) <=> Head(script).name = "fonts" /\ h = hw_rev
              /\ \A size \in Sizes : OpenPath = new_fonts_path(h, size)
                   <=> Head(script).name = "compose" /\ Head(script).size = size /\ h = hw_rev
  <1>1. Head(script) \in Steps /\ hw_rev \in HwRevs
    BY CurrentRun, CurrentStep
  <1> DEFINE step == Head(script)
             hw == hw_rev
  <1>2. OpenPath = path_of(step, hw)
    BY DEF OpenPath
  <1>3. step \in Steps /\ hw \in HwRevs /\ step.name \in CachedNames
    BY <1>1
  <1> HIDE DEF step, hw
  <1>4. /\ path_of(step, hw) \in Paths
        /\ \A h \in HwRevs :
              /\ path_of(step, hw) = patched_path(h) <=> step.name = "patch" /\ h = hw
              /\ path_of(step, hw) = fw_path(h) <=> step.name = "unpack" /\ h = hw
              /\ path_of(step, hw) = res_path(h) <=> step.name = "resources" /\ h = hw
              /\ path_of(step, hw) = fonts_path(h) <=> step.name = "fonts" /\ h = hw
              /\ \A size \in Sizes : path_of(step, hw) = new_fonts_path(h, size)
                                       <=> step.name = "compose" /\ step.size = size /\ h = hw
    BY <1>3, PathOfFacts
  <1> QED BY <1>2, <1>4 DEF step, hw

LEMMA MadeFacts ==
  ASSUME GeneratorTypeOK, running, script # << >>, NEW path \in Paths, NEW s \in States,
         Made(path, s)
  PROVE  /\ disk' \in [Paths -> [state : States, for : Fors]]
         /\ state(path)' = s /\ disk'[path].for = <<hw_rev, size_shift_key>>
         /\ \A p \in Paths : p # path => disk'[p] = disk[p] /\ state(p)' = state(p)
  <1>1. <<hw_rev, size_shift_key>> \in Fors
    BY CurrentRun, CurrentStep DEF Fors
  <1>2. disk' = [disk EXCEPT ![path] = [state |-> s, for |-> <<hw_rev, size_shift_key>>]]
    BY DEF Made
  <1>3. [state |-> s, for |-> <<hw_rev, size_shift_key>>] \in [state : States, for : Fors]
    BY <1>1
  <1>4. disk \in [Paths -> [state : States, for : Fors]]
    BY DEF GeneratorTypeOK
  <1>5. disk' \in [Paths -> [state : States, for : Fors]]
    BY <1>2, <1>3, <1>4
  <1>6. disk'[path] = [state |-> s, for |-> <<hw_rev, size_shift_key>>]
    BY <1>2, <1>4
  <1>7. \A p \in Paths : p # path => disk'[p] = disk[p]
    BY <1>2, <1>4
  <1> QED BY <1>5, <1>6, <1>7 DEF state

\* When a cached step has returned, its path exists.
LEMMA CachedProgress ==
  ASSUME GeneratorTypeOK, ProgressInv, running, script # << >>, Head(script).name \in CachedNames,
         hw_rev' = hw_rev, running', \A p \in Paths : exists(p) => exists(p)',
         \/ Pending' = Pending
         \/ Pending' = Pending \ {Head(script)} /\ \A p \in Paths : p = OpenPath => exists(p)'
  PROVE  ProgressInv'
  <1>1. PICK hw \in HwRevs : hw = hw_rev
    BY CurrentRun
  <1>2. PICK P \in Paths : P = OpenPath
    BY OpenPathFacts
  <1>3. /\ fw_path(hw) \in Paths /\ patched_path(hw) \in Paths /\ res_path(hw) \in Paths
        /\ fonts_path(hw) \in Paths /\ \A size \in Sizes : new_fonts_path(hw, size) \in Paths
    BY PathFacts
  <1>4. CASE Pending' = Pending
    BY <1>1, <1>3, <1>4 DEF ProgressInv
  <1>5. CASE Pending' = Pending \ {Head(script)} /\ exists(P)'
    <2>1. /\ P = patched_path(hw) <=> Head(script).name = "patch"
          /\ P = fw_path(hw) <=> Head(script).name = "unpack"
          /\ P = res_path(hw) <=> Head(script).name = "resources"
          /\ P = fonts_path(hw) <=> Head(script).name = "fonts"
          /\ \A size \in Sizes : P = new_fonts_path(hw, size)
               <=> Head(script).name = "compose" /\ Head(script).size = size
      BY <1>1, <1>2, OpenPathFacts
    <2>2. \A n, z : Head(script) = Step(n, z) => Head(script).name = n /\ Head(script).size = z
      BY StepFields
    <2>3. \A z : Step("pack", z) # Head(script)
      BY <2>2 DEF CachedNames
    <2>4. Step("unpack", "") \in Pending' \/ exists(fw_path(hw))'
      BY <1>1, <1>3, <1>5, <2>1, <2>2 DEF ProgressInv, exists, state
    <2>5. Step("patch", "") \in Pending' \/ exists(patched_path(hw))'
      BY <1>1, <1>3, <1>5, <2>1, <2>2 DEF ProgressInv, exists, state
    <2>6. ASSUME NEW size \in Sizes
          PROVE  /\ Step("pack", size) \in Pending' =>
                      /\ Step("resources", size) \in Pending' \/ exists(res_path(hw))'
                      /\ Step("fonts", size) \in Pending' \/ exists(fonts_path(hw))'
                      /\ Step("compose", size) \in Pending' \/ exists(new_fonts_path(hw, size))'
                 /\ \A name \in FontStepNames :
                      Step(name, size) \in Pending' => Step("pack", size) \in Pending'
      <3>1. Step("pack", size) \in Pending' => Step("pack", size) \in Pending
        BY <1>5
      <3>2. Step("pack", size) \in Pending' => Step("resources", size) \in Pending' \/ exists(res_path(hw))'
        BY <1>1, <1>3, <1>5, <2>1, <2>2, <3>1 DEF ProgressInv, exists, state
      <3>3. Step("pack", size) \in Pending' => Step("fonts", size) \in Pending' \/ exists(fonts_path(hw))'
        BY <1>1, <1>3, <1>5, <2>1, <2>2, <3>1 DEF ProgressInv, exists, state
      <3>4. Step("pack", size) \in Pending' =>
              Step("compose", size) \in Pending' \/ exists(new_fonts_path(hw, size))'
        BY <1>1, <1>3, <1>5, <2>1, <2>2, <3>1 DEF ProgressInv
      <3>5. \A name \in FontStepNames :
              Step(name, size) \in Pending' => Step("pack", size) \in Pending'
        BY <1>5, <2>3 DEF ProgressInv
      <3> QED BY <3>2, <3>3, <3>4, <3>5
    <2> QED BY <1>1, <2>4, <2>5, <2>6 DEF ProgressInv
  <1> QED BY <1>2, <1>4, <1>5

\* A cached step whose path exists returns at once.
LEMMA ReusePreserves ==
  ASSUME SoundInv, running, script # << >>, Head(script).name \in CachedNames,
         Reuse(OpenPath), UNCHANGED <<tables, patched_with, request, delivered, history>>
  PROVE  SoundInv'
  <1> USE DEF SoundInv
  <1>1. /\ ~open /\ open' = open /\ exists(OpenPath) /\ script' = Tail(script) /\ disk' = disk
        /\ UNCHANGED <<tables, patched_with, request, delivered, interrupted, left_out>>
    BY DEF Reuse, Return, history, GeneratorTypeOK
  <1>2. Pending' = Pending \ {Head(script)}
    BY <1>1, CurrentStep DEF Pending
  <1>3. hw_rev' = hw_rev /\ running' /\ hw_rev \in HwRevs
    BY <1>1, CurrentRun DEF hw_rev, running
  <1>4. \A p : state(p)' = state(p) /\ exists(p)' = exists(p)
    BY <1>1 DEF state, exists
  <1>5. GeneratorTypeOK'
    <2>1. script' \in Seq(Steps) /\ Ordered(script')
      BY <1>1, CurrentStep
    <2>2. open' \in BOOLEAN
      BY <1>1 DEF GeneratorTypeOK
    <2> QED BY <1>1, <2>1, <2>2, Zenon DEF GeneratorTypeOK
  <1>6. OpenInv'
    BY <1>1 DEF OpenInv
  <1>7. ProgressInv'
    <2>1. \A p \in Paths : exists(p) => exists(p)'
      BY <1>4
    <2>2. \A p \in Paths : p = OpenPath => exists(p)'
      BY <1>1, <1>4
    <2> QED BY <1>2, <1>3, <2>1, <2>2, CachedProgress
  <1>8. ForInv'
    BY <1>1, <1>4 DEF ForInv
  <1>9. PartialInv'
    <2>1. \A p : Unfinished(p)' => Unfinished(p)
      BY <1>1, <1>4 DEF Unfinished
    <2> QED BY <1>1, <2>1 DEF PartialInv, Excused, CutShort
  <1>10. LangpacksSound' /\ FirmwareSound'
    BY <1>1, DeliveriesStay
  <1> QED BY <1>5, <1>6, <1>7, <1>8, <1>9, <1>10

\* One whose path does not exist creates it; one that has created it completes it and
\* returns, or leaves it partial with an excuse.
LEMMA MadePreserves ==
  ASSUME SoundInv, running, script # << >>, Head(script).name \in CachedNames,
         NEW s \in {"partial", "complete"}, Made(OpenPath, s),
         \/ /\ ~open /\ open' = TRUE /\ script' = script /\ s = "partial"
            /\ Head(script).name = "unpack" => state(pbz_path(hw_rev)) = "complete"
         \/ /\ open /\ open' = FALSE /\ script' = Tail(script)
            /\ \A h \in HwRevs, step \in RevSteps :
                 s = "partial" /\ h = hw_rev /\ step = Head(script) => Excused(h, step)',
         UNCHANGED <<tables, request, delivered, interrupted>>,
         patched_with' \in [HwRevs -> {"none", "arabic", "full"}],
         left_out \subseteq left_out', left_out' \subseteq HwRevs \X Sizes
  PROVE  SoundInv'
  <1> USE DEF SoundInv
  <1>1. PICK hw \in HwRevs : hw = hw_rev
    BY CurrentRun
  <1>2. PICK step \in Steps : step = Head(script)
    BY CurrentStep
  <1>3. PICK P \in Paths : P = OpenPath
    BY OpenPathFacts
  <1>4. step.name \in CachedNames /\ P = path_of(step, hw) /\ size_shift_key = step.size
    BY <1>1, <1>2, <1>3, CurrentStep DEF OpenPath
  <1>5. hw_rev' = hw /\ running' /\ request' = request
    BY <1>1 DEF hw_rev, running
  <1>6. \A h \in HwRevs :
          /\ P = patched_path(h) <=> step.name = "patch" /\ h = hw
          /\ \A size \in Sizes : P = new_fonts_path(h, size)
               <=> step.name = "compose" /\ step.size = size /\ h = hw
    BY <1>4, PathOfFacts
  <1>7. /\ disk' \in [Paths -> [state : States, for : Fors]]
        /\ state(P)' = s /\ disk'[P].for = <<hw, step.size>>
        /\ \A p \in Paths : p # P => disk'[p] = disk[p] /\ state(p)' = state(p)
    <2>1. Made(P, s) /\ s \in States
      BY <1>3 DEF States
    <2> QED BY <2>1, <1>1, <1>4, MadeFacts
  <1>8. exists(P)' /\ \A p \in Paths : exists(p) => exists(p)'
    BY <1>7 DEF exists
  <1>9. \/ ~open /\ open' /\ script' = script /\ s = "partial"
        \/ open /\ ~open' /\ script' = Tail(script)
    OBVIOUS
  <1>10. script' \in Seq(Steps) /\ Ordered(script')
    BY <1>9, CurrentStep DEF GeneratorTypeOK
  <1>11. GeneratorTypeOK'
    <2>1. open' \in BOOLEAN
      OBVIOUS
    <2>2. interrupted' = interrupted /\ delivered' = delivered /\ tables' = tables
      OBVIOUS
    <2> QED BY <1>5, <1>7, <1>10, <2>1, <2>2, Zenon DEF GeneratorTypeOK
  <1>12. OpenInv'
    <2> SUFFICES ASSUME open' PROVE OpenInv'
      BY DEF OpenInv
    <2>1. script' = script /\ s = "partial" /\ (step.name = "unpack" => state(pbz_path(hw)) = "complete")
      BY <1>1, <1>2
    <2>2. OpenPath' = P
      BY <1>2, <1>4, <1>5, <2>1 DEF OpenPath
    <2>3. step.name = "unpack" => state(pbz_path(hw))' = "complete"
      <3>1. pbz_path(hw) \in Paths
        BY PathFacts
      <3>2. step.name = "unpack" => pbz_path(hw) # P
        BY <1>4, PathsDiffer DEF path_of
      <3> QED BY <1>7, <2>1, <3>1, <3>2
    <2> QED BY <1>2, <1>4, <1>5, <1>7, <2>1, <2>2, <2>3 DEF OpenInv
  <1>13. ProgressInv'
    <2>1. hw_rev' = hw_rev
      BY <1>1, <1>5
    <2>2. \A p \in Paths : p = OpenPath => exists(p)'
      BY <1>3, <1>8
    <2>3. Pending' = Pending \/ Pending' = Pending \ {Head(script)}
      BY <1>9, CurrentStep DEF Pending
    <2> QED BY <1>5, <1>8, <2>1, <2>2, <2>3, CachedProgress
  <1>14. ForInv'
    <2> SUFFICES ASSUME NEW h \in HwRevs
                 PROVE  /\ exists(patched_path(h))' => disk'[patched_path(h)].for[1] = h
                        /\ \A size \in Sizes : exists(new_fonts_path(h, size))' =>
                             disk'[new_fonts_path(h, size)].for = <<h, size>>
      BY DEF ForInv
    <2>1. patched_path(h) \in Paths /\ \A size \in Sizes : new_fonts_path(h, size) \in Paths
      BY PathFacts
    <2>2. exists(patched_path(h))' => disk'[patched_path(h)].for[1] = h
      <3>1. CASE patched_path(h) = P
        BY <1>6, <1>7, <3>1
      <3>2. CASE patched_path(h) # P
        BY <1>7, <2>1, <3>2 DEF ForInv, exists
      <3> QED BY <3>1, <3>2
    <2>3. ASSUME NEW size \in Sizes, exists(new_fonts_path(h, size))'
          PROVE  disk'[new_fonts_path(h, size)].for = <<h, size>>
      <3>1. CASE new_fonts_path(h, size) = P
        BY <1>6, <1>7, <3>1
      <3>2. CASE new_fonts_path(h, size) # P
        BY <1>7, <2>1, <2>3, <3>2 DEF ForInv, exists
      <3> QED BY <3>1, <3>2
    <2> QED BY <2>2, <2>3
  <1>15. PartialInv'
    <2> SUFFICES ASSUME NEW h \in HwRevs, NEW other \in RevSteps, Unfinished(path_of(other, h))'
                 PROVE  Excused(h, other)'
      BY DEF PartialInv
    <2>1. path_of(other, h) \in Paths
      BY RevStepFacts, PathOfFacts
    <2>2. CASE path_of(other, h) = P
      <3>1. /\ h = hw /\ step.name = other.name /\ step \in RevSteps
            /\ step.name = "compose" => step.size = other.size
            /\ MadeFrom(other) = MadeFrom(step)
        BY <1>4, <2>2, SamePath
      <3>2. ~open'
        <4> SUFFICES ASSUME open' PROVE FALSE
          OBVIOUS
        <4>1. script' = script
          OBVIOUS
        <4>2. OpenPath' = P
          BY <1>2, <1>4, <1>5, <4>1 DEF OpenPath
        <4> QED BY <2>2, <4>2 DEF Unfinished
      <3>3. s = "partial"
        BY <1>7, <2>2 DEF Unfinished
      <3>4. Excused(hw, step)'
        BY <1>1, <1>2, <3>1, <3>2, <3>3
      <3> QED BY <3>1, <3>4 DEF Excused
    <2>3. CASE path_of(other, h) # P
      <3>1. state(path_of(other, h)) = "partial"
        BY <1>7, <2>1, <2>3 DEF Unfinished
      <3>2. Excused(h, other)
        BY <1>3, <2>3, <3>1 DEF PartialInv, Unfinished
      <3> QED BY <3>2, ExcusedStays
    <2> QED BY <2>2, <2>3
  <1>16. LangpacksSound' /\ FirmwareSound'
    BY DeliveriesStay
  <1> QED BY <1>11, <1>12, <1>13, <1>14, <1>15, <1>16

\* Every cached step is one of these. From complete inputs it gets a complete result.
LEMMA CachedPreserves ==
  ASSUME SoundInv, running, script # << >>, Head(script).name \in CachedNames,
         NEW inputs, Cached(OpenPath, inputs),
         UNCHANGED <<tables, request, delivered, history>>,
         patched_with' \in [HwRevs -> {"none", "arabic", "full"}],
         exists(OpenPath) => patched_with' = patched_with,
         Head(script).name = "unpack" /\ ~exists(OpenPath) => state(pbz_path(hw_rev)) = "complete",
         Head(script).name \in RevNames /\ open =>
           Excused(hw_rev, Head(script)) \/ \A p \in inputs : state(p) = "complete"
  PROVE  SoundInv'
  <1>1. CASE Reuse(OpenPath)
    <2>1. patched_with' = patched_with
      BY <1>1 DEF Reuse
    <2> QED BY <1>1, <2>1, ReusePreserves
  <1>2. UNCHANGED <<tables, request, delivered, interrupted, left_out>>
    BY DEF history
  <1>3. left_out \subseteq left_out' /\ left_out' \subseteq HwRevs \X Sizes
    BY <1>2 DEF SoundInv, GeneratorTypeOK
  <1>4. CASE Create(OpenPath)
    <2>1. /\ ~open /\ open' = TRUE /\ script' = script /\ Made(OpenPath, "partial")
          /\ Head(script).name = "unpack" => state(pbz_path(hw_rev)) = "complete"
      BY <1>4 DEF Create
    <2>2. "partial" \in {"partial", "complete"}
      OBVIOUS
    <2> QED BY <1>2, <1>3, <2>1, <2>2, MadePreserves
  <1>5. CASE Fill(OpenPath, inputs)
    <2>1. PICK s \in Results(inputs) : Made(OpenPath, s)
      BY <1>5 DEF Fill
    <2>2. open /\ open' = FALSE /\ script' = Tail(script)
      BY <1>5 DEF Fill, Return
    <2>3. s \in {"partial", "complete"}
      BY DEF Results
    <2>4. ASSUME NEW h \in HwRevs, NEW step \in RevSteps,
                 s = "partial" /\ h = hw_rev /\ step = Head(script)
          PROVE  Excused(h, step)'
      <3>1. step.name \in RevNames
        BY DEF RevSteps
      <3>2. ~(\A p \in inputs : state(p) = "complete")
        BY <2>4 DEF Results
      <3>3. Excused(h, step)
        BY <2>2, <2>4, <3>1, <3>2
      <3> QED BY <1>2, <3>3, ExcusedStays
    <2> QED BY <1>2, <1>3, <2>1, <2>2, <2>3, <2>4, MadePreserves
  <1> QED BY <1>1, <1>4, <1>5 DEF Cached

LEMMA RankCases ==
  ASSUME NEW step \in Steps
  PROVE  \/ step.name = "firmware" /\ Rank(step) = 1
         \/ step.name = "unpack" /\ Rank(step) = 2
         \/ step.name = "sdk_zip" /\ Rank(step) = 3
         \/ step.name = "sdk" /\ Rank(step) = 4
         \/ step.name = "patch" /\ Rank(step) = 17
         \/ step.name = "pbz" /\ Rank(step) = 18
         \/ step.name = "resources" /\ (\/ step.size = "small" /\ Rank(step) = 5
                                        \/ step.size = "medium" /\ Rank(step) = 9
                                        \/ step.size = "large" /\ Rank(step) = 13)
         \/ step.name = "fonts" /\ (\/ step.size = "small" /\ Rank(step) = 6
                                    \/ step.size = "medium" /\ Rank(step) = 10
                                    \/ step.size = "large" /\ Rank(step) = 14)
         \/ step.name = "compose" /\ (\/ step.size = "small" /\ Rank(step) = 7
                                      \/ step.size = "medium" /\ Rank(step) = 11
                                      \/ step.size = "large" /\ Rank(step) = 15)
         \/ step.name = "pack" /\ (\/ step.size = "small" /\ Rank(step) = 8
                                   \/ step.size = "medium" /\ Rank(step) = 12
                                   \/ step.size = "large" /\ Rank(step) = 16)
  <1>1. step = Step(step.name, step.size)
    BY StepFacts
  <1>2. Rank(step) = NameRank(step.name) + SizeRank(step.size)
    BY DEF Rank
  <1>3. CASE step.name \in PlainNames /\ step.size = ""
    <2>1. Rank(step) = NameRank(step.name)
      BY <1>1, <1>3, StepRanks
    <2> QED BY <1>3, <2>1, RankValues DEF PlainNames
  <1>4. CASE step.name \in FontStepNames /\ step.size = "small"
    BY <1>2, <1>4, RankValues DEF FontStepNames
  <1>5. CASE step.name \in FontStepNames /\ step.size = "medium"
    BY <1>2, <1>5, RankValues DEF FontStepNames
  <1>6. CASE step.name \in FontStepNames /\ step.size = "large"
    BY <1>2, <1>6, RankValues DEF FontStepNames
  <1> QED BY <1>3, <1>4, <1>5, <1>6, StepFacts, SizesFact

\* The current step has returned from everything before it.
LEMMA Reached ==
  ASSUME GeneratorTypeOK, running, script # << >>
  PROVE  /\ Head(script).name \notin {"firmware", "unpack"} => Step("unpack", "") \notin Pending
         /\ Head(script).name \in {"fonts", "compose", "pack"} =>
              Step("resources", size_shift_key) \notin Pending
         /\ Head(script).name \in {"compose", "pack"} => Step("fonts", size_shift_key) \notin Pending
         /\ Head(script).name = "pack" => Step("compose", size_shift_key) \notin Pending
         /\ Head(script).name \in {"patch", "pbz"} =>
              \A size \in Sizes : Step("compose", size) \notin Pending
         /\ Head(script).name = "pbz" => Step("patch", "") \notin Pending
         /\ Head(script).name \in FontStepNames =>
              \A t \in Pending : t.name \notin {"firmware", "sdk_zip", "sdk"}
  <1>1. /\ Head(script) \in Steps /\ size_shift_key = Head(script).size
        /\ \A t \in Pending : t # Head(script) => Rank(Head(script)) < Rank(t)
    BY CurrentStep
  <1>2. \A t \in Pending : t \in Steps
    <2> SUFFICES ASSUME NEW t \in Pending PROVE t \in Steps
      OBVIOUS
    <2>1. PICK i \in 1 .. Len(script) : t = script[i]
      BY DEF Pending, Elems
    <2>2. script \in Seq(Steps)
      BY DEF GeneratorTypeOK
    <2> QED BY <2>1, <2>2
  <1>3. PICK h \in Steps : h = Head(script)
    BY <1>1
  <1>4. \A t \in Pending : t \in Steps /\ (t # h => Rank(h) < Rank(t))
    BY <1>1, <1>2, <1>3
  <1>5. \A n, z : Step(n, z).name = n /\ Step(n, z).size = z
    BY StepFields
  <1>6. h.name \notin {"firmware", "unpack"} => Step("unpack", "") \notin Pending
    <2> SUFFICES ASSUME h.name \notin {"firmware", "unpack"}, NEW t \in Pending, t.name = "unpack"
                 PROVE  FALSE
      BY <1>5
    <2> QED BY <1>4, RankCases
  <1>7. \A t \in Pending :
          /\ h.name \in {"fonts", "compose", "pack"} /\ t.size = h.size => t.name # "resources"
          /\ h.name \in {"compose", "pack"} /\ t.size = h.size => t.name # "fonts"
          /\ h.name = "pack" /\ t.size = h.size => t.name # "compose"
    BY <1>4, RankCases
  <1>8. \A t \in Pending : /\ h.name \in {"patch", "pbz"} => t.name # "compose"
                           /\ h.name = "pbz" => t.name # "patch"
    BY <1>4, RankCases
  <1>9. \A t \in Pending : h.name \in FontStepNames => t.name \notin {"firmware", "sdk_zip", "sdk"}
    BY <1>4, RankCases DEF FontStepNames
  <1>10. /\ h.name \in {"fonts", "compose", "pack"} => Step("resources", h.size) \notin Pending
         /\ h.name \in {"compose", "pack"} => Step("fonts", h.size) \notin Pending
         /\ h.name = "pack" => Step("compose", h.size) \notin Pending
    BY <1>5, <1>7
  <1>11. /\ h.name \in {"patch", "pbz"} => \A size \in Sizes : Step("compose", size) \notin Pending
         /\ h.name = "pbz" => Step("patch", "") \notin Pending
    BY <1>5, <1>8
  <1> QED BY <1>1, <1>3, <1>6, <1>9, <1>10, <1>11, Zenon

-----------------------------------------------------------------------------
(* The actions *)

\* A step reads what the steps before it have made: complete, unless one of them is
\* excused, and then this one is too.
LEMMA InputsComplete ==
  ASSUME SoundInv, running, script # << >>, open
  PROVE  /\ Head(script).name = "unpack" => state(pbz_path(hw_rev)) = "complete"
         /\ Head(script).name \in {"resources", "fonts", "patch"} =>
              CutShort(hw_rev, MadeFrom(Head(script))) \/ state(fw_path(hw_rev)) = "complete"
         /\ Head(script).name = "fonts" =>
              CutShort(hw_rev, MadeFrom(Head(script))) \/ state(res_path(hw_rev)) = "complete"
         /\ Head(script).name = "compose" =>
              CutShort(hw_rev, MadeFrom(Head(script))) \/ state(fonts_path(hw_rev)) = "complete"
  <1> USE DEF SoundInv
  <1>1. Head(script).name \in CachedNames
    BY DEF OpenInv
  <1>2. PICK hw \in HwRevs : hw = hw_rev
    BY CurrentRun
  <1>3. PICK step \in Steps : step = Head(script)
    BY CurrentStep
  <1>4. fw_path(hw) \in Paths /\ res_path(hw) \in Paths /\ fonts_path(hw) \in Paths
    BY PathFacts
  <1>5. \A p \in Paths : exists(p) => state(p) \in {"partial", "complete"}
    BY DEF GeneratorTypeOK, state, States, exists
  <1>6. /\ fw_path(hw) = OpenPath <=> step.name = "unpack"
        /\ res_path(hw) = OpenPath <=> step.name = "resources"
        /\ fonts_path(hw) = OpenPath <=> step.name = "fonts"
    BY <1>1, <1>2, <1>3, OpenPathFacts
  <1>7. step.name \in {"resources", "fonts", "compose"} =>
          size_shift_key \in Sizes /\ Step("pack", size_shift_key) \in Pending
    <2>1. step.name \in {"resources", "fonts", "compose"} => size_shift_key \in Sizes
      BY <1>3, CurrentStep DEF FontStepNames
    <2>2. step = Step(step.name, size_shift_key) /\ step \in Pending
      BY <1>3, CurrentStep
    <2> QED BY <2>1, <2>2 DEF ProgressInv, FontStepNames
  <1>8. /\ step.name \in {"resources", "fonts", "patch"} => exists(fw_path(hw))
        /\ step.name = "fonts" => exists(res_path(hw))
        /\ step.name = "compose" => exists(fonts_path(hw))
    BY <1>2, <1>3, <1>7, Reached DEF ProgressInv
  <1>9. /\ Unfinished(fw_path(hw)) => CutShort(hw, unpack_sources)
        /\ Unfinished(res_path(hw)) => CutShort(hw, resource_sources)
        /\ Unfinished(fonts_path(hw)) => CutShort(hw, extract_sources)
    <2>1. ASSUME NEW st \in Steps, st.name \in {"unpack", "resources", "fonts"},
                 Unfinished(path_of(st, hw))
          PROVE  CutShort(hw, MadeFrom(st))
      <3>1. st \in RevSteps
        BY <2>1 DEF RevSteps, RevNames
      <3> QED BY <2>1, <3>1 DEF PartialInv, Excused
    <2>2. Step("unpack", "") \in Steps /\ Step("resources", "small") \in Steps
            /\ Step("fonts", "small") \in Steps
      BY StepRanks, SizesFact DEF PlainNames, FontStepNames
    <2>3. PICK u \in Steps, v \in Steps, w \in Steps :
            u.name = "unpack" /\ v.name = "resources" /\ w.name = "fonts"
      <3>1. /\ Step("unpack", "").name = "unpack" /\ Step("resources", "small").name = "resources"
            /\ Step("fonts", "small").name = "fonts"
        BY StepFields
      <3> QED BY <2>2, <3>1
    <2>4. /\ path_of(u, hw) = fw_path(hw) /\ MadeFrom(u) = unpack_sources
          /\ path_of(v, hw) = res_path(hw) /\ MadeFrom(v) = resource_sources
          /\ path_of(w, hw) = fonts_path(hw) /\ MadeFrom(w) = extract_sources
      BY <2>3 DEF path_of, MadeFrom
    <2>5. /\ Unfinished(path_of(u, hw)) => CutShort(hw, MadeFrom(u))
          /\ Unfinished(path_of(v, hw)) => CutShort(hw, MadeFrom(v))
          /\ Unfinished(path_of(w, hw)) => CutShort(hw, MadeFrom(w))
      BY <2>1, <2>3
    <2> QED BY <2>4, <2>5
  <1>10. \A S, T : S \subseteq T /\ CutShort(hw, S) => CutShort(hw, T)
    BY DEF CutShort
  <1>11. /\ step.name = "resources" => MadeFrom(step) = resource_sources
         /\ step.name = "fonts" => MadeFrom(step) = extract_sources
         /\ step.name = "compose" => MadeFrom(step) = font_sources(step.size)
         /\ step.name = "patch" => MadeFrom(step) = patch_sources
    BY DEF MadeFrom
  <1>12. /\ step.name \in {"resources", "fonts", "patch"} =>
              CutShort(hw, unpack_sources) \/ state(fw_path(hw)) = "complete"
         /\ step.name = "fonts" => CutShort(hw, resource_sources) \/ state(res_path(hw)) = "complete"
         /\ step.name = "compose" => CutShort(hw, extract_sources) \/ state(fonts_path(hw)) = "complete"
    BY <1>4, <1>5, <1>6, <1>8, <1>9 DEF Unfinished
  <1>13. /\ step.name \in {"resources", "fonts", "patch"} /\ CutShort(hw, unpack_sources) =>
              CutShort(hw, MadeFrom(step))
         /\ step.name = "fonts" /\ CutShort(hw, resource_sources) => CutShort(hw, MadeFrom(step))
         /\ step.name = "compose" /\ CutShort(hw, extract_sources) => CutShort(hw, MadeFrom(step))
    BY <1>10, <1>11, SourcesGrow
  <1>14. step.name = "unpack" => state(pbz_path(hw)) = "complete"
    BY <1>2, <1>3 DEF OpenInv
  <1> QED BY <1>2, <1>3, <1>12, <1>13, <1>14

\* Each of the actions with a cached path is the cached step of its name.
LEMMA CachedActions ==
  ASSUME SoundInv,
         \/ download_firmware \/ unpack_fw \/ download_sdk_zip \/ download_sdk
         \/ unpack_resources \/ extract_fonts \/ generate_fonts \/ patch_firmware
  PROVE  SoundInv'
  <1>1. patched_with \in [HwRevs -> {"none", "arabic", "full"}]
    BY DEF SoundInv, GeneratorTypeOK
  <1>2. Same => /\ UNCHANGED <<tables, request, delivered, history>>
                /\ patched_with' \in [HwRevs -> {"none", "arabic", "full"}]
                /\ patched_with' = patched_with
    BY <1>1 DEF Same
  <1>3. CutShort(hw_rev, MadeFrom(Head(script))) => Excused(hw_rev, Head(script))
    BY DEF Excused
  <1>4. CASE download_firmware
    <2>1. running /\ script # << >> /\ Head(script).name = "firmware"
      BY <1>4 DEF download_firmware, At
    <2>2. OpenPath = pbz_path(hw_rev) /\ Head(script).name \in CachedNames \ RevNames
      BY <2>1 DEF OpenPath, path_of, CachedNames, RevNames
    <2> QED BY <1>2, <1>4, <2>1, <2>2, CachedPreserves DEF download_firmware
  <1>5. CASE unpack_fw
    <2>1. running /\ script # << >> /\ Head(script).name = "unpack"
      BY <1>5 DEF unpack_fw, At
    <2>2. OpenPath = fw_path(hw_rev) /\ Head(script).name \in CachedNames
      BY <2>1 DEF OpenPath, path_of, CachedNames
    <2>3. ~exists(OpenPath) => state(pbz_path(hw_rev)) = "complete"
      BY <1>5, <2>2 DEF unpack_fw
    <2>4. open => \A p \in {pbz_path(hw_rev)} : state(p) = "complete"
      BY <2>1, InputsComplete
    <2> QED BY <1>2, <1>5, <2>1, <2>2, <2>3, <2>4, CachedPreserves DEF unpack_fw
  <1>6. CASE download_sdk_zip
    <2>1. running /\ script # << >> /\ Head(script).name = "sdk_zip"
      BY <1>6 DEF download_sdk_zip, At
    <2>2. OpenPath = sdk_zip_path /\ Head(script).name \in CachedNames \ RevNames
      BY <2>1 DEF OpenPath, path_of, CachedNames, RevNames
    <2> QED BY <1>2, <1>6, <2>1, <2>2, CachedPreserves DEF download_sdk_zip
  <1>7. CASE download_sdk
    <2>1. running /\ script # << >> /\ Head(script).name = "sdk"
      BY <1>7 DEF download_sdk, At
    <2>2. OpenPath = sdk_path /\ Head(script).name \in CachedNames \ RevNames
      BY <2>1 DEF OpenPath, path_of, CachedNames, RevNames
    <2> QED BY <1>2, <1>7, <2>1, <2>2, CachedPreserves DEF download_sdk
  <1>8. CASE unpack_resources
    <2>1. running /\ script # << >> /\ Head(script).name = "resources"
      BY <1>8 DEF unpack_resources, At
    <2>2. OpenPath = res_path(hw_rev) /\ Head(script).name \in CachedNames
      BY <2>1 DEF OpenPath, path_of, CachedNames
    <2>3. open => Excused(hw_rev, Head(script)) \/ \A p \in {fw_path(hw_rev)} : state(p) = "complete"
      BY <1>3, <2>1, InputsComplete
    <2> QED BY <1>2, <1>8, <2>1, <2>2, <2>3, CachedPreserves DEF unpack_resources
  <1>9. CASE extract_fonts
    <2>1. running /\ script # << >> /\ Head(script).name = "fonts"
      BY <1>9 DEF extract_fonts, At
    <2>2. OpenPath = fonts_path(hw_rev) /\ Head(script).name \in CachedNames
      BY <2>1 DEF OpenPath, path_of, CachedNames
    <2>3. open => \/ Excused(hw_rev, Head(script))
                  \/ \A p \in {fw_path(hw_rev), res_path(hw_rev)} : state(p) = "complete"
      BY <1>3, <2>1, InputsComplete
    <2> QED BY <1>2, <1>9, <2>1, <2>2, <2>3, CachedPreserves DEF extract_fonts
  <1>10. CASE generate_fonts
    <2>1. running /\ script # << >> /\ Head(script).name = "compose"
      BY <1>10 DEF generate_fonts, At
    <2>2. OpenPath = new_fonts_path(hw_rev, size_shift_key) /\ Head(script).name \in CachedNames
      BY <2>1 DEF OpenPath, path_of, CachedNames, size_shift_key
    <2>3. open => Excused(hw_rev, Head(script)) \/ \A p \in {fonts_path(hw_rev)} : state(p) = "complete"
      BY <1>3, <2>1, InputsComplete
    <2> QED BY <1>2, <1>10, <2>1, <2>2, <2>3, CachedPreserves DEF generate_fonts
  <1>11. CASE patch_firmware
    <2>1. /\ running /\ script # << >> /\ Head(script).name = "patch"
          /\ UNCHANGED <<tables, request, delivered, history>>
      BY <1>11 DEF patch_firmware, At
    <2>2. OpenPath = patched_path(hw_rev) /\ Head(script).name \in CachedNames
      BY <2>1 DEF OpenPath, path_of, CachedNames
    <2>3. open => Excused(hw_rev, Head(script)) \/ \A p \in {fw_path(hw_rev)} : state(p) = "complete"
      BY <1>3, <2>1, InputsComplete
    <2>4. patched_with' = IF exists(OpenPath) THEN patched_with
                          ELSE [patched_with EXCEPT ![hw_rev] = tables]
      BY <1>11, <2>2 DEF patch_firmware
    <2>5. tables \in {"none", "arabic", "full"}
      BY DEF SoundInv, GeneratorTypeOK
    <2>6. patched_with' \in [HwRevs -> {"none", "arabic", "full"}]
      BY <1>1, <2>4, <2>5
    <2> QED BY <1>11, <2>1, <2>2, <2>3, <2>4, <2>6, CachedPreserves DEF patch_firmware
  <1> QED BY <1>4, <1>5, <1>6, <1>7, <1>8, <1>9, <1>10, <1>11

\* The fonts that are not output are the excuse for the directory they are missing in.
LEMMA LeaveOutPreserves ==
  ASSUME SoundInv, leave_out_font
  PROVE  SoundInv'
  <1>1. /\ running /\ script # << >> /\ Head(script).name = "compose"
        /\ open /\ open' = FALSE /\ script' = Tail(script)
        /\ UNCHANGED <<tables, patched_with, request, delivered, interrupted>>
        /\ left_out' = left_out \union {<<hw_rev, size_shift_key>>}
    BY DEF leave_out_font, At, Return
  <1>2. Head(script).name \in CachedNames /\ Made(OpenPath, "partial")
    BY <1>1 DEF CachedNames, OpenPath, path_of, leave_out_font, size_shift_key
  <1>3. /\ hw_rev \in HwRevs /\ size_shift_key \in Sizes /\ size_shift_key = Head(script).size
    BY <1>1, CurrentRun, CurrentStep DEF SoundInv, FontStepNames
  <1>4. /\ left_out \subseteq left_out' /\ left_out' \subseteq HwRevs \X Sizes
        /\ patched_with' \in [HwRevs -> {"none", "arabic", "full"}]
    <2>1. left_out \subseteq HwRevs \X Sizes /\ <<hw_rev, size_shift_key>> \in HwRevs \X Sizes
      BY <1>3 DEF SoundInv, GeneratorTypeOK
    <2>2. left_out \subseteq left_out' /\ left_out' \subseteq HwRevs \X Sizes
      BY <1>1, <2>1
    <2>3. patched_with' \in [HwRevs -> {"none", "arabic", "full"}]
      BY <1>1 DEF SoundInv, GeneratorTypeOK
    <2> QED BY <2>2, <2>3
  <1>5. ASSUME NEW h \in HwRevs, NEW step \in RevSteps, h = hw_rev /\ step = Head(script)
        PROVE  Excused(h, step)'
    BY <1>1, <1>3, <1>5 DEF Excused
  <1>6. "partial" \in {"partial", "complete"}
    OBVIOUS
  <1> QED BY <1>1, <1>2, <1>4, <1>5, <1>6, MadePreserves

LEMMA ComposeTablesPreserves ==
  ASSUME SoundInv, compose_tables
  PROVE  SoundInv'
  <1> USE DEF SoundInv
  <1>1. /\ UNCHANGED <<disk, patched_with, request, script, open, delivered, interrupted, left_out>>
        /\ tables' = Subset(hw_rev)
    BY DEF compose_tables, history
  <1>2. tables' \in {"none", "arabic", "full"}
    BY <1>1 DEF Subset, platform_subset_map
  <1>3. GeneratorTypeOK'
    BY <1>1, <1>2, Zenon DEF GeneratorTypeOK
  <1>4. /\ hw_rev' = hw_rev /\ running' = running /\ Pending' = Pending /\ OpenPath' = OpenPath
        /\ \A p : state(p)' = state(p) /\ exists(p)' = exists(p)
    BY <1>1 DEF hw_rev, running, Pending, OpenPath, state, exists
  <1>5. OpenInv' /\ ProgressInv'
    BY <1>1, <1>4 DEF OpenInv, ProgressInv, state
  <1>6. ForInv'
    BY <1>1, <1>4 DEF ForInv
  <1>7. PartialInv'
    BY <1>1, <1>4 DEF PartialInv, Unfinished, Excused, CutShort
  <1>8. LangpacksSound' /\ FirmwareSound'
    BY <1>1, DeliveriesStay
  <1> QED BY <1>3, <1>5, <1>6, <1>7, <1>8

\* A step that delivers only returns, as far as the cache is concerned.
LEMMA DeliverPreserves ==
  ASSUME SoundInv, NEW what \in {"pbl", "pbz"}, NEW path \in Paths,
         At(IF what = "pbl" THEN "pack" ELSE "pbz"), Deliver(what, path), Return,
         UNCHANGED <<disk, tables, patched_with, request, open, history>>,
         what = "pbl" =>
           /\ disk[path].for = <<hw_rev, size_shift_key>>
           /\ \/ state(path) = "complete"
              \/ <<hw_rev, size_shift_key>> \in left_out
              \/ CutShort(hw_rev, font_sources(size_shift_key)),
         what = "pbz" =>
           /\ disk[path].for[1] = hw_rev
           /\ state(path) = "complete" \/ CutShort(hw_rev, patch_sources)
  PROVE  SoundInv'
  <1> USE DEF SoundInv
  <1>1. /\ running /\ script # << >> /\ script' = Tail(script)
        /\ Head(script).name \in {"pack", "pbz"}
    BY DEF At, Return
  <1>2. UNCHANGED <<disk, tables, patched_with, request, open, interrupted, left_out>>
    BY DEF history
  <1> DEFINE new == [what |-> what, hw |-> hw_rev, size |-> size_shift_key,
                     state |-> state(path), for |-> disk[path].for]
  <1>3. delivered' = delivered \union {new}
    BY DEF Deliver
  <1>4. /\ new.what = what /\ new.hw = hw_rev /\ new.size = size_shift_key
        /\ new.state = state(path) /\ new.for = disk[path].for
    OBVIOUS
  <1>5. new \in [what : {"pbl", "pbz"}, hw : HwRevs, size : Sizes \union {""},
                 state : States, for : Fors]
    <2>1. hw_rev \in HwRevs /\ size_shift_key \in Sizes \union {""}
      BY <1>1, CurrentRun, CurrentStep
    <2>2. state(path) \in States /\ disk[path].for \in Fors
      BY DEF GeneratorTypeOK, state
    <2> QED BY <2>1, <2>2
  <1> HIDE DEF new
  <1>6. ~open
    BY <1>1 DEF OpenInv, CachedNames
  <1>7. /\ hw_rev' = hw_rev /\ running' /\ Pending' = Pending \ {Head(script)}
        /\ \A p : state(p)' = state(p) /\ exists(p)' = exists(p)
    BY <1>1, <1>2, CurrentStep DEF hw_rev, running, Pending, state, exists
  <1>8. GeneratorTypeOK'
    <2>1. script' \in Seq(Steps) /\ Ordered(script')
      BY <1>1, CurrentStep
    <2>2. delivered' \subseteq [what : {"pbl", "pbz"}, hw : HwRevs, size : Sizes \union {""},
                                state : States, for : Fors]
      BY <1>3, <1>5 DEF GeneratorTypeOK
    <2> QED BY <1>2, <2>1, <2>2, Zenon DEF GeneratorTypeOK
  <1>9. OpenInv'
    BY <1>2, <1>6 DEF OpenInv
  <1>10. ProgressInv'
    <2>1. \A n, z : Head(script) = Step(n, z) => Head(script).name = n /\ Head(script).size = z
      BY StepFields
    <2>2. \A z : /\ Step("patch", z) # Head(script) /\ Step("unpack", z) # Head(script)
                 /\ Step("resources", z) # Head(script) /\ Step("fonts", z) # Head(script)
                 /\ Step("compose", z) # Head(script)
      BY <1>1, <2>1
    <2>3. ASSUME NEW size \in Sizes, NEW name \in FontStepNames, Step(name, size) \in Pending'
          PROVE  Step("pack", size) \in Pending'
      <3>1. Step("pack", size) \in Pending
        BY <1>1, <1>7, <2>3 DEF ProgressInv
      <3>2. CASE Step("pack", size) # Head(script)
        BY <1>7, <3>1, <3>2
      <3>3. CASE Step("pack", size) = Head(script)
        <4>1. Head(script).name = "pack" /\ size_shift_key = size
          BY <1>1, <2>1, <3>3, CurrentStep
        <4>2. /\ Step("resources", size) \notin Pending /\ Step("fonts", size) \notin Pending
              /\ Step("compose", size) \notin Pending
          BY <1>1, <4>1, Reached
        <4>3. name = "pack"
          BY <1>7, <2>3, <4>2 DEF FontStepNames
        <4> QED BY <1>7, <2>3, <3>3, <4>3
      <3> QED BY <3>2, <3>3
    <2>4. /\ Step("unpack", "") \in Pending' \/ exists(fw_path(hw_rev))
          /\ Step("patch", "") \in Pending' \/ exists(patched_path(hw_rev))
      BY <1>1, <1>7, <2>2 DEF ProgressInv
    <2>5. \A size \in Sizes :
            Step("pack", size) \in Pending' =>
              /\ Step("resources", size) \in Pending' \/ exists(res_path(hw_rev))
              /\ Step("fonts", size) \in Pending' \/ exists(fonts_path(hw_rev))
              /\ Step("compose", size) \in Pending' \/ exists(new_fonts_path(hw_rev, size))
      BY <1>1, <1>7, <2>2 DEF ProgressInv
    <2> QED BY <1>7, <2>3, <2>4, <2>5 DEF ProgressInv
  <1>11. ForInv' /\ PartialInv'
    <2>1. ForInv'
      BY <1>2, <1>7 DEF ForInv
    <2>2. \A p : Unfinished(p)' => Unfinished(p)
      BY <1>2, <1>6, <1>7 DEF Unfinished
    <2>3. PartialInv'
      BY <1>2, <2>2 DEF PartialInv, Excused, CutShort
    <2> QED BY <2>1, <2>3
  <1>12. \A hw, steps : CutShort(hw, steps)' = CutShort(hw, steps)
    BY <1>2 DEF CutShort
  <1>13. LangpacksSound'
    <2> SUFFICES ASSUME NEW d \in delivered', d.what = "pbl"
                 PROVE  /\ d.for = <<d.hw, d.size>>
                        /\ \/ d.state = "complete"
                           \/ <<d.hw, d.size>> \in left_out'
                           \/ CutShort(d.hw, font_sources(d.size))'
      BY DEF LangpacksSound
    <2>1. CASE d \in delivered
      BY <1>2, <1>12, <2>1 DEF LangpacksSound
    <2>2. CASE d = new
      <3>1. /\ d.for = <<d.hw, d.size>>
            /\ \/ d.state = "complete"
               \/ <<d.hw, d.size>> \in left_out
               \/ CutShort(d.hw, font_sources(d.size))
        BY <1>4, <2>2
      <3> QED BY <1>2, <1>12, <3>1
    <2> QED BY <1>3, <2>1, <2>2
  <1>14. FirmwareSound'
    <2> SUFFICES ASSUME NEW d \in delivered', d.what = "pbz"
                 PROVE  /\ d.for[1] = d.hw
                        /\ d.state = "complete" \/ CutShort(d.hw, patch_sources)'
      BY DEF FirmwareSound, patch_sources
    <2>1. CASE d \in delivered
      BY <1>12, <2>1 DEF FirmwareSound, patch_sources
    <2>2. CASE d = new
      BY <1>4, <1>12, <2>2
    <2> QED BY <1>3, <2>1, <2>2
  <1> QED BY <1>8, <1>9, <1>10, <1>11, <1>13, <1>14

\* The path of a step that has returned, and why it may be partial.
LEMMA ReturnedPath ==
  ASSUME SoundInv, NEW hw \in HwRevs, NEW step \in RevSteps, ~open, exists(path_of(step, hw))
  PROVE  state(path_of(step, hw)) = "complete" \/ Excused(hw, step)
  <1>1. path_of(step, hw) \in Paths
    BY RevStepFacts, PathOfFacts
  <1>2. state(path_of(step, hw)) \in {"partial", "complete"}
    BY <1>1 DEF SoundInv, GeneratorTypeOK, state, States, exists
  <1> QED BY <1>2 DEF SoundInv, PartialInv, Unfinished

LEMMA GenerateLangpackPreserves ==
  ASSUME SoundInv, generate_langpack
  PROVE  SoundInv'
  <1>1. running /\ script # << >> /\ Head(script).name = "pack"
    BY DEF generate_langpack, At
  <1>2. PICK hw \in HwRevs : hw = hw_rev
    BY <1>1, CurrentRun DEF SoundInv
  <1>3. PICK size \in Sizes : size = size_shift_key
    BY <1>1, CurrentStep DEF SoundInv, FontStepNames
  <1>4. PICK path \in Paths : path = new_fonts_path(hw, size)
    BY PathFacts
  <1>5. exists(path)
    <2>1. Step("pack", size) \in Pending
      BY <1>1, <1>3, CurrentStep DEF SoundInv
    <2>2. Step("compose", size) \notin Pending
      BY <1>1, <1>3, Reached DEF SoundInv
    <2> QED BY <1>1, <1>2, <1>4, <2>1, <2>2 DEF SoundInv, ProgressInv
  <1>6. disk[path].for = <<hw, size>>
    BY <1>4, <1>5 DEF SoundInv, ForInv
  <1>7. ~open
    BY <1>1 DEF SoundInv, OpenInv, CachedNames
  <1>8. \/ state(path) = "complete" \/ <<hw, size>> \in left_out \/ CutShort(hw, font_sources(size))
    <2>1. PICK step : step = Step("compose", size)
      OBVIOUS
    <2>2. step.name = "compose" /\ step.size = size
      BY <2>1, StepFields
    <2>3. step \in RevSteps
      BY <2>1, <2>2, StepRanks DEF RevSteps, RevNames, FontStepNames
    <2>4. path_of(step, hw) = path /\ MadeFrom(step) = font_sources(size)
      BY <1>4, <2>2 DEF path_of, MadeFrom
    <2>5. state(path) = "complete" \/ Excused(hw, step)
      BY <1>5, <1>7, <2>3, <2>4, ReturnedPath
    <2> QED BY <2>2, <2>4, <2>5 DEF Excused
  <1> QED BY <1>2, <1>3, <1>4, <1>6, <1>8, DeliverPreserves DEF generate_langpack

LEMMA PackFirmwarePreserves ==
  ASSUME SoundInv, pack_firmware
  PROVE  SoundInv'
  <1>1. running /\ script # << >> /\ Head(script).name = "pbz"
    BY DEF pack_firmware, At
  <1>2. PICK hw \in HwRevs : hw = hw_rev
    BY <1>1, CurrentRun DEF SoundInv
  <1>3. PICK path \in Paths : path = patched_path(hw)
    BY PathFacts
  <1>4. exists(path)
    BY <1>1, <1>2, <1>3, Reached DEF SoundInv, ProgressInv
  <1>5. disk[path].for[1] = hw
    BY <1>3, <1>4 DEF SoundInv, ForInv
  <1>6. ~open
    BY <1>1 DEF SoundInv, OpenInv, CachedNames
  <1>7. state(path) = "complete" \/ CutShort(hw, patch_sources)
    <2>1. PICK step : step = Step("patch", "")
      OBVIOUS
    <2>2. step.name = "patch"
      BY <2>1, StepFields
    <2>3. step \in RevSteps
      BY <2>1, <2>2, StepRanks DEF RevSteps, RevNames, PlainNames
    <2>4. path_of(step, hw) = path /\ MadeFrom(step) = patch_sources
      BY <1>3, <2>2 DEF path_of, MadeFrom
    <2>5. state(path) = "complete" \/ Excused(hw, step)
      BY <1>4, <1>6, <2>3, <2>4, ReturnedPath
    <2> QED BY <2>2, <2>4, <2>5 DEF Excused
  <1> QED BY <1>2, <1>3, <1>5, <1>7, DeliverPreserves DEF pack_firmware

LEMMA StartRunPreserves ==
  ASSUME SoundInv, NEW r \in Requests, StartRun(r)
  PROVE  SoundInv'
  <1> USE DEF SoundInv
  <1>1. /\ ~running /\ request' = {r} /\ script' = main(r) /\ delivered' = {}
        /\ UNCHANGED <<disk, tables, patched_with, open, interrupted, left_out>>
    BY DEF StartRun, history
  <1>2. ~open
    BY <1>1 DEF OpenInv
  <1>3. /\ script' \in Seq(Steps) /\ Ordered(script')
        /\ Pending' = IF r.langpacks THEN Steps ELSE PlainSteps
    BY <1>1, MainFacts, GeneratorAssumption DEF Pending
  <1>4. \A p : state(p)' = state(p) /\ exists(p)' = exists(p)
    BY <1>1 DEF state, exists
  <1>5. GeneratorTypeOK'
    <2>1. \E q \in Requests : request' = {q}
      BY <1>1
    <2>2. delivered' \subseteq [what : {"pbl", "pbz"}, hw : HwRevs, size : Sizes \union {""},
                                state : States, for : Fors]
      BY <1>1
    <2> QED BY <1>1, <1>3, <2>1, <2>2, Zenon DEF GeneratorTypeOK
  <1>6. OpenInv'
    BY <1>1, <1>2 DEF OpenInv
  <1>7. ProgressInv'
    <2>1. /\ Step("unpack", "") \in PlainSteps /\ Step("patch", "") \in PlainSteps
          /\ PlainSteps \subseteq Steps
      BY DEF PlainSteps, PlainNames, Steps
    <2>2. \A name \in FontStepNames, size \in Sizes : Step(name, size) \in Steps
      BY StepRanks
    <2>3. \A name \in FontStepNames, size \in Sizes : Step(name, size) \notin PlainSteps
      <3> SUFFICES ASSUME NEW n \in FontStepNames, NEW z \in Sizes, Step(n, z) \in PlainSteps
                   PROVE  FALSE
        OBVIOUS
      <3>1. PICK m \in PlainNames : Step(n, z) = Step(m, "")
        BY DEF PlainSteps
      <3>2. Step(n, z).name = n /\ Step(m, "").name = m
        BY StepFields
      <3> QED BY <3>1, <3>2 DEF PlainNames, FontStepNames
    <2>4. {"resources", "fonts", "compose", "pack"} = FontStepNames
      BY DEF FontStepNames
    <2>5. Step("unpack", "") \in Pending' /\ Step("patch", "") \in Pending'
      BY <1>3, <2>1
    <2>6. \A name \in FontStepNames, size \in Sizes : Step(name, size) \in Pending' <=> r.langpacks
      BY <1>3, <2>2, <2>3
    <2> QED BY <2>4, <2>5, <2>6 DEF ProgressInv
  <1>8. ForInv'
    BY <1>1, <1>4 DEF ForInv
  <1>9. PartialInv'
    <2>1. \A p : Unfinished(p)' => Unfinished(p)
      BY <1>1, <1>2, <1>4 DEF Unfinished
    <2> QED BY <1>1, <2>1 DEF PartialInv, Excused, CutShort
  <1>10. LangpacksSound' /\ FirmwareSound'
    BY <1>1 DEF LangpacksSound, FirmwareSound
  <1> QED BY <1>5, <1>6, <1>7, <1>8, <1>9, <1>10

\* A run that ends, with its last step or before, leaves the cache as it is. If a step
\* was at work on its path, the run is the excuse.
LEMMA StopPreserves ==
  ASSUME SoundInv, running, request' = {}, script' = << >>, open' = FALSE,
         interrupted' \subseteq [hw : HwRevs, in : SUBSET Steps], interrupted \subseteq interrupted',
         \A hw \in HwRevs, step \in RevSteps :
           open /\ hw = hw_rev /\ step = Head(script) => [hw |-> hw, in |-> {step}] \in interrupted',
         UNCHANGED <<disk, tables, patched_with, delivered, left_out>>
  PROVE  SoundInv'
  <1> USE DEF SoundInv
  <1>1. \A p : state(p)' = state(p) /\ exists(p)' = exists(p)
    BY DEF state, exists
  <1>2. ~running' /\ ~open'
    BY DEF running
  <1>3. GeneratorTypeOK'
    <2>1. script' \in Seq(Steps) /\ Ordered(script')
      BY DEF Ordered
    <2>2. open' \in BOOLEAN
      OBVIOUS
    <2> QED BY <2>1, <2>2, Zenon DEF GeneratorTypeOK
  <1>4. OpenInv' /\ ProgressInv'
    BY <1>2 DEF OpenInv, ProgressInv
  <1>5. ForInv'
    BY <1>1 DEF ForInv
  <1>6. PartialInv'
    <2> SUFFICES ASSUME NEW h \in HwRevs, NEW other \in RevSteps, Unfinished(path_of(other, h))'
                 PROVE  Excused(h, other)'
      BY DEF PartialInv
    <2>1. state(path_of(other, h)) = "partial"
      BY <1>1 DEF Unfinished
    <2>2. CASE Unfinished(path_of(other, h))
      <3>1. Excused(h, other)
        BY <2>2 DEF PartialInv
      <3> QED BY <3>1, ExcusedStays
    <2>3. CASE open /\ path_of(other, h) = OpenPath
      <3>1. script # << >> /\ Head(script).name \in CachedNames
        BY <2>3 DEF OpenInv
      <3>2. PICK hw \in HwRevs : hw = hw_rev
        BY CurrentRun
      <3>3. PICK step \in Steps : step = Head(script)
        BY <3>1, CurrentStep
      <3>4. path_of(other, h) = path_of(step, hw)
        BY <2>3, <3>2, <3>3 DEF OpenPath
      <3>5. h = hw /\ step \in RevSteps /\ MadeFrom(other) = MadeFrom(step)
        BY <3>1, <3>3, <3>4, SamePath
      <3>6. step \in MadeFrom(step)
        BY <3>5, RevStepFacts
      <3>7. [hw |-> hw, in |-> {step}] \in interrupted'
        BY <2>3, <3>2, <3>3, <3>5
      <3>8. CutShort(hw, MadeFrom(step))'
        BY <3>6, <3>7 DEF CutShort
      <3> QED BY <3>5, <3>8 DEF Excused
    <2> QED BY <2>1, <2>2, <2>3 DEF Unfinished
  <1>7. LangpacksSound' /\ FirmwareSound'
    BY DeliveriesStay
  <1> QED BY <1>3, <1>4, <1>5, <1>6, <1>7

\* What a run that ends early adds to the history.
LEMMA AbortFacts ==
  ASSUME GeneratorTypeOK, running, script # << >>, Abort
  PROVE  /\ interrupted' \subseteq [hw : HwRevs, in : SUBSET Steps]
         /\ interrupted \subseteq interrupted'
         /\ Head(script).name \notin {"firmware", "sdk_zip", "sdk"} =>
              [hw |-> hw_rev, in |-> IF open THEN {Head(script)} ELSE {}] \in interrupted'
  <1>1. hw_rev \in HwRevs /\ Head(script) \in Steps
    BY CurrentRun, CurrentStep
  <1>2. PICK in \in SUBSET Steps : in = IF open THEN {Head(script)} ELSE {}
    BY <1>1
  <1>3. [hw |-> hw_rev, in |-> in] \in [hw : HwRevs, in : SUBSET Steps]
    BY <1>1
  <1>4. interrupted' = IF Head(script).name \in {"firmware", "sdk_zip", "sdk"} THEN interrupted
                       ELSE interrupted \union {[hw |-> hw_rev, in |-> in]}
    BY <1>2 DEF Abort
  <1>5. interrupted \subseteq [hw : HwRevs, in : SUBSET Steps]
    BY DEF GeneratorTypeOK
  <1> QED BY <1>2, <1>3, <1>4, <1>5

LEMMA EndPreserves ==
  ASSUME SoundInv, EndRun \/ Raise \/ Fail
  PROVE  SoundInv'
  <1>1. CASE EndRun
    <2>1. /\ running /\ script = << >> /\ request' = {}
          /\ UNCHANGED <<disk, tables, patched_with, script, open, delivered, interrupted, left_out>>
      BY <1>1 DEF EndRun, history
    <2>2. ~open /\ open \in BOOLEAN
      BY <2>1 DEF SoundInv, OpenInv, GeneratorTypeOK
    <2>3. open' = FALSE /\ script' = << >>
      BY <2>1, <2>2
    <2>4. /\ interrupted' \subseteq [hw : HwRevs, in : SUBSET Steps]
          /\ interrupted \subseteq interrupted'
      BY <2>1 DEF SoundInv, GeneratorTypeOK
    <2> QED BY <2>1, <2>2, <2>3, <2>4, StopPreserves
  <1>2. CASE Raise \/ Fail
    <2>1. running /\ script # << >> /\ Abort /\ GeneratorTypeOK
      BY <1>2 DEF Raise, Fail, SoundInv
    <2>2. /\ interrupted' \subseteq [hw : HwRevs, in : SUBSET Steps]
          /\ interrupted \subseteq interrupted'
          /\ Head(script).name \notin {"firmware", "sdk_zip", "sdk"} =>
               [hw |-> hw_rev, in |-> IF open THEN {Head(script)} ELSE {}] \in interrupted'
      BY <2>1, AbortFacts
    <2>3. \A hw \in HwRevs, step \in RevSteps :
            open /\ hw = hw_rev /\ step = Head(script) => [hw |-> hw, in |-> {step}] \in interrupted'
      <3> SUFFICES ASSUME NEW hw \in HwRevs, NEW step \in RevSteps,
                          open /\ hw = hw_rev /\ step = Head(script)
                   PROVE  [hw |-> hw, in |-> {step}] \in interrupted'
        OBVIOUS
      <3>1. Head(script).name \notin {"firmware", "sdk_zip", "sdk"}
        BY DEF RevSteps, RevNames
      <3>2. [hw |-> hw_rev, in |-> {Head(script)}] \in interrupted'
        BY <2>2, <3>1
      <3> QED BY <3>2
    <2>4. /\ request' = {} /\ script' = << >> /\ open' = FALSE
          /\ UNCHANGED <<disk, tables, patched_with, delivered, left_out>>
      BY <2>1 DEF Abort
    <2> QED BY <2>1, <2>2, <2>3, <2>4, StopPreserves
  <1> QED BY <1>1, <1>2

LEMMA EmptyScript == << >> \in Seq(Steps) /\ Ordered(<< >>)
  BY DEF Ordered

LEMMA SoundInit == GeneratorInit => SoundInv
  <1> SUFFICES ASSUME GeneratorInit PROVE SoundInv
    OBVIOUS
  <1> USE DEF GeneratorInit
  <1>1. \A p \in Paths : state(p) = "absent" /\ ~exists(p)
    BY DEF state, exists
  <1>2. GeneratorTypeOK
    <2>1. [state |-> "absent", for |-> <<"", "">>] \in [state : States, for : Fors]
      BY DEF States, Fors
    <2>2. disk \in [Paths -> [state : States, for : Fors]]
      BY <2>1
    <2>3. script \in Seq(Steps) /\ Ordered(script)
      <3>1. script = << >>
        OBVIOUS
      <3>2. << >> \in Seq(Steps) /\ Ordered(<< >>)
        BY EmptyScript
      <3> QED BY <3>1, <3>2, Zenon
    <2>4. /\ tables \in {"none", "arabic", "full"} /\ open \in BOOLEAN
          /\ patched_with \in [HwRevs -> {"none", "arabic", "full"}]
          /\ delivered = {} /\ interrupted = {} /\ left_out = {}
      OBVIOUS
    <2> QED BY <2>2, <2>3, <2>4 DEF GeneratorTypeOK
  <1>3. OpenInv /\ ProgressInv
    BY DEF OpenInv, ProgressInv, running
  <1>4. ForInv
    BY <1>1, PathFacts DEF ForInv
  <1>5. PartialInv
    BY <1>1, RevStepFacts, PathOfFacts DEF PartialInv, Unfinished
  <1>6. LangpacksSound /\ FirmwareSound
    BY DEF LangpacksSound, FirmwareSound
  <1> QED BY <1>2, <1>3, <1>4, <1>5, <1>6 DEF SoundInv

LEMMA SoundStep == SoundInv /\ [GeneratorNext]_generator_vars => SoundInv'
  <1> SUFFICES ASSUME SoundInv, [GeneratorNext]_generator_vars PROVE SoundInv'
    OBVIOUS
  <1>1. CASE \E r \in Requests : StartRun(r)
    BY <1>1, StartRunPreserves
  <1>2. CASE \/ download_firmware \/ unpack_fw \/ download_sdk_zip \/ download_sdk
             \/ unpack_resources \/ extract_fonts \/ generate_fonts \/ patch_firmware
    BY <1>2, CachedActions
  <1>3. CASE compose_tables
    BY <1>3, ComposeTablesPreserves
  <1>4. CASE leave_out_font
    BY <1>4, LeaveOutPreserves
  <1>5. CASE generate_langpack
    BY <1>5, GenerateLangpackPreserves
  <1>6. CASE pack_firmware
    BY <1>6, PackFirmwarePreserves
  <1>7. CASE EndRun \/ Raise \/ Fail
    BY <1>7, EndPreserves
  <1>8. CASE UNCHANGED generator_vars
    <2>1. UNCHANGED <<disk, tables, patched_with, request, script, open, delivered,
                      interrupted, left_out>>
      BY <1>8 DEF generator_vars, history
    <2>2. /\ hw_rev' = hw_rev /\ running' = running /\ Pending' = Pending /\ OpenPath' = OpenPath
          /\ \A p : state(p)' = state(p) /\ exists(p)' = exists(p)
      BY <2>1 DEF hw_rev, running, Pending, OpenPath, state, exists
    <2>3. GeneratorTypeOK'
      BY <2>1, Zenon DEF SoundInv, GeneratorTypeOK
    <2>4. OpenInv' /\ ProgressInv'
      BY <2>1, <2>2 DEF SoundInv, OpenInv, ProgressInv, state
    <2>5. ForInv'
      BY <2>1, <2>2 DEF SoundInv, ForInv
    <2>6. PartialInv'
      BY <2>1, <2>2 DEF SoundInv, PartialInv, Unfinished, Excused, CutShort
    <2>7. LangpacksSound' /\ FirmwareSound'
      BY <2>1, DeliveriesStay DEF SoundInv
    <2> QED BY <2>3, <2>4, <2>5, <2>6, <2>7 DEF SoundInv
  <1> QED BY <1>1, <1>2, <1>3, <1>4, <1>5, <1>6, <1>7, <1>8 DEF GeneratorNext

-----------------------------------------------------------------------------
(* What the runs deliver *)

LEMMA SoundAlways == GeneratorSpec => []SoundInv
  BY SoundInit, SoundStep, PTL DEF GeneratorSpec

\* Whatever runs came before and wherever they ended, the language packs that
\* generator.py delivers are made of the fonts of their own revision and size. They
\* lack fonts only if compose.py left some out of this size, or if it was cut short in
\* composing them, or a step their sources come from was, in a run for the same
\* revision.
THEOREM LangpacksAlwaysSound == GeneratorSpec => []LangpacksSound
  <1>1. SoundInv => LangpacksSound
    BY DEF SoundInv
  <1> QED BY <1>1, SoundAlways, PTL

\* Whatever runs came before and wherever they ended, a firmware that generator.py
\* delivers is a complete patched image of its own revision, unless the unpacking of
\* the stock firmware was cut short, or the one write of patch.py's output.
THEOREM FirmwareAlwaysSound == GeneratorSpec => []FirmwareSound
  <1>1. SoundInv => FirmwareSound
    BY DEF SoundInv
  <1> QED BY <1>1, SoundAlways, PTL

-----------------------------------------------------------------------------
(* The tables and the fonts *)

\* The revisions with a run that ended early.
Stopped == {e.hw : e \in interrupted}

\* All fonts of a revision are made, or left out, before its image is patched. While it
\* has no patched image, its fonts have only just been generated: by the current run,
\* which has yet to patch, and with the tables as they are now.
FontsFirst ==
  /\ running => \A size \in Sizes :
       Step("compose", size) \in Pending \/ exists(new_fonts_path(hw_rev, size))
  /\ \A hw \in HwRevs, size \in Sizes :
       exists(patched_path(hw)) =>
         /\ exists(new_fonts_path(hw, size))
         /\ open => OpenPath # new_fonts_path(hw, size)

TablesInv ==
  \A hw \in HwRevs \ Stopped, size \in Sizes :
    /\ exists(patched_path(hw)) /\ state(new_fonts_path(hw, size)) = "complete" =>
         patched_with[hw] = Subset(hw)
    /\ ~exists(patched_path(hw)) /\ exists(new_fonts_path(hw, size)) =>
         /\ running /\ hw_rev = hw
         /\ \A t \in Pending : t.name \notin {"firmware", "sdk_zip", "sdk"}
         /\ state(new_fonts_path(hw, size)) = "complete" => tables = Subset(hw)

\* What a step that makes a path does: it creates it, or leaves it at once if it exists,
\* or ends its work on it.
MakesOwnPath ==
  /\ running /\ script # << >> /\ Head(script).name \in CachedNames
  /\ \A p \in Paths : p # OpenPath => state(p)' = state(p)
  /\ \A p \in Paths : p = OpenPath => exists(p)'
  /\ hw_rev' = hw_rev /\ running'
  /\ UNCHANGED <<tables, interrupted>>
  /\ \A t \in Pending : t # Head(script) => t \in Pending'
  /\ Pending' \subseteq Pending
  /\ \/ /\ script' = script /\ ~open /\ open' /\ ~exists(OpenPath)
        /\ \A p \in Paths : p = OpenPath => state(p)' = "partial"
     \/ /\ ~open' /\ exists(OpenPath)
        /\ open \/ disk' = disk

\* The patched image gets the tables as they are.
CompilesTables ==
  patched_with' = IF Head(script).name = "patch" /\ ~exists(OpenPath)
                  THEN [patched_with EXCEPT ![hw_rev] = tables] ELSE patched_with

LEMMA CachedEffect ==
  ASSUME SoundInv, running, script # << >>, Head(script).name \in CachedNames,
         NEW inputs, Cached(OpenPath, inputs), UNCHANGED <<tables, request, history>>
  PROVE  MakesOwnPath
  <1> USE DEF SoundInv
  <1>1. hw_rev' = hw_rev /\ running' /\ UNCHANGED <<tables, interrupted>>
    BY DEF hw_rev, running, history
  <1>2. PICK P \in Paths : P = OpenPath
    BY OpenPathFacts
  <1>3. CASE Reuse(OpenPath)
    <2>1. Pending' = Pending \ {Head(script)} /\ disk' = disk /\ ~open' /\ exists(P)
      BY <1>2, <1>3, CurrentStep DEF Reuse, Return, Pending
    <2>2. \A p : state(p)' = state(p) /\ exists(p)' = exists(p)
      BY <2>1 DEF exists, state
    <2> QED BY <1>1, <1>2, <2>1, <2>2 DEF MakesOwnPath
  <1>4. CASE Create(OpenPath)
    <2>1. script' = script /\ Pending' = Pending /\ ~open /\ open' /\ ~exists(OpenPath)
      BY <1>4 DEF Create, Pending
    <2>2. state(P)' = "partial" /\ \A p \in Paths : p # P => state(p)' = state(p)
      <3>1. Made(P, "partial") /\ "partial" \in States
        BY <1>2, <1>4 DEF Create, States
      <3> QED BY <3>1, MadeFacts
    <2>3. exists(P)'
      BY <2>2 DEF exists
    <2> QED BY <1>1, <1>2, <2>1, <2>2, <2>3 DEF MakesOwnPath
  <1>5. CASE Fill(OpenPath, inputs)
    <2>1. Pending' = Pending \ {Head(script)} /\ ~open' /\ open
      BY <1>5, CurrentStep DEF Fill, Return, Pending
    <2>2. exists(P)
      BY <1>2, <2>1 DEF OpenInv, exists
    <2>3. PICK t \in Results(inputs) : Made(P, t)
      BY <1>2, <1>5 DEF Fill
    <2>4. t \in {"partial", "complete"} /\ t \in States
      BY DEF Results, States
    <2>5. state(P)' = t /\ \A p \in Paths : p # P => state(p)' = state(p)
      BY <2>3, <2>4, MadeFacts
    <2>6. exists(P)'
      BY <2>4, <2>5 DEF exists
    <2> QED BY <1>1, <1>2, <2>1, <2>2, <2>5, <2>6 DEF MakesOwnPath
  <1> QED BY <1>3, <1>4, <1>5 DEF Cached

LEMMA LeaveOutEffect ==
  ASSUME SoundInv, leave_out_font
  PROVE  /\ MakesOwnPath /\ Head(script).name = "compose" /\ patched_with' = patched_with
         /\ \A p \in Paths : p = OpenPath => state(p)' = "partial"
  <1> USE DEF SoundInv
  <1>1. /\ running /\ script # << >> /\ Head(script).name = "compose"
        /\ open /\ ~open' /\ script' = Tail(script)
        /\ UNCHANGED <<tables, patched_with, request, interrupted>>
    BY DEF leave_out_font, At, Return
  <1>2. Head(script).name \in CachedNames /\ Made(OpenPath, "partial")
    BY <1>1 DEF CachedNames, OpenPath, path_of, leave_out_font, size_shift_key
  <1>3. PICK P \in Paths : P = OpenPath
    BY <1>1, <1>2, OpenPathFacts
  <1>4. state(P)' = "partial" /\ \A p \in Paths : p # P => state(p)' = state(p)
    <2>1. Made(P, "partial") /\ "partial" \in States
      BY <1>2, <1>3 DEF States
    <2> QED BY <1>1, <2>1, MadeFacts
  <1>5. exists(P)' /\ exists(P)
    BY <1>1, <1>3, <1>4 DEF OpenInv, exists
  <1>6. hw_rev' = hw_rev /\ running' /\ Pending' = Pending \ {Head(script)}
    BY <1>1, CurrentStep DEF hw_rev, running, Pending
  <1>7. \A t \in Pending : t # Head(script) => t \in Pending'
    BY <1>6
  <1> QED BY <1>1, <1>2, <1>3, <1>4, <1>5, <1>6, <1>7 DEF MakesOwnPath

LEMMA OwnPathFontsFirst ==
  ASSUME SoundInv, FontsFirst, MakesOwnPath
  PROVE  FontsFirst'
  <1> USE DEF SoundInv
  <1>1. running /\ script # << >> /\ Head(script).name \in CachedNames
    BY DEF MakesOwnPath
  <1>2. PICK hw \in HwRevs : hw = hw_rev
    BY <1>1, CurrentRun
  <1>3. PICK P \in Paths : P = OpenPath
    BY <1>1, OpenPathFacts
  <1>4. /\ \A p \in Paths : p # P => exists(p)' = exists(p)
        /\ exists(P)' /\ hw_rev' = hw
        /\ \A t \in Pending : t # Head(script) => t \in Pending'
        /\ \/ script' = script /\ ~open /\ open' /\ ~exists(P)
           \/ ~open' /\ exists(P)
    BY <1>2, <1>3 DEF MakesOwnPath, exists
  <1>5. \A p \in Paths : exists(p) => exists(p)'
    BY <1>4
  <1>6. \A h \in HwRevs :
          /\ P = patched_path(h) <=> Head(script).name = "patch" /\ h = hw
          /\ \A size \in Sizes : P = new_fonts_path(h, size)
               <=> Head(script).name = "compose" /\ Head(script).size = size /\ h = hw
    BY <1>1, <1>2, <1>3, OpenPathFacts
  <1>7. \A h \in HwRevs : /\ patched_path(h) \in Paths
                          /\ \A size \in Sizes : new_fonts_path(h, size) \in Paths
    BY PathFacts
  <1>8. ASSUME NEW size \in Sizes
        PROVE  Step("compose", size) \in Pending' \/ exists(new_fonts_path(hw, size))'
    <2>1. CASE Step("compose", size) = Head(script)
      <3>1. Head(script).name = "compose" /\ Head(script).size = size
        BY <2>1, StepFields
      <3>2. P = new_fonts_path(hw, size)
        BY <1>6, <3>1
      <3> QED BY <1>4, <3>2
    <2>2. CASE Step("compose", size) # Head(script)
      BY <1>1, <1>2, <1>4, <1>5, <1>7, <2>2 DEF FontsFirst
    <2> QED BY <2>1, <2>2
  <1>9. ASSUME NEW h \in HwRevs, NEW size \in Sizes, exists(patched_path(h))'
        PROVE  exists(new_fonts_path(h, size))' /\ (open' => OpenPath' # new_fonts_path(h, size))
    <2>1. exists(new_fonts_path(h, size))
      <3>1. CASE exists(patched_path(h))
        BY <3>1 DEF FontsFirst
      <3>2. CASE ~exists(patched_path(h))
        <4>1. P = patched_path(h)
          BY <1>4, <1>7, <1>9, <3>2
        <4>2. Head(script).name = "patch" /\ h = hw
          BY <1>6, <4>1
        <4> QED BY <1>1, <1>2, <4>2, Reached DEF FontsFirst
      <3> QED BY <3>1, <3>2
    <2>2. exists(new_fonts_path(h, size))'
      BY <1>5, <1>7, <2>1
    <2>3. ASSUME open' PROVE OpenPath' # new_fonts_path(h, size)
      <3>1. script' = script /\ ~exists(P)
        BY <1>4, <2>3
      <3>2. OpenPath' = P
        BY <1>2, <1>3, <1>4, <3>1 DEF OpenPath
      <3> QED BY <2>1, <3>1, <3>2
    <2> QED BY <2>2, <2>3
  <1> QED BY <1>4, <1>8, <1>9 DEF FontsFirst

\* Fonts are complete only if they were composed with the tables of the revision.
LEMMA OwnPathTables ==
  ASSUME SoundInv, FontsFirst, TablesInv, MakesOwnPath, CompilesTables,
         \A p \in Paths : Head(script).name = "compose" /\ open /\ p = OpenPath =>
           state(p)' # "complete" \/ tables = Subset(hw_rev) \/ hw_rev \in Stopped
  PROVE  TablesInv'
  <1> USE DEF SoundInv
  <1>1. running /\ script # << >> /\ Head(script).name \in CachedNames
    BY DEF MakesOwnPath
  <1>2. PICK hw \in HwRevs : hw = hw_rev
    BY <1>1, CurrentRun
  <1>3. PICK P \in Paths : P = OpenPath
    BY <1>1, OpenPathFacts
  <1>4. /\ \A p \in Paths : p # P => state(p)' = state(p) /\ exists(p)' = exists(p)
        /\ exists(P)' /\ hw_rev' = hw /\ running'
        /\ UNCHANGED <<tables, interrupted>> /\ Pending' \subseteq Pending
        /\ \/ ~open /\ ~exists(P) /\ state(P)' = "partial"
           \/ exists(P) /\ (open \/ state(P)' = state(P))
    BY <1>2, <1>3 DEF MakesOwnPath, exists, state
  <1>5. \A h \in HwRevs :
          /\ P = patched_path(h) <=> Head(script).name = "patch" /\ h = hw
          /\ \A size \in Sizes : P = new_fonts_path(h, size)
               <=> Head(script).name = "compose" /\ Head(script).size = size /\ h = hw
    BY <1>1, <1>2, <1>3, OpenPathFacts
  <1>6. Stopped' = Stopped
    BY <1>4 DEF Stopped
  <1> SUFFICES ASSUME NEW h \in HwRevs \ Stopped, NEW size \in Sizes
               PROVE  /\ exists(patched_path(h))' /\ state(new_fonts_path(h, size))' = "complete" =>
                           patched_with'[h] = Subset(h)
                      /\ ~exists(patched_path(h))' /\ exists(new_fonts_path(h, size))' =>
                           /\ hw = h
                           /\ \A t \in Pending' : t.name \notin {"firmware", "sdk_zip", "sdk"}
                           /\ state(new_fonts_path(h, size))' = "complete" => tables = Subset(h)
    BY <1>4, <1>6 DEF TablesInv
  <1>7. patched_path(h) \in Paths /\ new_fonts_path(h, size) \in Paths
    BY PathFacts
  <1>8. patched_with \in [HwRevs -> {"none", "arabic", "full"}]
    BY DEF GeneratorTypeOK
  <1>9. ASSUME exists(patched_path(h)), state(new_fonts_path(h, size))' = "complete"
        PROVE  patched_with'[h] = Subset(h)
    <2>1. exists(new_fonts_path(h, size)) /\ (open => P # new_fonts_path(h, size))
      BY <1>3, <1>9 DEF FontsFirst
    <2>2. state(new_fonts_path(h, size))' = state(new_fonts_path(h, size))
      BY <1>4, <1>7, <2>1
    <2>3. patched_with[h] = Subset(h)
      BY <1>9, <2>2 DEF TablesInv
    <2>4. patched_with'[h] = patched_with[h]
      <3>1. CASE Head(script).name = "patch" /\ ~exists(P)
        <4>1. h # hw
          BY <1>5, <1>9, <3>1
        <4> QED BY <1>2, <1>3, <1>8, <3>1, <4>1 DEF CompilesTables
      <3>2. CASE ~(Head(script).name = "patch" /\ ~exists(P))
        BY <1>3, <3>2 DEF CompilesTables
      <3> QED BY <3>1, <3>2
    <2> QED BY <2>3, <2>4
  <1>10. ASSUME ~exists(patched_path(h)), exists(patched_path(h))',
                state(new_fonts_path(h, size))' = "complete"
         PROVE  patched_with'[h] = Subset(h)
    <2>1. P = patched_path(h)
      BY <1>4, <1>7, <1>10
    <2>2. Head(script).name = "patch" /\ h = hw /\ ~exists(P)
      BY <1>5, <1>10, <2>1
    <2>3. P # new_fonts_path(h, size)
      BY <1>5, <2>2
    <2>4. state(new_fonts_path(h, size)) = "complete"
      BY <1>4, <1>7, <1>10, <2>3
    <2>5. tables = Subset(h)
      BY <1>10, <2>4 DEF TablesInv, exists
    <2>6. patched_with'[h] = tables
      BY <1>2, <1>3, <1>8, <2>2 DEF CompilesTables
    <2> QED BY <2>5, <2>6
  <1>11. ASSUME ~exists(patched_path(h))', exists(new_fonts_path(h, size))'
         PROVE  /\ hw = h
                /\ \A t \in Pending' : t.name \notin {"firmware", "sdk_zip", "sdk"}
                /\ state(new_fonts_path(h, size))' = "complete" => tables = Subset(h)
    <2>1. ~exists(patched_path(h))
      BY <1>4, <1>7, <1>11
    <2>2. CASE P = new_fonts_path(h, size)
      <3>1. Head(script).name = "compose" /\ h = hw
        BY <1>5, <2>2
      <3>2. \A t \in Pending : t.name \notin {"firmware", "sdk_zip", "sdk"}
        BY <1>1, <3>1, Reached DEF FontStepNames
      <3>3. ASSUME state(P)' = "complete" PROVE tables = Subset(h)
        <4>1. exists(P) /\ (open \/ state(P) = "complete")
          BY <1>4, <3>3
        <4>2. CASE open
          BY <1>2, <1>3, <3>1, <3>3, <4>2
        <4>3. CASE ~open
          BY <2>1, <2>2, <4>1, <4>3 DEF TablesInv
        <4> QED BY <4>2, <4>3
      <3> QED BY <1>4, <2>2, <3>1, <3>2, <3>3
    <2>3. CASE P # new_fonts_path(h, size)
      <3>1. /\ exists(new_fonts_path(h, size))
            /\ state(new_fonts_path(h, size))' = state(new_fonts_path(h, size))
        BY <1>4, <1>7, <1>11, <2>3
      <3> QED BY <1>2, <1>4, <2>1, <3>1 DEF TablesInv
    <2> QED BY <2>2, <2>3
  <1> QED BY <1>9, <1>10, <1>11

LEMMA CachedActionsTables ==
  ASSUME SoundInv, FontsFirst, TablesInv,
         \/ download_firmware \/ unpack_fw \/ download_sdk_zip \/ download_sdk
         \/ unpack_resources \/ extract_fonts \/ generate_fonts \/ patch_firmware
  PROVE  FontsFirst' /\ TablesInv'
  <1>1. ASSUME Head(script).name \notin {"compose", "patch"}, Same, MakesOwnPath
        PROVE  FontsFirst' /\ TablesInv'
    <2>1. CompilesTables
      BY <1>1 DEF CompilesTables, Same
    <2> QED BY <1>1, <2>1, OwnPathFontsFirst, OwnPathTables
  <1>2. Same => UNCHANGED <<tables, request, history>>
    BY DEF Same
  <1>3. CASE download_firmware
    <2>1. running /\ script # << >> /\ Head(script).name = "firmware"
      BY <1>3 DEF download_firmware, At
    <2>2. OpenPath = pbz_path(hw_rev) /\ Head(script).name \in CachedNames
      BY <2>1 DEF OpenPath, path_of, CachedNames
    <2> QED BY <1>1, <1>2, <1>3, <2>1, <2>2, CachedEffect DEF download_firmware
  <1>4. CASE unpack_fw
    <2>1. running /\ script # << >> /\ Head(script).name = "unpack"
      BY <1>4 DEF unpack_fw, At
    <2>2. OpenPath = fw_path(hw_rev) /\ Head(script).name \in CachedNames
      BY <2>1 DEF OpenPath, path_of, CachedNames
    <2> QED BY <1>1, <1>2, <1>4, <2>1, <2>2, CachedEffect DEF unpack_fw
  <1>5. CASE download_sdk_zip
    <2>1. running /\ script # << >> /\ Head(script).name = "sdk_zip"
      BY <1>5 DEF download_sdk_zip, At
    <2>2. OpenPath = sdk_zip_path /\ Head(script).name \in CachedNames
      BY <2>1 DEF OpenPath, path_of, CachedNames
    <2> QED BY <1>1, <1>2, <1>5, <2>1, <2>2, CachedEffect DEF download_sdk_zip
  <1>6. CASE download_sdk
    <2>1. running /\ script # << >> /\ Head(script).name = "sdk"
      BY <1>6 DEF download_sdk, At
    <2>2. OpenPath = sdk_path /\ Head(script).name \in CachedNames
      BY <2>1 DEF OpenPath, path_of, CachedNames
    <2> QED BY <1>1, <1>2, <1>6, <2>1, <2>2, CachedEffect DEF download_sdk
  <1>7. CASE unpack_resources
    <2>1. running /\ script # << >> /\ Head(script).name = "resources"
      BY <1>7 DEF unpack_resources, At
    <2>2. OpenPath = res_path(hw_rev) /\ Head(script).name \in CachedNames
      BY <2>1 DEF OpenPath, path_of, CachedNames
    <2> QED BY <1>1, <1>2, <1>7, <2>1, <2>2, CachedEffect DEF unpack_resources
  <1>8. CASE extract_fonts
    <2>1. running /\ script # << >> /\ Head(script).name = "fonts"
      BY <1>8 DEF extract_fonts, At
    <2>2. OpenPath = fonts_path(hw_rev) /\ Head(script).name \in CachedNames
      BY <2>1 DEF OpenPath, path_of, CachedNames
    <2> QED BY <1>1, <1>2, <1>8, <2>1, <2>2, CachedEffect DEF extract_fonts
  <1>9. CASE generate_fonts
    <2>1. running /\ script # << >> /\ Head(script).name = "compose"
      BY <1>9 DEF generate_fonts, At
    <2>2. OpenPath = new_fonts_path(hw_rev, size_shift_key) /\ Head(script).name \in CachedNames
      BY <2>1 DEF OpenPath, path_of, CachedNames, size_shift_key
    <2>3. open => tables = Subset(hw_rev) \/ hw_rev \in Stopped
      <3>1. open => tables = Subset(hw_rev) \/ CutShort(hw_rev, MadeFrom(Head(script)))
        BY <1>9, <2>1, InputsComplete DEF generate_fonts
      <3>2. CutShort(hw_rev, MadeFrom(Head(script))) => hw_rev \in Stopped
        BY DEF CutShort, Stopped
      <3> QED BY <3>1, <3>2
    <2>4. MakesOwnPath
      BY <1>2, <1>9, <2>1, <2>2, CachedEffect DEF generate_fonts
    <2>5. CompilesTables
      BY <1>9, <2>1 DEF CompilesTables, Same, generate_fonts
    <2> QED BY <2>3, <2>4, <2>5, OwnPathFontsFirst, OwnPathTables
  <1>10. CASE patch_firmware
    <2>1. /\ running /\ script # << >> /\ Head(script).name = "patch"
          /\ UNCHANGED <<tables, request, history>>
      BY <1>10 DEF patch_firmware, At
    <2>2. OpenPath = patched_path(hw_rev) /\ Head(script).name \in CachedNames
      BY <2>1 DEF OpenPath, path_of, CachedNames
    <2>3. MakesOwnPath
      BY <1>10, <2>1, <2>2, CachedEffect DEF patch_firmware
    <2>4. CompilesTables
      BY <1>10, <2>1, <2>2 DEF CompilesTables, patch_firmware
    <2> QED BY <2>1, <2>3, <2>4, OwnPathFontsFirst, OwnPathTables
  <1> QED BY <1>3, <1>4, <1>5, <1>6, <1>7, <1>8, <1>9, <1>10

LEMMA LeaveOutTables ==
  ASSUME SoundInv, FontsFirst, TablesInv, leave_out_font
  PROVE  FontsFirst' /\ TablesInv'
  <1>1. /\ MakesOwnPath /\ Head(script).name = "compose" /\ patched_with' = patched_with
        /\ \A p \in Paths : p = OpenPath => state(p)' = "partial"
    BY LeaveOutEffect
  <1>2. CompilesTables
    BY <1>1 DEF CompilesTables
  <1> QED BY <1>1, <1>2, OwnPathFontsFirst, OwnPathTables

\* The tables are replaced by those of the revision of the run.
LEMMA ComposeTablesTables ==
  ASSUME SoundInv, FontsFirst, TablesInv, compose_tables
  PROVE  FontsFirst' /\ TablesInv'
  <1>1. /\ UNCHANGED <<disk, patched_with, request, script, open, interrupted>>
        /\ tables' = Subset(hw_rev)
    BY DEF compose_tables, history
  <1>2. /\ hw_rev' = hw_rev /\ running' = running /\ Pending' = Pending /\ OpenPath' = OpenPath
        /\ \A p : exists(p)' = exists(p) /\ state(p)' = state(p)
        /\ Stopped' = Stopped
    BY <1>1 DEF hw_rev, running, Pending, OpenPath, state, exists, Stopped
  <1>3. FontsFirst'
    BY <1>1, <1>2 DEF FontsFirst
  <1>4. TablesInv'
    BY <1>1, <1>2 DEF TablesInv
  <1> QED BY <1>3, <1>4

LEMMA DeliverTables ==
  ASSUME SoundInv, FontsFirst, TablesInv, generate_langpack \/ pack_firmware
  PROVE  FontsFirst' /\ TablesInv'
  <1>1. /\ running /\ script # << >> /\ Head(script).name \in {"pack", "pbz"}
        /\ script' = Tail(script)
        /\ UNCHANGED <<disk, tables, patched_with, request, open, interrupted>>
    BY DEF generate_langpack, pack_firmware, At, Return, history
  <1>2. /\ hw_rev' = hw_rev /\ running' /\ Pending' = Pending \ {Head(script)}
        /\ \A p : exists(p)' = exists(p) /\ state(p)' = state(p)
        /\ Stopped' = Stopped
    BY <1>1, CurrentStep DEF SoundInv, hw_rev, running, Pending, state, exists, Stopped
  <1>3. ~open /\ ~open'
    BY <1>1 DEF SoundInv, OpenInv, CachedNames
  <1>4. \A size : Step("compose", size) # Head(script)
    BY <1>1, StepFields
  <1>5. FontsFirst'
    BY <1>1, <1>2, <1>3, <1>4 DEF FontsFirst
  <1>6. TablesInv'
    BY <1>1, <1>2 DEF TablesInv
  <1> QED BY <1>5, <1>6

LEMMA StartRunTables ==
  ASSUME SoundInv, FontsFirst, TablesInv, NEW r \in Requests, r.langpacks = TRUE, StartRun(r)
  PROVE  FontsFirst' /\ TablesInv'
  <1>1. /\ ~running /\ request' = {r} /\ script' = main(r)
        /\ UNCHANGED <<disk, tables, patched_with, open, interrupted>>
    BY DEF StartRun, history
  <1>2. Pending' = Steps
    <2>1. r.langpacks \in BOOLEAN
      BY GeneratorAssumption
    <2>2. Elems(main(r)) = IF r.langpacks THEN Steps ELSE PlainSteps
      BY <2>1, MainFacts
    <2>3. Elems(main(r)) = Steps
      BY <2>2
    <2> QED BY <1>1, <2>3 DEF Pending
  <1>3. \A size \in Sizes : Step("compose", size) \in Pending'
    BY <1>2, StepRanks DEF FontStepNames
  <1>4. (\A p : exists(p)' = exists(p) /\ state(p)' = state(p)) /\ Stopped' = Stopped
    BY <1>1 DEF state, exists, Stopped
  <1>5. ~open /\ ~open'
    BY <1>1 DEF SoundInv, OpenInv
  <1>6. FontsFirst'
    BY <1>3, <1>4, <1>5 DEF FontsFirst
  <1>7. TablesInv'
    BY <1>1, <1>4 DEF TablesInv
  <1> QED BY <1>6, <1>7

\* A run that ends early with fonts and without a patched image was past its downloads.
LEMMA EndTables ==
  ASSUME SoundInv, FontsFirst, TablesInv, EndRun \/ Raise \/ Fail
  PROVE  FontsFirst' /\ TablesInv'
  <1>1. running /\ request' = {} /\ UNCHANGED <<disk, tables, patched_with>>
    BY DEF EndRun, Raise, Fail, Abort
  <1>2. ~running' /\ \A p : exists(p)' = exists(p) /\ state(p)' = state(p)
    BY <1>1 DEF running, state, exists
  <1>3. PICK hw \in HwRevs : hw = hw_rev
    BY <1>1, CurrentRun DEF SoundInv
  <1>4. \/ script = << >> /\ interrupted' = interrupted /\ open' = open
        \/ script # << >> /\ Abort
    BY DEF EndRun, Raise, Fail, history
  <1>5. \/ script = << >> /\ Stopped \subseteq Stopped'
        \/ /\ script # << >> /\ Stopped \subseteq Stopped'
           /\ hw \in Stopped' \/ Head(script).name \in {"firmware", "sdk_zip", "sdk"}
    <2>1. CASE script = << >> /\ interrupted' = interrupted
      BY <2>1 DEF Stopped
    <2>2. CASE script # << >> /\ Abort
      <3>1. /\ interrupted \subseteq interrupted'
            /\ Head(script).name \notin {"firmware", "sdk_zip", "sdk"} =>
                 [hw |-> hw_rev, in |-> IF open THEN {Head(script)} ELSE {}] \in interrupted'
        BY <1>1, <2>2, AbortFacts DEF SoundInv
      <3>2. Stopped \subseteq Stopped'
        BY <3>1 DEF Stopped
      <3>3. \A i : [hw |-> hw, in |-> i] \in interrupted' => hw \in Stopped'
        BY DEF Stopped
      <3> QED BY <1>3, <2>2, <3>1, <3>2, <3>3
    <2> QED BY <1>4, <2>1, <2>2
  <1>6. ~open'
    BY <1>4 DEF SoundInv, OpenInv, Abort
  <1>7. FontsFirst'
    BY <1>2, <1>6 DEF FontsFirst
  <1>8. ASSUME NEW h \in HwRevs \ Stopped', NEW size \in Sizes
        PROVE  /\ exists(patched_path(h)) /\ state(new_fonts_path(h, size)) = "complete" =>
                    patched_with[h] = Subset(h)
               /\ ~exists(patched_path(h)) => ~exists(new_fonts_path(h, size))
    <2>1. h \notin Stopped
      BY <1>5
    <2>2. exists(patched_path(h)) /\ state(new_fonts_path(h, size)) = "complete" =>
            patched_with[h] = Subset(h)
      BY <2>1 DEF TablesInv
    <2>3. ASSUME ~exists(patched_path(h)), exists(new_fonts_path(h, size))
          PROVE  FALSE
      <3>1. hw_rev = h /\ \A t \in Pending : t.name \notin {"firmware", "sdk_zip", "sdk"}
        BY <2>1, <2>3 DEF TablesInv
      <3>2. CASE script = << >>
        <4>1. Pending = {}
          BY <3>2 DEF Pending, Elems
        <4> QED BY <1>1, <2>3, <3>1, <4>1 DEF SoundInv, ProgressInv
      <3>3. CASE script # << >>
        <4>1. Head(script).name \notin {"firmware", "sdk_zip", "sdk"}
          BY <1>1, <3>1, <3>3, CurrentStep DEF SoundInv
        <4> QED BY <1>3, <1>5, <3>1, <3>3, <4>1
      <3> QED BY <3>2, <3>3
    <2> QED BY <2>2, <2>3
  <1>9. TablesInv'
    BY <1>1, <1>2, <1>8 DEF TablesInv
  <1> QED BY <1>7, <1>9

LEMMA TablesInit == GeneratorInit => FontsFirst /\ TablesInv
  <1> SUFFICES ASSUME GeneratorInit PROVE FontsFirst /\ TablesInv
    OBVIOUS
  <1>1. \A p \in Paths : ~exists(p)
    BY DEF GeneratorInit, state, exists
  <1>2. ~running
    BY DEF GeneratorInit, running
  <1> QED BY <1>1, <1>2, PathFacts DEF FontsFirst, TablesInv

LEMMA TablesStep ==
  ASSUME \A r \in Requests : r.langpacks
  PROVE  SoundInv /\ FontsFirst /\ TablesInv /\ [GeneratorNext]_generator_vars
           => FontsFirst' /\ TablesInv'
  <1> SUFFICES ASSUME SoundInv, FontsFirst, TablesInv, [GeneratorNext]_generator_vars
               PROVE  FontsFirst' /\ TablesInv'
    OBVIOUS
  <1>1. CASE \E r \in Requests : StartRun(r)
    <2>1. PICK r \in Requests : StartRun(r)
      BY <1>1
    <2>2. r.langpacks = TRUE
      BY GeneratorAssumption, Zenon
    <2> QED BY <2>1, <2>2, StartRunTables
  <1>2. CASE \/ download_firmware \/ unpack_fw \/ download_sdk_zip \/ download_sdk
             \/ unpack_resources \/ extract_fonts \/ generate_fonts \/ patch_firmware
    BY <1>2, CachedActionsTables
  <1>3. CASE compose_tables
    BY <1>3, ComposeTablesTables
  <1>4. CASE leave_out_font
    BY <1>4, LeaveOutTables
  <1>5. CASE generate_langpack \/ pack_firmware
    BY <1>5, DeliverTables
  <1>6. CASE EndRun \/ Raise \/ Fail
    BY <1>6, EndTables
  <1>7. CASE UNCHANGED generator_vars
    <2>1. UNCHANGED <<disk, tables, patched_with, request, script, open, interrupted>>
      BY <1>7 DEF generator_vars, history
    <2>2. /\ hw_rev' = hw_rev /\ running' = running /\ Pending' = Pending /\ OpenPath' = OpenPath
          /\ \A p : exists(p)' = exists(p) /\ state(p)' = state(p)
          /\ Stopped' = Stopped
      BY <2>1 DEF hw_rev, running, Pending, OpenPath, state, exists, Stopped
    <2>3. FontsFirst'
      BY <2>1, <2>2 DEF FontsFirst
    <2>4. TablesInv'
      BY <2>1, <2>2 DEF TablesInv
    <2> QED BY <2>3, <2>4
  <1> QED BY <1>1, <1>2, <1>3, <1>4, <1>5, <1>6, <1>7 DEF GeneratorNext

\* If generator.py is always asked for language packs too, the tables compiled into a
\* patched firmware are those its fonts were generated with, unless a run for the
\* revision was interrupted. (Without language packs in some run it need not be so.)
THEOREM TablesAlwaysMatch ==
  ASSUME \A r \in Requests : r.langpacks
  PROVE  GeneratorSpec => []TablesMatch
  <1>1. GeneratorInit => SoundInv /\ FontsFirst /\ TablesInv
    BY SoundInit, TablesInit
  <1>2. SoundInv /\ FontsFirst /\ TablesInv /\ [GeneratorNext]_generator_vars
          => (SoundInv /\ FontsFirst /\ TablesInv)'
    BY SoundStep, TablesStep
  <1>3. TablesInv => TablesMatch
    BY DEF TablesInv, TablesMatch, Stopped
  <1> QED BY <1>1, <1>2, <1>3, PTL DEF GeneratorSpec

=============================================================================
