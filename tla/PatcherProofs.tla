---------------------------- MODULE PatcherProofs ----------------------------
(***************************************************************************)
(* For every firmware, every set of detours in its code and every patch:   *)
(* in an image that finalize writes, each detour leads to the code of its  *)
(* symbol, no overwritten instruction is lost, and the rest of the stock   *)
(* firmware and its footer are kept.  The invariant follows the queue      *)
(* (detours are apart and know where they return to), the linker (where a  *)
(* symbol is, its code is) and the relocation loop (what is pasted so far).*)
(***************************************************************************)
EXTENDS Patcher, FiniteSetTheorems, TLAPS

(***************************************************************************)
(* Branches.                                                               *)
(***************************************************************************)
\* The branch that finalize pastes leads where it should for every distance
\* of less than 4 MB in either direction: i1 and i2 are taken from bits 23 and 22
\* of the offset and the processor takes them for bits 22 and 21, but there these
\* are all alike.  The offset 0 is excluded, for s is then 1.
THEOREM BranchRoundTrip ==
  ASSUME NEW offset \in Int, -2097152 <= offset, offset < 2097152, offset # 0
  PROVE  decode(encode(offset)) = offset
<1> DEFINE s == IF offset > 0 THEN 0 ELSE 1
           imm10 == (offset \div 2048) % 1024
           imm11 == offset % 2048
           instr == encode(offset)
<1>1. bit(offset, 8388608) = s /\ bit(offset, 4194304) = s
  <2>1. CASE offset > 0
    <3>1. offset \div 8388608 = 0 /\ offset \div 4194304 = 0 BY SMT, <2>1
    <3> QED BY SMT, <2>1, <3>1 DEF bit
  <2>2. CASE offset < 0
    <3>1. offset \div 8388608 = -1 /\ offset \div 4194304 = -1 BY SMT, <2>2
    <3> QED BY SMT, <2>2, <3>1 DEF bit
  <2> QED BY SMT, <2>1, <2>2
<1>2. instr.hi = 61440 + s * 1024 + imm10 /\ instr.lo = 36864 + 8192 + 2048 + imm11
  BY SMT, <1>1 DEF encode
<1>3. /\ s \in {0, 1}
      /\ imm10 \in Nat /\ imm10 < 1024
      /\ imm11 \in Nat /\ imm11 < 2048
  BY SMT
<1>4. offset = imm10 * 2048 + imm11 - s * 2097152
  BY SMT
<1> HIDE DEF s, imm10, imm11, instr
<1>5. bit(instr.hi, 1024) = s /\ instr.hi % 1024 = imm10
  <2>1. CASE s = 0 BY SMT, <1>2, <1>3, <2>1 DEF bit
  <2>2. CASE s = 1 BY SMT, <1>2, <1>3, <2>2 DEF bit
  <2> QED BY SMT, <1>3, <2>1, <2>2
<1>6. bit(instr.lo, 8192) = 1 /\ bit(instr.lo, 2048) = 1 /\ instr.lo % 2048 = imm11
  BY SMT, <1>2, <1>3 DEF bit
<1>7. decode(instr) = s * 4194304 + s * 2097152 + imm10 * 2048 + imm11 - s * 8388608
  BY SMT, <1>3, <1>5, <1>6 DEF decode
<1>8. decode(instr) = offset
  BY SMT, <1>3, <1>4, <1>7
<1> QED BY <1>8 DEF instr

\* From any even address the branch reaches any even address behind the branch
\* that is less than 4 MB away: the detours of an image of at most 1 MB lead to
\* their patch functions, which are appended behind them.
THEOREM BranchReaches ==
  ASSUME NEW address \in Nat, NEW final_addr \in Nat,
         address % 2 = 0, final_addr % 2 = 0,
         address + 4 < final_addr, final_addr < address + 4194304
  PROVE  address + 4 + 2 * decode(encode(branch_offset(address, final_addr))) = final_addr
<1> DEFINE offset == branch_offset(address, final_addr)
<1>1. /\ offset \in Int /\ -2097152 <= offset /\ offset < 2097152 /\ offset # 0
      /\ 2 * offset = final_addr - address - 4
  BY SMT DEF branch_offset
<1> HIDE DEF offset
<1>2. decode(encode(offset)) = offset
  BY SMT, <1>1, BranchRoundTrip
<1>3. address + 4 + 2 * decode(encode(offset)) = final_addr
  BY SMT, <1>1, <1>2
<1> QED BY <1>3 DEF offset

(***************************************************************************)
(* The queue.                                                              *)
(***************************************************************************)
Symbol == Symbols \X {"", "__return", "__passthru", "__proxy"}
Kinds == {"fw", "byte", "code", "goto", "pad"}
Names == Symbols \union {""}
Cell == Kinds \X Names \X Int
Op == [op : {"branch"}, address : Nat, symbol : Symbol]
        \union [op : {"define"}, name : Symbol, address : Nat]
        \union [op : {"asm"}, symbol : Symbol, content : Seq(Cell)]

\* What wrap and inject queue along with a branch.
return_addr(s, a) == IF s \in Wrapped THEN end_patch_addr(a) ELSE a + 4
DefineOf(o) ==
  PatchDefineSymbol(<<o.symbol[1], "__return">>,
                    MICROCODE_OFFSET + return_addr(o.symbol[1], o.address))
PassthruOf(o) ==
  PatchAppendAsm(<<o.symbol[1], "__passthru">>,
                 FwCells(o.address, end_patch_addr(o.address)) \o B_return(o.symbol[1]))
ProxyOf(o) ==
  PatchAppendAsm(<<o.symbol[1], "__proxy">>, proxy_asm(o.symbol[1]))

Branch(k) == k \in DOMAIN op_queue /\ op_queue[k].op = "branch"

\* A branch is at an instruction of the code, with another four or six bytes behind it.
Detour(o) ==
  \E s \in Symbols, a \in fw.starts :
    /\ o = PatchBranchOffset(a, <<s, IF s \in Wrapped THEN "" ELSE "__proxy">>)
    /\ a + 6 <= fw.size
    /\ end_patch_addr(a) \in fw.starts /\ end_patch_addr(a) \in {a + 4, a + 6}

\* Every operation belongs to a branch.
Belongs(o, b) ==
  \/ o = b \/ o = DefineOf(b)
  \/ o = PassthruOf(b) /\ b.symbol[1] \in Wrapped
  \/ o = ProxyOf(b) /\ b.symbol[1] \in Injected
NoStrayOps ==
  \A k \in DOMAIN op_queue : \E b \in DOMAIN op_queue :
    Branch(b) /\ Belongs(op_queue[k], op_queue[b])

\* A branch comes with what its symbol needs.
Complete ==
  \A b \in DOMAIN op_queue : Branch(b) =>
    /\ Detour(op_queue[b])
    /\ \E k \in DOMAIN op_queue : op_queue[k] = DefineOf(op_queue[b])
    /\ op_queue[b].symbol[1] \in Injected =>
         \E k \in DOMAIN op_queue : op_queue[k] = ProxyOf(op_queue[b])

\* Branches are for different symbols, and apart.
Apart ==
  \A b, c \in DOMAIN op_queue : Branch(b) /\ Branch(c) /\ b # c =>
    /\ op_queue[b].symbol[1] # op_queue[c].symbol[1]
    /\ \/ op_queue[b].address + 6 <= op_queue[c].address
       \/ op_queue[c].address + 6 <= op_queue[b].address

QueueInv == op_queue \in Seq(Op) /\ NoStrayOps /\ Complete /\ Apart

(***************************************************************************)
(* The linker.                                                             *)
(***************************************************************************)
text0 == align_up(fw.size + MICROCODE_OFFSET, fw.align)

\* The cells after the first off are those of the given code.
CodeAt(cells, off, content) ==
  /\ off \in Nat /\ off % 2 = 0
  /\ off + Len(content) <= Len(cells)
  /\ \A i \in 1 .. Len(content) : cells[off + i] = resolve(content[i])

\* The patch has the given code where the symbol table says the symbol is.
Holds(patch, symbol, content) ==
  /\ symbol \in DOMAIN patch.symtab /\ patch.symtab[symbol] \in Nat
  /\ CodeAt(patch.cells, patch.symtab[symbol] - text0, content)

IsSequence(c) == c \in Seq({c[i] : i \in DOMAIN c})

PatchType ==
  /\ IsSequence(patch_bin.cells) /\ Len(patch_bin.cells) % 2 = 0
  /\ pc = "queue" => DOMAIN patch_bin.symtab = {}

Composed(k) == op_queue[k].op = "asm" /\ pc # "queue" /\ (pc = "compose" => k < next_op)

LinkInv ==
  /\ \A k \in DOMAIN op_queue :
       Composed(k) => Holds(patch_bin, op_queue[k].symbol, op_queue[k].content)
  /\ \A s \in Wrapped : <<s, "">> \in DOMAIN patch_bin.symtab => Holds(patch_bin, <<s, "">>, Code(s))
  /\ pc \notin {"queue", "compose"} => Unlinked = {}

(***************************************************************************)
(* The image.                                                              *)
(***************************************************************************)
Pasted(k) == Branch(k) /\ (pc = "append" \/ (pc = "relocate" /\ k < next_op))
Covers(k, a) == op_queue[k].address <= a /\ a < op_queue[k].address + 4

\* The four bytes of an instruction, in the order of the image.
Bytes(instr) == << instr.hi % 256, instr.hi \div 256, instr.lo % 256, instr.lo \div 256 >>

ImageInv ==
  pc \in {"queue", "compose", "relocate", "append"} =>
    /\ DOMAIN target_bin = 0 .. fw.size - 1
    /\ \A k \in DOMAIN op_queue : Pasted(k) =>
         \A i \in 1 .. 4 : target_bin[op_queue[k].address + i - 1] =
                             <<"byte", "", Bytes(branch_at(op_queue[k]))[i]>>
    /\ \A a \in 0 .. fw.size - 1 :
         (\A k \in DOMAIN op_queue : Pasted(k) => ~Covers(k, a)) => target_bin[a] = FwCell(a)

Control ==
  /\ fw \in Firmwares /\ target \in {"hardware", "emulator"}
  /\ pc \in {"queue", "compose", "relocate", "append", "written", "failed"}
  /\ next_op \in Nat \ {0}
  /\ pc # "written" => out = {}

PatcherInv ==
  /\ Control /\ QueueInv /\ PatchType /\ LinkInv /\ ImageInv
  /\ BranchesLand /\ DetourComplete /\ RestOfImageKept

-----------------------------------------------------------------------------
(* Lemmas about the constants and the operators.                           *)

\* What the assumptions say of the firmware in use.
LEMMA FwFacts ==
  ASSUME Control
  PROVE  /\ fw.size \in Nat /\ footer_size \in 0 .. fw.size
         /\ \A a \in fw.starts : a \in Nat /\ a <= fw.size /\ a % 2 = 0
         /\ MICROCODE_OFFSET \in Nat /\ MICROCODE_OFFSET % 2 = 0
         /\ BOOTLOADER_SIZE = MICROCODE_OFFSET
         /\ fw.align \in {2, 4}
<1>1. /\ fw.size \in Nat /\ fw.starts \subseteq 0 .. fw.size - FOOTER
      /\ \A a \in fw.starts : a % 2 = 0
      /\ fw.align \in {2, 4} /\ FOOTER \in Nat /\ FOOTER <= fw.size
      /\ BOOTLOADER \in Nat /\ BOOTLOADER % 4 = 0
  BY PatcherAssumption DEF Control
<1>2. footer_size \in {0, FOOTER} /\ MICROCODE_OFFSET \in {0, BOOTLOADER}
  BY DEF footer_size, MICROCODE_OFFSET, BOOTLOADER_SIZE
<1>3. MICROCODE_OFFSET \in Nat /\ MICROCODE_OFFSET % 2 = 0
  BY <1>1, <1>2
<1>4. footer_size \in 0 .. fw.size
  BY <1>1, <1>2
<1>5. \A a \in fw.starts : a \in Nat /\ a <= fw.size
  BY <1>1
<1> QED BY <1>1, <1>3, <1>4, <1>5 DEF MICROCODE_OFFSET

\* Whole instructions are replaced.
LEMMA EndPatch ==
  ASSUME Control, NEW a \in fw.starts, NEW b \in fw.starts, a + 6 <= b
  PROVE  end_patch_addr(a) \in fw.starts /\ end_patch_addr(a) \in {a + 4, a + 6}
<1>1. a \in Nat /\ b \in Nat
  BY FwFacts
<1>2. \A x \in fw.starts : (\E y \in fw.starts : x < y) => x + 2 \in fw.starts \/ x + 4 \in fw.starts
  <2>1. fw \in Firmwares
    BY DEF Control
  <2>2. \A x \in fw.starts :
          (\E y \in fw.starts : x < y) => x + 2 \in fw.starts \/ x + 4 \in fw.starts
    BY <2>1, PatcherAssumption, ZenonT(60)
  <2> QED BY <2>2
<1>3. CASE a + 4 \notin fw.starts
  <2>1. a + 2 \in fw.starts
    BY <1>1, <1>2, <1>3
  <2>2. a + 2 < b /\ (a + 2) + 2 = a + 4 /\ (a + 2) + 4 = a + 6
    BY <1>1
  <2>3. a + 6 \in fw.starts
    BY <1>2, <1>3, <2>1, <2>2
  <2> QED BY <1>3, <2>3 DEF end_patch_addr
<1>4. CASE a + 4 \in fw.starts
  BY <1>4 DEF end_patch_addr
<1> QED BY <1>3, <1>4

LEMMA AlignSpec ==
  ASSUME NEW a \in Nat, NEW n \in {2, 4}
  PROVE  align_up(a, n) \in Nat /\ align_up(a, n) >= a /\ align_up(a, n) % 2 = 0
<1>1. CASE n = 2
  BY <1>1 DEF align_up
<1>2. CASE n = 4
  BY <1>2 DEF align_up
<1> QED BY <1>1, <1>2

LEMMA TextFacts0 ==
  ASSUME Control
  PROVE  text0 \in Nat /\ text0 % 2 = 0 /\ text0 >= fw.size + MICROCODE_OFFSET
<1>1. fw.size + MICROCODE_OFFSET \in Nat
  BY FwFacts
<1> QED BY <1>1, FwFacts, AlignSpec DEF text0

\* Sequences.
LEMMA ConcatSpec ==
  ASSUME NEW S, NEW q \in Seq(S), NEW r \in Seq(S)
  PROVE  /\ q \o r \in Seq(S) /\ Len(q \o r) = Len(q) + Len(r)
         /\ Len(q) \in Nat /\ Len(r) \in Nat
         /\ DOMAIN q = 1 .. Len(q) /\ DOMAIN r = 1 .. Len(r)
         /\ DOMAIN (q \o r) = 1 .. Len(q) + Len(r)
         /\ \A i \in 1 .. Len(q) : (q \o r)[i] = q[i]
         /\ \A i \in 1 .. Len(r) : (q \o r)[Len(q) + i] = r[i]
OBVIOUS

LEMMA TabulateSpec ==
  ASSUME NEW S, NEW n \in Nat, NEW f \in [1 .. n -> S]
  PROVE  f \in Seq(S) /\ Len(f) = n /\ DOMAIN f = 1 .. n
OBVIOUS

LEMMA CellSpec ==
  /\ \A k \in Kinds, s \in Names, i \in Int : <<k, s, i>> \in Cell
  /\ "fw" \in Kinds /\ "code" \in Kinds /\ "goto" \in Kinds /\ "pad" \in Kinds
  /\ "" \in Names /\ Symbols \subseteq Names
<1>1. ASSUME NEW k \in Kinds, NEW s \in Names, NEW i \in Int PROVE <<k, s, i>> \in Cell
  BY DEF Cell
<1>2. "fw" \in Kinds /\ "code" \in Kinds /\ "goto" \in Kinds /\ "pad" \in Kinds
  BY DEF Kinds
<1>3. "" \in Names
  BY DEF Names
<1>4. Symbols \subseteq Names
  BY DEF Names
<1> QED BY <1>1, <1>2, <1>3, <1>4, Zenon

\* The contents of the blocks.
LEMMA BlockSpec ==
  ASSUME Control, NEW s \in Symbols, NEW a \in Nat, NEW b \in Nat, a <= b
  PROVE  /\ Code(s) \in Seq(Cell) /\ Len(Code(s)) = code_size[s]
         /\ code_size[s] \in Nat /\ code_size[s] > 0 /\ code_size[s] % 2 = 0
         /\ B_return(s) \in Seq(Cell) /\ Len(B_return(s)) = 4
         /\ FwCells(a, b) \in Seq(Cell) /\ Len(FwCells(a, b)) = b - a
<1>1. code_size[s] \in Nat /\ code_size[s] > 0 /\ code_size[s] % 2 = 0
  <2>1. code_size \in [Symbols -> Nat \ {0}] /\ \A x \in Symbols : code_size[x] % 2 = 0
    BY PatcherAssumption, ZenonT(60)
  <2> QED BY <2>1
<1>3. Code(s) \in Seq(Cell) /\ Len(Code(s)) = code_size[s]
  <2>1. Code(s) \in [1 .. code_size[s] -> Cell]
    <3>1. \A i \in 1 .. code_size[s] : <<"code", s, i>> \in Cell
      <4>1. \A i \in 1 .. code_size[s] : i \in Int
        BY <1>1
      <4> QED BY <4>1, CellSpec, Zenon
    <3> QED BY <3>1, Zenon DEF Code
  <2> QED BY <1>1, <2>1, TabulateSpec
<1>4. B_return(s) \in Seq(Cell) /\ Len(B_return(s)) = 4
  <2>1. B_return(s) \in [1 .. 4 -> Cell]
    <3>1. <<"goto", s, -1>> \in Cell
      <4>1. -1 \in Int
        OBVIOUS
      <4> QED BY <4>1, CellSpec, Zenon
    <3> QED BY <3>1, Zenon DEF B_return
  <2> QED BY <2>1, TabulateSpec
<1>5. FwCells(a, b) \in Seq(Cell) /\ Len(FwCells(a, b)) = b - a
  <2>1. b - a \in Nat /\ \A i \in 1 .. b - a : <<"fw", "", a + i - 1>> \in Cell
    <3>1. b - a \in Nat /\ \A i \in 1 .. b - a : a + i - 1 \in Int
      OBVIOUS
    <3> QED BY <3>1, CellSpec, Zenon
  <2>2. FwCells(a, b) \in [1 .. b - a -> Cell]
    BY <2>1, Zenon DEF FwCells, FwCell
  <2> QED BY <2>1, <2>2, TabulateSpec
<1> QED BY <1>1, <1>3, <1>4, <1>5

\* The assembly of an injection starts with its code.
LEMMA ProxySpec ==
  ASSUME Control, NEW s \in Symbols
  PROVE  /\ proxy_asm(s) \in Seq(Cell)
         /\ Len(proxy_asm(s)) \in Nat /\ Len(proxy_asm(s)) % 2 = 0
         /\ Len(proxy_asm(s)) >= Len(Code(s))
         /\ \A i \in 1 .. Len(Code(s)) : proxy_asm(s)[i] = Code(s)[i]
<1> DEFINE c == Code(s)
           r == IF s \in Returning THEN B_return(s) ELSE << >>
<1>1. /\ c \in Seq(Cell) /\ Len(c) \in Nat /\ Len(c) % 2 = 0
      /\ B_return(s) \in Seq(Cell) /\ Len(B_return(s)) = 4
  <2>1. 0 \in Nat /\ 0 <= 0
    OBVIOUS
  <2> QED BY <2>1, BlockSpec
<1>2. r \in Seq(Cell) /\ Len(r) \in {0, 4}
  <2>1. << >> \in Seq(Cell) /\ Len(<< >>) = 0
    OBVIOUS
  <2> QED BY <1>1, <2>1
<1>3. proxy_asm(s) = c \o r
  BY DEF proxy_asm
<1> HIDE DEF c, r
<1>4. /\ c \o r \in Seq(Cell) /\ Len(c \o r) = Len(c) + Len(r)
      /\ \A i \in 1 .. Len(c) : (c \o r)[i] = c[i]
  BY <1>1, <1>2, ConcatSpec
<1>5. \A x \in Nat, y \in {0, 4} :
        x + y \in Nat /\ x + y >= x /\ (x % 2 = 0 => (x + y) % 2 = 0)
  OBVIOUS
<1>6. /\ Len(c) + Len(r) \in Nat /\ Len(c) + Len(r) >= Len(c)
      /\ (Len(c) + Len(r)) % 2 = 0
  BY <1>1, <1>2, <1>5, Zenon
<1> QED BY <1>3, <1>4, <1>6 DEF c

\* Images.
LEMMA SizeSpec ==
  ASSUME NEW n \in Nat, NEW image, DOMAIN image = 0 .. n - 1
  PROVE  size(image) = n
BY FS_Interval DEF size

-----------------------------------------------------------------------------
(* The queue.                                                              *)

BranchOf(s, a) == PatchBranchOffset(a, <<s, IF s \in Wrapped THEN "" ELSE "__proxy">>)

LEMMA SymbolSpec ==
  ASSUME NEW s \in Symbols
  PROVE  /\ <<s, "">> \in Symbol /\ <<s, "__return">> \in Symbol
         /\ <<s, "__passthru">> \in Symbol /\ <<s, "__proxy">> \in Symbol
BY Zenon DEF Symbol

\* What is queued for a detour is of the right kind.
LEMMA OpSpec ==
  ASSUME Control, NEW s \in Symbols, NEW a \in fw.starts,
         end_patch_addr(a) \in {a + 4, a + 6}
  PROVE  LET b == BranchOf(s, a) IN
         /\ b \in Op /\ b.op = "branch" /\ b.address = a /\ b.symbol[1] = s
         /\ DefineOf(b) \in Op /\ DefineOf(b).op = "define"
         /\ DefineOf(b).name = <<s, "__return">>
         /\ DefineOf(b).address = MICROCODE_OFFSET + return_addr(s, a)
         /\ PassthruOf(b) \in Op /\ PassthruOf(b).op = "asm"
         /\ ProxyOf(b) \in Op /\ ProxyOf(b).op = "asm"
<1> DEFINE b == BranchOf(s, a)
<1>1. a \in Nat /\ end_patch_addr(a) \in Nat /\ a <= end_patch_addr(a) /\ MICROCODE_OFFSET \in Nat
  BY FwFacts
<1>2. b.op = "branch" /\ b.address = a /\ b.symbol[1] = s
  BY DEF BranchOf, PatchBranchOffset
<1>3. b \in Op
  <2>1. <<s, IF s \in Wrapped THEN "" ELSE "__proxy">> \in Symbol
    BY SymbolSpec, Zenon
  <2>2. b \in [op : {"branch"}, address : Nat, symbol : Symbol]
    BY <1>1, <2>1, Zenon DEF BranchOf, PatchBranchOffset
  <2> QED BY <2>2, Zenon DEF Op
<1> HIDE DEF b
<1>4. /\ DefineOf(b) = [op |-> "define", name |-> <<s, "__return">>,
                        address |-> MICROCODE_OFFSET + return_addr(s, a)]
      /\ MICROCODE_OFFSET + return_addr(s, a) \in Nat
  <2>1. return_addr(s, a) \in Nat
    BY <1>1 DEF return_addr
  <2> QED BY <1>1, <1>2, <2>1 DEF DefineOf, PatchDefineSymbol
<1>5. DefineOf(b) \in Op
  <2>1. ASSUME NEW y \in Symbol, NEW c \in Nat
        PROVE  [op |-> "define", name |-> y, address |-> c] \in Op
    <3>1. [op |-> "define", name |-> y, address |-> c]
            \in [op : {"define"}, name : Symbol, address : Nat]
      BY Zenon
    <3> QED BY <3>1, Zenon DEF Op
  <2>2. <<s, "__return">> \in Symbol
    BY SymbolSpec
  <2> QED BY <1>4, <2>1, <2>2
<1>6. ASSUME NEW y \in Symbol, NEW c \in Seq(Cell)
      PROVE  PatchAppendAsm(y, c) \in Op /\ PatchAppendAsm(y, c).op = "asm"
  <2>1. PatchAppendAsm(y, c) \in [op : {"asm"}, symbol : Symbol, content : Seq(Cell)]
    BY <1>6, Zenon DEF PatchAppendAsm
  <2>2. PatchAppendAsm(y, c).op = "asm"
    BY DEF PatchAppendAsm
  <2> QED BY <2>1, <2>2, Zenon DEF Op
<1>7. FwCells(a, end_patch_addr(a)) \in Seq(Cell) /\ B_return(s) \in Seq(Cell)
  BY <1>1, BlockSpec
<1>8. FwCells(a, end_patch_addr(a)) \o B_return(s) \in Seq(Cell) /\ proxy_asm(s) \in Seq(Cell)
  BY <1>7, ConcatSpec, ProxySpec
<1>9. PassthruOf(b) \in Op /\ PassthruOf(b).op = "asm"
  BY <1>2, <1>6, <1>8, SymbolSpec DEF PassthruOf
<1>10. ProxyOf(b) \in Op /\ ProxyOf(b).op = "asm"
  BY <1>2, <1>6, <1>8, SymbolSpec DEF ProxyOf
<1> QED BY <1>2, <1>3, <1>4, <1>5, <1>9, <1>10 DEF b

\* Appending the operations of one more detour keeps the queue in order.
LEMMA QueueGrows ==
  ASSUME Control, QueueInv, NEW s \in Symbols, NEW addr \in fw.starts, Free(s, addr),
         NEW ops \in Seq(Op), Len(ops) >= 2,
         ops[1] = BranchOf(s, addr), ops[2] = DefineOf(BranchOf(s, addr)),
         \A i \in 1 .. Len(ops) : Belongs(ops[i], BranchOf(s, addr)),
         \A i \in 2 .. Len(ops) : ops[i].op # "branch",
         s \in Injected => ops[Len(ops)] = ProxyOf(BranchOf(s, addr)),
         op_queue' = op_queue \o ops, UNCHANGED <<fw, target>>
  PROVE  QueueInv'
<1> DEFINE n == Len(op_queue)
           m == Len(ops)
           b == BranchOf(s, addr)
<1>1. /\ n \in Nat /\ m \in Nat /\ m >= 2 /\ DOMAIN op_queue = 1 .. n
      /\ op_queue' \in Seq(Op) /\ DOMAIN op_queue' = 1 .. n + m
      /\ \A i \in 1 .. n : op_queue'[i] = op_queue[i]
      /\ \A i \in 1 .. m : op_queue'[n + i] = ops[i]
  BY ConcatSpec DEF QueueInv
<1>2. PICK e \in fw.starts : addr + 6 <= e
  BY DEF Free
<1>3. /\ end_patch_addr(addr) \in fw.starts /\ end_patch_addr(addr) \in {addr + 4, addr + 6}
      /\ addr \in Nat /\ addr + 6 <= fw.size
  <2>1. end_patch_addr(addr) \in fw.starts /\ end_patch_addr(addr) \in {addr + 4, addr + 6}
    BY <1>2, EndPatch
  <2>2. addr \in Nat /\ e \in Nat /\ e <= fw.size /\ fw.size \in Nat
    BY FwFacts
  <2> QED BY <1>2, <2>1, <2>2
<1>4. b.op = "branch" /\ b.address = addr /\ b.symbol[1] = s
  BY <1>3, OpSpec
<1>5. /\ \A o : DefineOf(o)' = DefineOf(o) /\ PassthruOf(o)' = PassthruOf(o) /\ ProxyOf(o)' = ProxyOf(o)
      /\ \A o : Detour(o)' <=> Detour(o)
      /\ \A o, c : Belongs(o, c)' <=> Belongs(o, c)
  <2>1. MICROCODE_OFFSET' = MICROCODE_OFFSET /\ \A a : end_patch_addr(a)' = end_patch_addr(a)
    BY DEF MICROCODE_OFFSET, BOOTLOADER_SIZE, end_patch_addr
  <2>2. \A o : DefineOf(o)' = DefineOf(o) /\ PassthruOf(o)' = PassthruOf(o) /\ ProxyOf(o)' = ProxyOf(o)
    BY <2>1 DEF DefineOf, PassthruOf, ProxyOf, return_addr
  <2>3. \A o : Detour(o)' <=> Detour(o)
    BY <2>1 DEF Detour
  <2>4. \A o, c : Belongs(o, c)' <=> Belongs(o, c)
    BY <2>2, Zenon DEF Belongs
  <2> QED BY <2>2, <2>3, <2>4
<1> HIDE DEF b, n, m
<1>6. \A k \in 1 .. n + m : k \in 1 .. n \/ k - n \in 1 .. m
  BY <1>1
<1>7. \A k \in 1 .. n + m : op_queue'[k].op = "branch" <=>
                              (k \in 1 .. n /\ op_queue[k].op = "branch") \/ k = n + 1
  <2>1. TAKE k \in 1 .. n + m
  <2>2. CASE k \in 1 .. n
    BY <1>1, <2>2
  <2>3. CASE k = n + 1
    <3>1. 1 \in 1 .. m /\ k \notin 1 .. n
      BY <1>1, <2>3
    <3> QED BY <1>1, <1>4, <2>3, <3>1 DEF b
  <2>4. CASE k \notin 1 .. n /\ k # n + 1
    <3>1. k - n \in 2 .. m /\ k - n \in 1 .. m /\ n + (k - n) = k
      BY <1>1, <2>4
    <3>2. op_queue'[k] = ops[k - n]
      BY <1>1, <3>1
    <3> QED BY <2>4, <3>1, <3>2 DEF m
  <2> QED BY <2>2, <2>3, <2>4
<1>8. /\ n + 1 \in 1 .. n + m /\ op_queue'[n + 1] = b
      /\ n + 2 \in 1 .. n + m /\ op_queue'[n + 2] = DefineOf(b)
      /\ \A i \in 1 .. n : i \in 1 .. n + m
  BY <1>1 DEF b
<1>9. NoStrayOps'
  <2>1. SUFFICES ASSUME NEW k \in 1 .. n + m
                 PROVE  \E c \in 1 .. n + m : /\ op_queue'[c].op = "branch"
                                              /\ Belongs(op_queue'[k], op_queue'[c])
    BY <1>1, <1>5 DEF NoStrayOps, Branch
  <2>2. CASE k \in 1 .. n
    <3>1. PICK c \in 1 .. n : op_queue[c].op = "branch" /\ Belongs(op_queue[k], op_queue[c])
      BY <1>1, <2>2 DEF QueueInv, NoStrayOps, Branch
    <3> QED BY <1>1, <1>8, <2>2, <3>1
  <2>3. CASE k - n \in 1 .. m
    <3>1. n + (k - n) = k
      BY <1>1
    <3>2. Belongs(op_queue'[k], b)
      BY <1>1, <2>3, <3>1 DEF b, m
    <3> QED BY <1>4, <1>8, <3>2
  <2> QED BY <1>6, <2>2, <2>3
<1>10. Complete'
  <2>1. SUFFICES ASSUME NEW c \in 1 .. n + m, op_queue'[c].op = "branch"
                 PROVE  /\ Detour(op_queue'[c])
                        /\ \E k \in 1 .. n + m : op_queue'[k] = DefineOf(op_queue'[c])
                        /\ op_queue'[c].symbol[1] \in Injected =>
                             \E k \in 1 .. n + m : op_queue'[k] = ProxyOf(op_queue'[c])
    BY <1>1, <1>5, ZenonT(60) DEF Complete, Branch
  <2>2. CASE c \in 1 .. n
    <3>1. op_queue'[c] = op_queue[c] /\ op_queue[c].op = "branch"
      BY <1>1, <2>1, <2>2
    <3>2. /\ Detour(op_queue[c])
          /\ \E k \in 1 .. n : op_queue[k] = DefineOf(op_queue[c])
          /\ op_queue[c].symbol[1] \in Injected => \E k \in 1 .. n : op_queue[k] = ProxyOf(op_queue[c])
      BY <1>1, <2>2, <3>1 DEF QueueInv, Complete, Branch
    <3>3. ASSUME NEW o, \E k \in 1 .. n : op_queue[k] = o
          PROVE  \E k \in 1 .. n + m : op_queue'[k] = o
      BY <1>1, <1>8, <3>3
    <3> QED BY <3>1, <3>2, <3>3, ZenonT(60)
  <2>3. CASE c = n + 1
    <3>1. Detour(b)
      BY <1>3 DEF Detour, b, BranchOf
    <3>2. n + m \in 1 .. n + m /\ m \in 1 .. m
      BY <1>1
    <3>3. s \in Injected => op_queue'[n + m] = ProxyOf(b)
      BY <1>1, <3>2 DEF b, m
    <3> QED BY <1>4, <1>8, <2>3, <3>1, <3>2, <3>3
  <2> QED BY <1>7, <2>1, <2>2, <2>3
<1>11. Apart'
  <2>1. ASSUME NEW c \in 1 .. n, op_queue[c].op = "branch"
        PROVE  /\ op_queue[c].symbol[1] # s
               /\ op_queue[c].address + 6 <= addr \/ addr + 6 <= op_queue[c].address
    <3>1. op_queue[c].symbol[1] # s
      BY <1>1, <2>1 DEF Free
    <3>2. op_queue[c].address .. op_queue[c].address + 5 \subseteq Taken
      BY <1>1, <2>1 DEF Taken
    <3>3. \A x \in addr .. addr + 5 : x \notin op_queue[c].address .. op_queue[c].address + 5
      BY <3>2 DEF Free
    <3>4. op_queue[c].address \in Nat
      <4>1. Detour(op_queue[c])
        BY <1>1, <2>1 DEF QueueInv, Complete, Branch
      <4>2. PICK a \in fw.starts : \E x : op_queue[c] = PatchBranchOffset(a, x)
        BY <4>1 DEF Detour
      <4>3. op_queue[c].address = a
        BY <4>2 DEF PatchBranchOffset
      <4> QED BY <4>3, FwFacts
    <3> HIDE DEF Free
    <3>5. addr \notin op_queue[c].address .. op_queue[c].address + 5
      <4>1. addr \in addr .. addr + 5
        BY <1>3
      <4> QED BY <3>3, <4>1, Zenon
    <3>6. op_queue[c].address \notin addr .. addr + 5
      <4>1. op_queue[c].address \in op_queue[c].address .. op_queue[c].address + 5
        BY <3>4
      <4> QED BY <3>3, <4>1, Zenon
    <3>7. \A x, y \in Nat : x \notin y .. y + 5 /\ y \notin x .. x + 5 => y + 6 <= x \/ x + 6 <= y
      OBVIOUS
    <3> QED BY <1>3, <3>1, <3>4, <3>5, <3>6, <3>7, ZenonT(30)
  <2>2. SUFFICES ASSUME NEW c \in 1 .. n + m, NEW d \in 1 .. n + m,
                        op_queue'[c].op = "branch", op_queue'[d].op = "branch", c # d
                 PROVE  /\ op_queue'[c].symbol[1] # op_queue'[d].symbol[1]
                        /\ \/ op_queue'[c].address + 6 <= op_queue'[d].address
                           \/ op_queue'[d].address + 6 <= op_queue'[c].address
    BY <1>1 DEF Apart, Branch
  <2>3. CASE c \in 1 .. n /\ d \in 1 .. n
    <3>1. op_queue'[c] = op_queue[c] /\ op_queue'[d] = op_queue[d]
      BY <1>1, <2>3
    <3>2. Branch(c) /\ Branch(d)
      BY <1>1, <2>2, <2>3, <3>1 DEF Branch
    <3>3. /\ op_queue[c].symbol[1] # op_queue[d].symbol[1]
          /\ \/ op_queue[c].address + 6 <= op_queue[d].address
             \/ op_queue[d].address + 6 <= op_queue[c].address
      BY <1>1, <2>2, <2>3, <3>2, Zenon DEF QueueInv, Apart
    <3> QED BY <3>1, <3>3
  <2>4. CASE c \in 1 .. n /\ d = n + 1
    <3>1. op_queue'[c] = op_queue[c] /\ op_queue'[d] = b
      BY <1>1, <1>8, <2>4
    <3>2. op_queue[c].op = "branch"
      BY <2>2, <3>1
    <3> QED BY <1>4, <2>1, <2>4, <3>1, <3>2
  <2>5. CASE d \in 1 .. n /\ c = n + 1
    <3>1. op_queue'[d] = op_queue[d] /\ op_queue'[c] = b
      BY <1>1, <1>8, <2>5
    <3>2. op_queue[d].op = "branch"
      BY <2>2, <3>1
    <3> QED BY <1>4, <2>1, <2>5, <3>1, <3>2
  <2> QED BY <1>7, <2>2, <2>3, <2>4, <2>5
<1> QED BY <1>1, <1>9, <1>10, <1>11 DEF QueueInv

LEMMA NoneBoth == \A s \in Symbols : s \in Wrapped => s \notin Injected
<1>1. Wrapped \intersect Injected = {}
  BY PatcherAssumption, ZenonT(60)
<1> QED BY <1>1

\* The same for what wrap and inject queue.
LEMMA QueueStep ==
  ASSUME Control, QueueInv,
         \/ \E s \in Wrapped, addr \in fw.starts, passthru \in BOOLEAN : wrap(s, addr, passthru)
         \/ \E s \in Injected, addr \in fw.starts : inject(s, addr)
  PROVE  QueueInv' /\ pc = "queue" /\ UNCHANGED <<fw, target, pc, target_bin, patch_bin, next_op, out>>
<1>1. ASSUME NEW s \in Wrapped, NEW addr \in fw.starts, NEW passthru \in BOOLEAN,
             wrap(s, addr, passthru)
      PROVE  QueueInv' /\ pc = "queue"
             /\ UNCHANGED <<fw, target, pc, target_bin, patch_bin, next_op, out>>
  <2> DEFINE b == BranchOf(s, addr)
             tail == IF passthru THEN << PassthruOf(b) >> ELSE << >>
             ops == << b, DefineOf(b) >> \o tail
  <2>1. /\ Free(s, addr) /\ pc = "queue" /\ s \in Symbols /\ s \notin Injected
        /\ UNCHANGED <<fw, target, pc, target_bin, patch_bin, next_op, out>>
    BY <1>1, NoneBoth DEF wrap, Free, Symbols
  <2>2. PICK e \in fw.starts : addr + 6 <= e
    BY <2>1 DEF Free
  <2>3. end_patch_addr(addr) \in {addr + 4, addr + 6}
    BY <2>2, EndPatch
  <2>4. /\ b \in Op /\ b.symbol[1] = s /\ b.address = addr
        /\ DefineOf(b) \in Op /\ DefineOf(b).op = "define"
        /\ PassthruOf(b) \in Op /\ PassthruOf(b).op = "asm"
    BY <2>1, <2>3, OpSpec
  <2>5. op_queue' = op_queue \o ops
    <3>1. b = PatchBranchOffset(addr, <<s, "">>)
      BY DEF BranchOf
    <3>2. DefineOf(b) = PatchDefineSymbol(<<s, "__return">>, MICROCODE_OFFSET + end_patch_addr(addr))
      BY <2>4 DEF DefineOf, return_addr
    <3>3. PassthruOf(b) = PatchAppendAsm(<<s, "__passthru">>,
                            FwCells(addr, end_patch_addr(addr)) \o B_return(s))
      BY <2>4 DEF PassthruOf
    <3> HIDE DEF b
    <3> QED BY <1>1, <3>1, <3>2, <3>3 DEF wrap, _q
  <2> HIDE DEF b
  <2>6. /\ ops \in Seq(Op) /\ Len(ops) \in {2, 3} /\ ops[1] = b /\ ops[2] = DefineOf(b)
        /\ Len(ops) = 3 => ops[3] = PassthruOf(b)
    BY <2>4
  <2> HIDE DEF ops
  <2>7. \A i \in 1 .. Len(ops) : i = 1 \/ i = 2 \/ (i = 3 /\ Len(ops) = 3)
    <3>1. CASE Len(ops) = 2
      BY <3>1
    <3>2. CASE Len(ops) = 3
      BY <3>2
    <3> QED BY <2>6, <3>1, <3>2
  <2>8. \A i \in 1 .. Len(ops) : Belongs(ops[i], b)
    BY <2>4, <2>6, <2>7 DEF Belongs
  <2>9. \A i \in 2 .. Len(ops) : ops[i].op # "branch"
    BY <2>4, <2>6
  <2>10. Len(ops) >= 2
    BY <2>6
  <2>11. QueueInv'
    BY <2>1, <2>5, <2>6, <2>8, <2>9, <2>10, QueueGrows DEF b
  <2> QED BY <2>1, <2>11
<1>2. ASSUME NEW s \in Injected, NEW addr \in fw.starts, inject(s, addr)
      PROVE  QueueInv' /\ pc = "queue"
             /\ UNCHANGED <<fw, target, pc, target_bin, patch_bin, next_op, out>>
  <2> DEFINE b == BranchOf(s, addr)
             ops == << b, DefineOf(b), ProxyOf(b) >>
  <2>1. /\ Free(s, addr) /\ pc = "queue" /\ s \in Symbols /\ s \notin Wrapped
        /\ UNCHANGED <<fw, target, pc, target_bin, patch_bin, next_op, out>>
    BY <1>2, NoneBoth DEF inject, Free, Symbols
  <2>2. PICK e \in fw.starts : addr + 6 <= e
    BY <2>1 DEF Free
  <2>3. end_patch_addr(addr) \in {addr + 4, addr + 6}
    BY <2>2, EndPatch
  <2>4. /\ b \in Op /\ b.symbol[1] = s /\ b.address = addr
        /\ DefineOf(b) \in Op /\ DefineOf(b).op = "define"
        /\ ProxyOf(b) \in Op /\ ProxyOf(b).op = "asm"
    BY <2>1, <2>3, OpSpec
  <2>5. op_queue' = op_queue \o ops
    <3>1. b = PatchBranchOffset(addr, <<s, "__proxy">>)
      BY <2>1 DEF BranchOf
    <3>2. DefineOf(b) = PatchDefineSymbol(<<s, "__return">>, MICROCODE_OFFSET + addr + 4)
      <4>1. MICROCODE_OFFSET + (addr + 4) = MICROCODE_OFFSET + addr + 4
        BY FwFacts
      <4> QED BY <2>1, <2>4, <4>1 DEF DefineOf, return_addr
    <3>3. ProxyOf(b) = PatchAppendAsm(<<s, "__proxy">>, proxy_asm(s))
      BY <2>4 DEF ProxyOf
    <3> HIDE DEF b
    <3> QED BY <1>2, <3>1, <3>2, <3>3 DEF inject, _q
  <2> HIDE DEF b
  <2>6. /\ ops \in Seq(Op) /\ Len(ops) = 3
        /\ ops[1] = b /\ ops[2] = DefineOf(b) /\ ops[3] = ProxyOf(b)
    BY <2>4
  <2> HIDE DEF ops
  <2>7. \A i \in 1 .. Len(ops) : i = 1 \/ i = 2 \/ i = 3
    BY <2>6
  <2>8. \A i \in 1 .. Len(ops) : Belongs(ops[i], b)
    BY <2>4, <2>6, <2>7 DEF Belongs
  <2>9. \A i \in 2 .. Len(ops) : ops[i].op # "branch"
    BY <2>4, <2>6
  <2>10. Len(ops) >= 2 /\ ops[Len(ops)] = ProxyOf(b)
    BY <2>6
  <2>11. QueueInv'
    BY <2>1, <2>5, <2>6, <2>8, <2>9, <2>10, QueueGrows DEF b
  <2> QED BY <2>1, <2>11
<1> QED BY <1>1, <1>2

\* The assembly of the queue.
LEMMA AsmSpec ==
  ASSUME Control, QueueInv, NEW k \in DOMAIN op_queue, op_queue[k].op = "asm"
  PROVE  \E b \in DOMAIN op_queue, s \in Symbols, a \in fw.starts :
           /\ op_queue[b] = BranchOf(s, a) /\ Branch(b)
           /\ end_patch_addr(a) \in fw.starts /\ end_patch_addr(a) \in {a + 4, a + 6}
           /\ \/ s \in Wrapped /\ op_queue[k] =
                   PatchAppendAsm(<<s, "__passthru">>, FwCells(a, end_patch_addr(a)) \o B_return(s))
              \/ s \in Injected /\ op_queue[k] =
                   PatchAppendAsm(<<s, "__proxy">>, proxy_asm(s))
<1>1. PICK b \in DOMAIN op_queue : Branch(b) /\ Belongs(op_queue[k], op_queue[b])
  BY DEF QueueInv, NoStrayOps
<1>2. Detour(op_queue[b])
  BY <1>1 DEF QueueInv, Complete
<1>3. PICK s \in Symbols, a \in fw.starts :
        /\ op_queue[b] = BranchOf(s, a)
        /\ end_patch_addr(a) \in fw.starts /\ end_patch_addr(a) \in {a + 4, a + 6}
  BY <1>2 DEF Detour, BranchOf
<1>4. /\ op_queue[b].op = "branch" /\ op_queue[b].address = a /\ op_queue[b].symbol[1] = s
      /\ DefineOf(op_queue[b]).op = "define"
  BY <1>3, OpSpec
<1>5. \/ op_queue[k] = PassthruOf(op_queue[b]) /\ s \in Wrapped
      \/ op_queue[k] = ProxyOf(op_queue[b]) /\ s \in Injected
  BY <1>1, <1>4 DEF Belongs
<1>6. \/ s \in Wrapped /\ op_queue[k] =
           PatchAppendAsm(<<s, "__passthru">>, FwCells(a, end_patch_addr(a)) \o B_return(s))
      \/ s \in Injected /\ op_queue[k] =
           PatchAppendAsm(<<s, "__proxy">>, proxy_asm(s))
  BY <1>4, <1>5 DEF PassthruOf, ProxyOf
<1> QED BY <1>1, <1>3, <1>6

\* A symbol of the assembly stands for one block of code.
LEMMA AsmFacts ==
  ASSUME Control, QueueInv, NEW k \in DOMAIN op_queue, op_queue[k].op = "asm"
  PROVE  /\ op_queue[k].content \in Seq(Cell) /\ Len(op_queue[k].content) % 2 = 0
         /\ op_queue[k].symbol[2] # ""
         /\ \A j \in DOMAIN op_queue :
              op_queue[j].op = "asm" /\ op_queue[j].symbol = op_queue[k].symbol
                => op_queue[j].content = op_queue[k].content
<1>1. PICK b \in DOMAIN op_queue, s \in Symbols, a \in fw.starts :
           /\ op_queue[b] = BranchOf(s, a) /\ Branch(b)
           /\ end_patch_addr(a) \in fw.starts /\ end_patch_addr(a) \in {a + 4, a + 6}
           /\ \/ s \in Wrapped /\ op_queue[k] =
                   PatchAppendAsm(<<s, "__passthru">>, FwCells(a, end_patch_addr(a)) \o B_return(s))
              \/ s \in Injected /\ op_queue[k] =
                   PatchAppendAsm(<<s, "__proxy">>, proxy_asm(s))
  BY AsmSpec
<1>2. a \in Nat /\ end_patch_addr(a) \in Nat /\ a <= end_patch_addr(a) /\ (end_patch_addr(a) - a) \in {4, 6}
  BY <1>1, FwFacts
<1> DEFINE pass == FwCells(a, end_patch_addr(a)) \o B_return(s)
           proxy == proxy_asm(s)
<1>3. pass \in Seq(Cell) /\ Len(pass) % 2 = 0 /\ proxy \in Seq(Cell) /\ Len(proxy) % 2 = 0
  <2> DEFINE f == FwCells(a, end_patch_addr(a))
             r == B_return(s)
  <2>1. /\ r \in Seq(Cell) /\ Len(r) = 4
        /\ f \in Seq(Cell) /\ Len(f) \in {4, 6}
    BY <1>2, BlockSpec
  <2> HIDE DEF f, r
  <2>2. f \o r \in Seq(Cell) /\ Len(f \o r) = Len(f) + Len(r)
    BY <2>1, ConcatSpec
  <2>3. Len(f \o r) % 2 = 0
    <3>1. \A x \in Nat : x % 2 = 0 => (x + 4) % 2 = 0
      OBVIOUS
    <3>2. Len(f) \in Nat /\ Len(f) % 2 = 0
      <4>1. \A x \in {4, 6} : x \in Nat /\ x % 2 = 0
        OBVIOUS
      <4> QED BY <2>1, <4>1, Zenon
    <3> QED BY <2>1, <2>2, <3>1, <3>2, Zenon
  <2> QED BY <2>2, <2>3, ProxySpec DEF f, r
<1>4. /\ op_queue[k].content \in Seq(Cell) /\ Len(op_queue[k].content) % 2 = 0
      /\ op_queue[k].symbol[2] # "" /\ op_queue[k].symbol[1] = s
  <2> HIDE DEF pass, proxy
  <2>1. CASE op_queue[k] = PatchAppendAsm(<<s, "__passthru">>, pass)
    <3>1. op_queue[k].content = pass /\ op_queue[k].symbol = <<s, "__passthru">>
      BY <2>1 DEF PatchAppendAsm
    <3> QED BY <1>3, <3>1
  <2>2. CASE op_queue[k] = PatchAppendAsm(<<s, "__proxy">>, proxy)
    <3>1. op_queue[k].content = proxy /\ op_queue[k].symbol = <<s, "__proxy">>
      BY <2>2 DEF PatchAppendAsm
    <3> QED BY <1>3, <3>1
  <2> QED BY <1>1, <2>1, <2>2 DEF pass, proxy
<1>5. ASSUME NEW j \in DOMAIN op_queue, op_queue[j].op = "asm",
             op_queue[j].symbol = op_queue[k].symbol
      PROVE  op_queue[j].content = op_queue[k].content
  <2>1. PICK c \in DOMAIN op_queue, t \in Symbols, d \in fw.starts :
           /\ op_queue[c] = BranchOf(t, d) /\ Branch(c)
           /\ end_patch_addr(d) \in fw.starts /\ end_patch_addr(d) \in {d + 4, d + 6}
           /\ \/ t \in Wrapped /\ op_queue[j] =
                   PatchAppendAsm(<<t, "__passthru">>, FwCells(d, end_patch_addr(d)) \o B_return(t))
              \/ t \in Injected /\ op_queue[j] =
                   PatchAppendAsm(<<t, "__proxy">>, proxy_asm(t))
    BY <1>5, AsmSpec
  <2>2. op_queue[j].symbol[1] = t
    BY <2>1 DEF PatchAppendAsm
  <2>3. t = s
    BY <1>4, <1>5, <2>2
  <2>4. op_queue[b].symbol[1] = s /\ op_queue[c].symbol[1] = s
        /\ op_queue[b].address = a /\ op_queue[c].address = d
    BY <1>1, <2>1, <2>3, OpSpec
  <2>5. b = c
    BY <1>1, <2>1, <2>4 DEF QueueInv, Apart
  <2>6. a = d
    BY <2>4, <2>5
  <2> QED BY <1>1, <1>5, <2>1, <2>3, <2>6, NoneBoth
<1> QED BY <1>4, <1>5

-----------------------------------------------------------------------------
(* The linker.                                                             *)

LEMMA SeqIsSequence ==
  ASSUME NEW S, NEW f \in Seq(S)
  PROVE  IsSequence(f) /\ Len(f) \in Nat /\ DOMAIN f = 1 .. Len(f)
<1>1. Len(f) \in Nat /\ DOMAIN f = 1 .. Len(f) /\ f \in [1 .. Len(f) -> S]
  OBVIOUS
<1>2. f \in [1 .. Len(f) -> {f[i] : i \in DOMAIN f}]
  BY <1>1, Zenon
<1>3. f \in Seq({f[i] : i \in DOMAIN f})
  BY <1>1, <1>2, TabulateSpec
<1> QED BY <1>1, <1>3 DEF IsSequence

LEMMA SequenceConcat ==
  ASSUME NEW q, NEW r, IsSequence(q), IsSequence(r)
  PROVE  /\ IsSequence(q \o r) /\ Len(q \o r) = Len(q) + Len(r)
         /\ Len(q) \in Nat /\ Len(r) \in Nat
         /\ \A i \in 1 .. Len(q) : (q \o r)[i] = q[i]
         /\ \A i \in 1 .. Len(r) : (q \o r)[Len(q) + i] = r[i]
<1> DEFINE A == {q[i] : i \in DOMAIN q}
           B == {r[i] : i \in DOMAIN r}
<1>1. q \in Seq(A) /\ r \in Seq(B)
  BY DEF IsSequence
<1> HIDE DEF A, B
<1>2. q \in Seq(A \union B) /\ r \in Seq(A \union B)
  BY <1>1
<1>3. IsSequence(q \o r)
  BY <1>2, ConcatSpec, SeqIsSequence
<1>4. /\ Len(q \o r) = Len(q) + Len(r) /\ Len(q) \in Nat /\ Len(r) \in Nat
      /\ \A i \in 1 .. Len(q) : (q \o r)[i] = q[i]
      /\ \A i \in 1 .. Len(r) : (q \o r)[Len(q) + i] = r[i]
  BY <1>2
<1> QED BY <1>3, <1>4, Zenon

\* One more block: its code is where its symbol is, and the other blocks stay.
LEMMA LinkedSpec ==
  ASSUME Control, IsSequence(patch_bin.cells), Len(patch_bin.cells) % 2 = 0,
         DOMAIN target_bin = 0 .. fw.size - 1,
         NEW y, NEW content \in Seq(Cell), Len(content) % 2 = 0
  PROVE  LET p == linked(y, content) IN
         /\ IsSequence(p.cells) /\ Len(p.cells) % 2 = 0
         /\ DOMAIN p.symtab = DOMAIN patch_bin.symtab \union {y}
         /\ Holds(p, y, content)
         /\ \A z, c : z # y /\ Len(c) \in Nat /\ Holds(patch_bin, z, c) => Holds(p, z, c)
<1> DEFINE p == linked(y, content)
           old == patch_bin.cells
           m == Len(old)
           n == Len(content)
           new == [i \in 1 .. n |-> resolve(content[i])]
<1>1. n \in Nat /\ IsSequence(new) /\ Len(new) = n
  <2>1. n \in Nat
    OBVIOUS
  <2>2. new \in [1 .. n -> {resolve(content[i]) : i \in 1 .. n}]
    BY Zenon
  <2>3. new \in Seq({resolve(content[i]) : i \in 1 .. n}) /\ Len(new) = n
    BY <2>1, <2>2, TabulateSpec
  <2> QED BY <2>1, <2>3, SeqIsSequence
<1>2. /\ p.cells = old \o new
      /\ p.symtab = [s \in DOMAIN patch_bin.symtab \union {y} |->
                       IF s = y THEN text_section + m ELSE patch_bin.symtab[s]]
  BY DEF linked
<1>3. text_section = text0 /\ text0 \in Nat
  BY SizeSpec, FwFacts, TextFacts0 DEF text_section, text0
<1> DEFINE cells == old \o new
<1> HIDE DEF p, old, new, m, n
<1>4. /\ IsSequence(cells) /\ Len(cells) = m + n /\ m \in Nat
      /\ \A i \in 1 .. m : cells[i] = old[i]
      /\ \A i \in 1 .. n : cells[m + i] = new[i]
  <2>1. IsSequence(old)
    BY DEF old
  <2> QED BY <1>1, <2>1, SequenceConcat DEF m
<1> HIDE DEF cells
<1>5. m % 2 = 0 /\ n % 2 = 0 /\ (m + n) % 2 = 0
  <2>1. m % 2 = 0 /\ n % 2 = 0
    BY DEF m, n, old
  <2>2. \A i, j \in Nat : i % 2 = 0 /\ j % 2 = 0 => (i + j) % 2 = 0
    OBVIOUS
  <2> QED BY <1>1, <1>4, <2>1, <2>2, ZenonT(60)
<1>6. DOMAIN p.symtab = DOMAIN patch_bin.symtab \union {y} /\ p.symtab[y] - text0 = m /\ p.symtab[y] \in Nat
  BY <1>2, <1>3, <1>4
<1>7. Holds(p, y, content)
  <2>1. CodeAt(cells, m, content)
    <3>1. m + Len(content) <= Len(cells)
      BY <1>1, <1>4 DEF n
    <3>2. \A i \in 1 .. Len(content) : cells[m + i] = resolve(content[i])
      BY <1>4 DEF n, new
    <3> QED BY <1>4, <1>5, <3>1, <3>2 DEF CodeAt
  <2> QED BY <1>2, <1>6, <2>1 DEF Holds, cells
<1>8. ASSUME NEW z, NEW c, z # y, Len(c) \in Nat, Holds(patch_bin, z, c)
      PROVE  Holds(p, z, c)
  <2> DEFINE off == patch_bin.symtab[z] - text0
  <2>1. z \in DOMAIN p.symtab /\ p.symtab[z] = patch_bin.symtab[z] /\ patch_bin.symtab[z] \in Nat
    BY <1>2, <1>6, <1>8 DEF Holds
  <2>2. /\ off \in Nat /\ off % 2 = 0 /\ off + Len(c) <= m
        /\ \A i \in 1 .. Len(c) : old[off + i] = resolve(c[i])
    BY <1>8 DEF Holds, CodeAt, m, old
  <2> HIDE DEF off
  <2>3. \A i \in 1 .. Len(c) : off + i \in 1 .. m
    BY <1>4, <1>8, <2>2
  <2>4. CodeAt(cells, off, c)
    BY <1>1, <1>4, <1>8, <2>2, <2>3 DEF CodeAt
  <2> QED BY <1>2, <2>1, <2>4 DEF Holds, off, cells
<1>9. IsSequence(p.cells) /\ Len(p.cells) % 2 = 0
  BY <1>2, <1>4, <1>5 DEF cells
<1> QED BY <1>6, <1>7, <1>8, <1>9 DEF p

\* What does not depend on the image, the patch and the loop counter.
LEMMA SameQueue ==
  ASSUME UNCHANGED <<fw, target, op_queue>>
  PROVE  /\ QueueInv' <=> QueueInv
         /\ \A p, y, c : Holds(p, y, c)' <=> Holds(p, y, c)
         /\ \A k : Branch(k)' <=> Branch(k)
         /\ \A k, a : Covers(k, a)' <=> Covers(k, a)
         /\ MICROCODE_OFFSET' = MICROCODE_OFFSET
         /\ \A c : resolve(c)' = resolve(c)
<1>1. MICROCODE_OFFSET' = MICROCODE_OFFSET /\ \A a : end_patch_addr(a)' = end_patch_addr(a)
  BY DEF MICROCODE_OFFSET, BOOTLOADER_SIZE, end_patch_addr
<1>2. \A c : resolve(c)' = resolve(c)
  BY DEF resolve
<1>3. text0' = text0
  BY <1>1 DEF text0
<1>4. \A cells, off, c : CodeAt(cells, off, c)' <=> CodeAt(cells, off, c)
  BY <1>2 DEF CodeAt
<1>5. \A p, y, c : Holds(p, y, c)' <=> Holds(p, y, c)
  BY <1>3, <1>4 DEF Holds
<1>6. \A k : Branch(k)' <=> Branch(k)
  BY DEF Branch
<1>7. \A k, a : Covers(k, a)' <=> Covers(k, a)
  BY DEF Covers
<1>8. /\ \A o : DefineOf(o)' = DefineOf(o) /\ PassthruOf(o)' = PassthruOf(o) /\ ProxyOf(o)' = ProxyOf(o)
      /\ \A o : Detour(o)' <=> Detour(o)
  BY <1>1 DEF DefineOf, PassthruOf, ProxyOf, Detour, return_addr
<1>9. \A o, c : Belongs(o, c)' <=> Belongs(o, c)
  BY <1>8, Zenon DEF Belongs
<1>10. NoStrayOps' <=> NoStrayOps
  BY <1>6, <1>9 DEF NoStrayOps
<1>11. Complete' <=> Complete
  BY <1>6, <1>8 DEF Complete
<1>12. Apart' <=> Apart
  BY <1>6 DEF Apart
<1> QED BY <1>1, <1>2, <1>5, <1>6, <1>7, <1>10, <1>11, <1>12 DEF QueueInv

-----------------------------------------------------------------------------
(* The steps before the image is written.                                  *)

LEMMA CodeSpec ==
  ASSUME Control, NEW s \in Symbols
  PROVE  /\ Code(s) \in Seq(Cell) /\ Len(Code(s)) \in Nat
         /\ Len(Code(s)) > 0 /\ Len(Code(s)) % 2 = 0
<1>1. 0 \in Nat /\ 0 <= 0
  OBVIOUS
<1> QED BY <1>1, BlockSpec

LEMMA SecondOfPair == \A s, t : <<s, t>>[2] = t
OBVIOUS

\* As long as nothing is written there is nothing to show.
LEMMA NotWritten ==
  ASSUME out' = {}
  PROVE  BranchesLand' /\ DetourComplete' /\ RestOfImageKept'
BY DEF BranchesLand, DetourComplete, RestOfImageKept

LEMMA QueueKeeps ==
  ASSUME PatcherInv,
         \/ \E s \in Wrapped, addr \in fw.starts, passthru \in BOOLEAN : wrap(s, addr, passthru)
         \/ \E s \in Injected, addr \in fw.starts : inject(s, addr)
  PROVE  PatcherInv'
<1>1. /\ QueueInv' /\ pc = "queue"
      /\ UNCHANGED <<fw, target, pc, target_bin, patch_bin, next_op, out>>
  BY QueueStep DEF PatcherInv
<1>2. Control' /\ out' = {}
  BY <1>1 DEF PatcherInv, Control
<1>3. PatchType'
  BY <1>1 DEF PatcherInv, PatchType
<1>4. LinkInv'
  <2>1. DOMAIN patch_bin'.symtab = {}
    BY <1>1 DEF PatcherInv, PatchType
  <2> QED BY <1>1, <2>1 DEF LinkInv, Composed
<1>5. ImageInv'
  <2>1. \A k : ~Pasted(k) /\ ~Pasted(k)'
    BY <1>1 DEF Pasted
  <2> QED BY <1>1, <2>1 DEF PatcherInv, ImageInv, FwCell
<1> QED BY <1>1, <1>2, <1>3, <1>4, <1>5, NotWritten DEF PatcherInv

LEMMA FinalizeKeeps ==
  ASSUME PatcherInv, finalize
  PROVE  PatcherInv'
<1>1. /\ pc = "queue" /\ pc' = "compose" /\ next_op' = 1
      /\ UNCHANGED <<fw, target, target_bin, op_queue, patch_bin, out>>
  BY DEF finalize
<1>2. Control' /\ out' = {}
  BY <1>1 DEF PatcherInv, Control
<1>3. QueueInv'
  BY <1>1, SameQueue DEF PatcherInv
<1>4. PatchType'
  BY <1>1 DEF PatcherInv, PatchType
<1>5. LinkInv'
  <2>1. DOMAIN patch_bin'.symtab = {}
    BY <1>1 DEF PatcherInv, PatchType
  <2>2. DOMAIN op_queue' \subseteq Nat \ {0}
    BY <1>1 DEF PatcherInv, QueueInv
  <2>3. \A k \in DOMAIN op_queue' : ~(k < next_op')
    BY <1>1, <2>2
  <2> QED BY <1>1, <2>1, <2>3 DEF LinkInv, Composed
<1>6. ImageInv'
  <2>1. \A k : ~Pasted(k) /\ ~Pasted(k)'
    BY <1>1 DEF Pasted
  <2> QED BY <1>1, <2>1 DEF PatcherInv, ImageInv, FwCell
<1> QED BY <1>2, <1>3, <1>4, <1>5, <1>6, NotWritten DEF PatcherInv

\* A step of the linker, which adds the block of a symbol.
LEMMA BlockKeeps ==
  ASSUME PatcherInv, pc = "compose",
         UNCHANGED <<fw, target, pc, target_bin, op_queue, out>>,
         NEW y, NEW content \in Seq(Cell), Len(content) % 2 = 0,
         patch_bin' = linked(y, content), next_op' \in Nat \ {0},
         \A k \in DOMAIN op_queue : op_queue[k].op = "asm" =>
           /\ k < next_op' => k < next_op \/ op_queue[k].symbol = y
           /\ op_queue[k].symbol = y => op_queue[k].content = content,
         \A s \in Wrapped : y = <<s, "">> => content = Code(s)
  PROVE  PatcherInv'
<1>1. /\ Control /\ IsSequence(patch_bin.cells) /\ Len(patch_bin.cells) % 2 = 0
      /\ DOMAIN target_bin = 0 .. fw.size - 1
  BY DEF PatcherInv, PatchType, ImageInv
<1> DEFINE p == patch_bin'
<1>2. /\ IsSequence(p.cells) /\ Len(p.cells) % 2 = 0
      /\ DOMAIN p.symtab = DOMAIN patch_bin.symtab \union {y}
      /\ Holds(p, y, content)
      /\ \A z, c : z # y /\ Len(c) \in Nat /\ Holds(patch_bin, z, c) => Holds(p, z, c)
  BY <1>1, LinkedSpec
<1>3. Control' /\ out' = {}
  BY DEF PatcherInv, Control
<1>4. QueueInv'
  BY SameQueue DEF PatcherInv
<1>5. PatchType'
  BY <1>2 DEF PatchType
<1>6. LinkInv'
  <2>1. ASSUME NEW k \in DOMAIN op_queue, Composed(k)'
        PROVE  Holds(p, op_queue[k].symbol, op_queue[k].content)
    <3>1. op_queue[k].op = "asm" /\ k < next_op'
      BY <2>1 DEF Composed
    <3>2. CASE op_queue[k].symbol = y
      BY <1>2, <3>1, <3>2
    <3>3. CASE op_queue[k].symbol # y
      <4>1. Composed(k)
        BY <3>1, <3>3 DEF Composed
      <4>2. Holds(patch_bin, op_queue[k].symbol, op_queue[k].content)
        BY <4>1 DEF PatcherInv, LinkInv
      <4>3. op_queue[k].content \in Seq(Cell)
        BY <3>1, AsmFacts DEF PatcherInv
      <4>4. Len(op_queue[k].content) \in Nat
        BY <4>3, SeqIsSequence
      <4> QED BY <1>2, <3>3, <4>2, <4>4
    <3> QED BY <3>2, <3>3
  <2>2. ASSUME NEW s \in Wrapped, <<s, "">> \in DOMAIN p.symtab
        PROVE  Holds(p, <<s, "">>, Code(s))
    <3>1. CASE <<s, "">> = y
      BY <1>2, <3>1
    <3>2. CASE <<s, "">> # y
      <4>1. Holds(patch_bin, <<s, "">>, Code(s))
        BY <1>2, <2>2, <3>2 DEF PatcherInv, LinkInv
      <4>2. Len(Code(s)) \in Nat
        BY <1>1, CodeSpec DEF Symbols
      <4> QED BY <1>2, <3>2, <4>1, <4>2
    <3> QED BY <3>1, <3>2
  <2>3. \A z, c : Holds(patch_bin, z, c)' <=> Holds(p, z, c)
    BY SameQueue
  <2> QED BY <2>1, <2>2, <2>3 DEF LinkInv
<1>7. ImageInv'
  <2>1. \A k : ~Pasted(k) /\ ~Pasted(k)'
    BY DEF Pasted
  <2> QED BY <2>1 DEF PatcherInv, ImageInv, FwCell
<1> QED BY <1>3, <1>4, <1>5, <1>6, <1>7, NotWritten DEF PatcherInv

LEMMA ComposeKeeps ==
  ASSUME PatcherInv, ComposeAsm
  PROVE  PatcherInv'
<1> DEFINE op == op_queue[next_op]
<1>1. /\ pc = "compose" /\ next_op' = next_op + 1 /\ next_op \in DOMAIN op_queue
      /\ UNCHANGED <<fw, target, pc, target_bin, op_queue, out>>
      /\ patch_bin' = IF op.op = "asm" THEN linked(op.symbol, op.content) ELSE patch_bin
  BY DEF PatcherInv, Control, QueueInv, ComposeAsm
<1>2. next_op' \in Nat \ {0} /\ \A k \in DOMAIN op_queue : k < next_op' => k < next_op \/ k = next_op
  BY <1>1 DEF PatcherInv, Control, QueueInv
<1>3. CASE op.op = "asm"
  <2>1. /\ op.content \in Seq(Cell) /\ Len(op.content) % 2 = 0 /\ op.symbol[2] # ""
        /\ \A j \in DOMAIN op_queue :
              op_queue[j].op = "asm" /\ op_queue[j].symbol = op.symbol => op_queue[j].content = op.content
    BY <1>1, <1>3, AsmFacts DEF PatcherInv
  <2>2. \A s \in Wrapped : op.symbol # <<s, "">>
    BY <2>1, SecondOfPair
  <2>3. patch_bin' = linked(op.symbol, op.content)
    BY <1>1, <1>3
  <2> HIDE DEF op
  <2>4. \A k \in DOMAIN op_queue : op_queue[k].op = "asm" =>
           /\ k < next_op' => k < next_op \/ op_queue[k].symbol = op.symbol
           /\ op_queue[k].symbol = op.symbol => op_queue[k].content = op.content
    BY <1>2, <2>1 DEF op
  <2> QED BY <1>1, <1>2, <2>1, <2>2, <2>3, <2>4, BlockKeeps
<1>4. CASE op.op # "asm"
  <2>1. patch_bin' = patch_bin
    BY <1>1, <1>4
  <2>2. Control' /\ out' = {}
    BY <1>1, <1>2 DEF PatcherInv, Control
  <2>3. QueueInv'
    BY <1>1, SameQueue DEF PatcherInv
  <2>4. PatchType'
    BY <1>1, <2>1 DEF PatcherInv, PatchType
  <2>5. LinkInv'
    <3>1. \A k \in DOMAIN op_queue : Composed(k)' => Composed(k)
      BY <1>1, <1>2, <1>4 DEF Composed
    <3>2. \A z, c : Holds(patch_bin, z, c)' <=> Holds(patch_bin, z, c)
      BY <1>1, <2>1, SameQueue
    <3> QED BY <1>1, <2>1, <3>1, <3>2 DEF PatcherInv, LinkInv
  <2>6. ImageInv'
    <3>1. \A k : ~Pasted(k) /\ ~Pasted(k)'
      BY <1>1 DEF Pasted
    <3> QED BY <1>1, <3>1 DEF PatcherInv, ImageInv, FwCell
  <2> QED BY <2>2, <2>3, <2>4, <2>5, <2>6, NotWritten DEF PatcherInv
<1> QED BY <1>3, <1>4

LEMMA CompileKeeps ==
  ASSUME PatcherInv, NEW s \in Wrapped, CompileC(s)
  PROVE  PatcherInv'
<1>1. /\ pc = "compose" /\ next_op' = next_op /\ next_op \in Nat \ {0}
      /\ UNCHANGED <<fw, target, pc, target_bin, op_queue, out>>
      /\ patch_bin' = linked(<<s, "">>, Code(s))
  BY DEF CompileC, PatcherInv, Control
<1>2. Code(s) \in Seq(Cell) /\ Len(Code(s)) % 2 = 0
  BY CodeSpec DEF PatcherInv, Symbols
<1>3. \A k \in DOMAIN op_queue : op_queue[k].op = "asm" => op_queue[k].symbol # <<s, "">>
  <2>1. SUFFICES ASSUME NEW k \in DOMAIN op_queue, op_queue[k].op = "asm"
                 PROVE  op_queue[k].symbol[2] # ""
    BY SecondOfPair
  <2>2. Control /\ QueueInv
    BY DEF PatcherInv
  <2> QED BY <2>1, <2>2, AsmFacts
<1>4. \A t \in Wrapped : <<s, "">> = <<t, "">> => Code(s) = Code(t)
  OBVIOUS
<1> QED BY <1>1, <1>2, <1>3, <1>4, BlockKeeps

LEMMA LinkKeeps ==
  ASSUME PatcherInv, Link
  PROVE  PatcherInv'
<1>1. /\ pc = "compose" /\ next_op > Len(op_queue) /\ Unlinked = {}
      /\ pc' \in {"relocate", "failed"} /\ next_op' = 1
      /\ UNCHANGED <<fw, target, target_bin, op_queue, patch_bin, out>>
  BY DEF Link
<1>2. Control' /\ out' = {}
  BY <1>1 DEF PatcherInv, Control
<1>3. QueueInv'
  BY <1>1, SameQueue DEF PatcherInv
<1>4. PatchType'
  BY <1>1 DEF PatcherInv, PatchType
<1>5. \A k \in DOMAIN op_queue : k < next_op /\ ~(k < next_op')
  BY <1>1 DEF PatcherInv, QueueInv, Control
<1>6. LinkInv'
  <2>1. \A k \in DOMAIN op_queue : Composed(k)' => Composed(k)
    BY <1>1, <1>5 DEF Composed
  <2>2. \A z, c : Holds(patch_bin, z, c)' <=> Holds(patch_bin, z, c)
    BY <1>1, SameQueue
  <2>3. Unlinked' = {}
    BY <1>1 DEF Unlinked
  <2> QED BY <1>1, <2>1, <2>2, <2>3 DEF PatcherInv, LinkInv
<1>7. ImageInv'
  <2>1. \A k \in DOMAIN op_queue : ~Pasted(k) /\ ~Pasted(k)'
    BY <1>1, <1>5 DEF Pasted
  <2> QED BY <1>1, <2>1 DEF PatcherInv, ImageInv, FwCell
<1> QED BY <1>2, <1>3, <1>4, <1>6, <1>7, NotWritten DEF PatcherInv

-----------------------------------------------------------------------------
(* The relocation loop.                                                    *)

\* The branch of the next operation is pasted beside the earlier ones.
LEMMA RelocateKeeps ==
  ASSUME PatcherInv, Relocate
  PROVE  PatcherInv'
<1> DEFINE op == op_queue[next_op]
<1>1. /\ pc = "relocate" /\ next_op' = next_op + 1 /\ next_op \in DOMAIN op_queue
      /\ UNCHANGED <<fw, target, pc, op_queue, patch_bin, out>>
      /\ target_bin' = IF op.op = "branch" THEN paste(target_bin, op.address, branch_at(op))
                                           ELSE target_bin
  BY DEF PatcherInv, Control, QueueInv, Relocate
<1>2. /\ next_op' \in Nat \ {0}
      /\ \A k \in DOMAIN op_queue : k < next_op' <=> k < next_op \/ k = next_op
  BY <1>1 DEF PatcherInv, Control, QueueInv
<1>3. Control' /\ out' = {}
  BY <1>1, <1>2 DEF PatcherInv, Control
<1>4. QueueInv'
  BY <1>1, SameQueue DEF PatcherInv
<1>5. PatchType'
  BY <1>1 DEF PatcherInv, PatchType
<1>6. LinkInv'
  <2>1. \A k \in DOMAIN op_queue : Composed(k)' => Composed(k)
    BY <1>1 DEF Composed
  <2>2. \A z, c : Holds(patch_bin, z, c)' <=> Holds(patch_bin, z, c)
    BY <1>1, SameQueue
  <2>3. Unlinked' = Unlinked
    BY <1>1 DEF Unlinked
  <2> QED BY <1>1, <2>1, <2>2, <2>3 DEF PatcherInv, LinkInv
<1>7. \A o : branch_at(o)' = branch_at(o)
  BY <1>1, SameQueue DEF branch_at
<1>8. \A k \in DOMAIN op_queue : Pasted(k)' <=> Pasted(k) \/ (k = next_op /\ op.op = "branch")
  BY <1>1, <1>2 DEF Pasted, Branch
<1>9. /\ DOMAIN target_bin = 0 .. fw.size - 1
      /\ \A k \in DOMAIN op_queue : Pasted(k) =>
           \A i \in 1 .. 4 : target_bin[op_queue[k].address + i - 1] =
                               <<"byte", "", Bytes(branch_at(op_queue[k]))[i]>>
      /\ \A a \in 0 .. fw.size - 1 :
           (\A k \in DOMAIN op_queue : Pasted(k) => ~Covers(k, a)) => target_bin[a] = FwCell(a)
  BY <1>1 DEF PatcherInv, ImageInv
<1>10. ImageInv'
  <2>1. CASE op.op # "branch"
    <3>1. target_bin' = target_bin /\ \A k \in DOMAIN op_queue : Pasted(k)' <=> Pasted(k)
      BY <1>1, <1>8, <2>1
    <3>2. \A k, a : Covers(k, a)' <=> Covers(k, a)
      BY <1>1, SameQueue
    <3>3. fw' = fw /\ op_queue' = op_queue /\ \A a : FwCell(a)' = FwCell(a)
      BY <1>1 DEF FwCell
    <3> QED BY <1>7, <1>9, <3>1, <3>2, <3>3, ZenonT(60) DEF ImageInv
  <2>2. CASE op.op = "branch"
    <3> DEFINE addr == op.address
               instr == branch_at(op)
    <3>0. \A k \in DOMAIN op_queue : Branch(k) =>
            op_queue[k].address \in Nat /\ op_queue[k].address + 6 <= fw.size
      <4>1. SUFFICES ASSUME NEW k \in DOMAIN op_queue, Branch(k)
                     PROVE  op_queue[k].address \in Nat /\ op_queue[k].address + 6 <= fw.size
        OBVIOUS
      <4>2. Detour(op_queue[k])
        BY <4>1 DEF PatcherInv, QueueInv, Complete
      <4>3. PICK a \in fw.starts : (\E x : op_queue[k] = PatchBranchOffset(a, x)) /\ a + 6 <= fw.size
        BY <4>2 DEF Detour
      <4>4. op_queue[k].address = a
        BY <4>3 DEF PatchBranchOffset
      <4> QED BY <4>3, <4>4, FwFacts DEF PatcherInv
    <3>1. addr \in Nat /\ addr + 6 <= fw.size /\ fw.size \in Nat
      BY <1>1, <2>2, <3>0, FwFacts DEF Branch, PatcherInv
    <3>2. target_bin' = [a \in DOMAIN target_bin |->
             IF a \in addr .. addr + 3 THEN <<"byte", "", Bytes(instr)[a - addr + 1]>>
                                       ELSE target_bin[a]]
      BY <1>1, <2>2 DEF paste, Bytes
    <3> HIDE DEF addr, instr
    <3>3. DOMAIN target_bin' = 0 .. fw.size - 1
      BY <1>9, <3>2
    <3>4. ASSUME NEW i \in 1 .. 4 PROVE target_bin'[addr + i - 1] = <<"byte", "", Bytes(instr)[i]>>
      <4>1. addr + i - 1 \in 0 .. fw.size - 1 /\ addr + i - 1 \in addr .. addr + 3
            /\ (addr + i - 1) - addr + 1 = i
        BY <3>1
      <4> QED BY <1>9, <3>2, <4>1
    <3>5. ASSUME NEW k \in DOMAIN op_queue, Pasted(k), k # next_op, NEW i \in 1 .. 4
          PROVE  target_bin'[op_queue[k].address + i - 1] =
                   <<"byte", "", Bytes(branch_at(op_queue[k]))[i]>>
      <4>1. Branch(k) /\ Branch(next_op)
        BY <1>1, <2>2, <3>5 DEF Pasted, Branch
      <4>2. op_queue[k].address + 6 <= addr \/ addr + 6 <= op_queue[k].address
        BY <1>1, <3>5, <4>1, Zenon DEF PatcherInv, QueueInv, Apart, addr
      <4>3. op_queue[k].address \in Nat /\ op_queue[k].address + 6 <= fw.size
        BY <3>0, <4>1
      <4>4. /\ op_queue[k].address + i - 1 \in 0 .. fw.size - 1
            /\ op_queue[k].address + i - 1 \notin addr .. addr + 3
        BY <3>1, <4>2, <4>3
      <4> QED BY <1>9, <3>2, <3>5, <4>4
    <3>6. ASSUME NEW a \in 0 .. fw.size - 1,
                 \A k \in DOMAIN op_queue : Pasted(k)' => ~Covers(k, a)
          PROVE  target_bin'[a] = FwCell(a)
      <4>1. ~Covers(next_op, a)
        BY <1>1, <1>8, <2>2, <3>6
      <4>2. a \notin addr .. addr + 3
        BY <3>1, <4>1 DEF Covers, addr
      <4>3. \A k \in DOMAIN op_queue : Pasted(k) => ~Covers(k, a)
        BY <1>8, <3>6
      <4> QED BY <1>9, <3>2, <4>2, <4>3
    <3>7. ASSUME NEW k \in DOMAIN op_queue, Pasted(k)', NEW i \in 1 .. 4
          PROVE  target_bin'[op_queue[k].address + i - 1] =
                   <<"byte", "", Bytes(branch_at(op_queue[k]))[i]>>
      <4>1. CASE k = next_op
        BY <3>4, <4>1 DEF addr, instr
      <4>2. CASE k # next_op
        BY <1>8, <3>5, <3>7, <4>2
      <4> QED BY <4>1, <4>2
    <3>8. \A k, a : Covers(k, a)' <=> Covers(k, a)
      BY <1>1, SameQueue
    <3> QED BY <1>1, <1>7, <3>3, <3>6, <3>7, <3>8 DEF ImageInv, FwCell
  <2> QED BY <2>1, <2>2
<1> QED BY <1>3, <1>4, <1>5, <1>6, <1>10, NotWritten DEF PatcherInv

LEMMA RelocateEndKeeps ==
  ASSUME PatcherInv, RelocateEnd
  PROVE  PatcherInv'
<1>1. /\ pc = "relocate" /\ pc' = "append" /\ next_op > Len(op_queue)
      /\ UNCHANGED <<fw, target, target_bin, op_queue, patch_bin, next_op, out>>
  BY DEF RelocateEnd
<1>2. Control' /\ out' = {}
  BY <1>1 DEF PatcherInv, Control
<1>3. QueueInv'
  BY <1>1, SameQueue DEF PatcherInv
<1>4. PatchType'
  BY <1>1 DEF PatcherInv, PatchType
<1>5. LinkInv'
  <2>1. \A k \in DOMAIN op_queue : Composed(k)' => Composed(k)
    BY <1>1 DEF Composed
  <2>2. \A z, c : Holds(patch_bin, z, c)' <=> Holds(patch_bin, z, c)
    BY <1>1, SameQueue
  <2>3. Unlinked' = Unlinked
    BY <1>1 DEF Unlinked
  <2> QED BY <1>1, <2>1, <2>2, <2>3 DEF PatcherInv, LinkInv
<1>6. ImageInv'
  <2>1. \A k \in DOMAIN op_queue : k < next_op
    BY <1>1 DEF PatcherInv, QueueInv, Control
  <2>2. \A k \in DOMAIN op_queue : Pasted(k)' <=> Pasted(k)
    BY <1>1, <2>1 DEF Pasted, Branch
  <2>3. \A o : branch_at(o)' = branch_at(o)
    BY <1>1, SameQueue DEF branch_at
  <2>4. \A k, a : Covers(k, a)' <=> Covers(k, a)
    BY <1>1, SameQueue
  <2> QED BY <1>1, <2>2, <2>3, <2>4 DEF PatcherInv, ImageInv, FwCell
<1> QED BY <1>2, <1>3, <1>4, <1>5, <1>6, NotWritten DEF PatcherInv

-----------------------------------------------------------------------------
(* The finished image.                                                     *)

\* Where finalize appends the linked code.
code_start == fw.size + (fw.size % 2)

\* An image of n cells, followed by m cells.
Joined(res, image, n, cells, m) ==
  /\ DOMAIN res = 0 .. n + m - 1
  /\ \A a \in 0 .. n - 1 : res[a] = image[a]
  /\ \A i \in 1 .. m : res[n + i - 1] = cells[i]

LEMMA AppendSpec ==
  ASSUME NEW n \in Nat, NEW image, DOMAIN image = 0 .. n - 1,
         NEW cells, IsSequence(cells), NEW m, m = Len(cells)
  PROVE  m \in Nat /\ Joined(Append2(image, cells), image, n, cells, m)
<1>1. size(image) = n
  BY SizeSpec
<1>2. m \in Nat
  <2>1. cells \in Seq({cells[i] : i \in DOMAIN cells})
    BY DEF IsSequence
  <2> QED BY <2>1, SeqIsSequence
<1> QED BY <1>1, <1>2 DEF Append2, Joined

LEMMA PaddedSpec ==
  ASSUME NEW z \in Nat, z = fw.size, DOMAIN target_bin = 0 .. z - 1
  PROVE  /\ code_start \in Nat /\ code_start >= z /\ code_start % 2 = 0
         /\ DOMAIN padded = 0 .. code_start - 1
         /\ \A a \in 0 .. z - 1 : padded[a] = target_bin[a]
<1>1. size(target_bin) = z
  BY SizeSpec
<1>2. CASE z % 2 = 1
  <2> DEFINE pad == << <<"pad", "", 0>> >>
  <2>1. pad \in Seq({<<"pad", "", 0>>}) /\ Len(pad) = 1
    OBVIOUS
  <2>2. padded = Append2(target_bin, pad)
    BY <1>1, <1>2 DEF padded
  <2>3. code_start = z + 1 /\ z + 1 - 1 = code_start - 1
    BY <1>2 DEF code_start
  <2>4. IsSequence(pad)
    BY <2>1, SeqIsSequence
  <2> HIDE DEF pad
  <2>5. Joined(padded, target_bin, z, pad, 1)
    BY <2>1, <2>2, <2>4, AppendSpec
  <2>6. (z + 1) \in Nat /\ z + 1 >= z /\ (z + 1) % 2 = 0
    BY <1>2
  <2> QED BY <2>3, <2>5, <2>6 DEF Joined
<1>3. CASE z % 2 # 1
  <2>1. code_start = z /\ z % 2 = 0
    BY <1>3 DEF code_start
  <2>2. padded = target_bin
    BY <1>1, <1>3 DEF padded
  <2> QED BY <2>1, <2>2
<1> QED BY <1>2, <1>3

LEMMA FinishedSpec ==
  ASSUME PatcherInv, pc = "append"
  PROVE  /\ Len(patch_bin.cells) \in Nat /\ code_start \in Nat /\ footer_size \in Nat
         /\ size(finished) = code_start + Len(patch_bin.cells) + footer_size
         /\ DOMAIN finished = 0 .. code_start + Len(patch_bin.cells) + footer_size - 1
         /\ \A a \in 0 .. fw.size - 1 : finished[a] = target_bin[a]
         /\ \A i \in 1 .. Len(patch_bin.cells) : finished[code_start + i - 1] = patch_bin.cells[i]
         /\ DOMAIN trailing_bin_content = 1 .. footer_size
         /\ \A i \in 1 .. footer_size :
              finished[code_start + Len(patch_bin.cells) + i - 1] = trailing_bin_content[i]
<1> DEFINE sz == fw.size
           cells == patch_bin.cells
           n == Len(cells)
           f == footer_size
           T == trailing_bin_content
           end == code_start
           behind == end + n
           whole == Append2(padded, cells)
<1>1. sz \in Nat /\ f \in 0 .. sz /\ DOMAIN target_bin = 0 .. sz - 1 /\ IsSequence(cells)
  BY FwFacts DEF PatcherInv, ImageInv, PatchType
<1>2. f \in Nat /\ sz - f \in Nat /\ sz - f <= sz /\ sz - (sz - f) = f
  BY <1>1
<1>3. DOMAIN T = 1 .. f /\ Len(T) = f /\ IsSequence(T)
  <2>1. T \in [1 .. f -> {T[i] : i \in 1 .. f}]
    BY <1>2, Zenon DEF trailing_bin_content, FwCells
  <2>2. T \in Seq({T[i] : i \in 1 .. f}) /\ Len(T) = f /\ DOMAIN T = 1 .. f
    BY <1>2, <2>1, TabulateSpec
  <2> QED BY <2>2, SeqIsSequence
<1>4. /\ end \in Nat /\ end >= sz /\ DOMAIN padded = 0 .. end - 1
      /\ \A a \in 0 .. sz - 1 : padded[a] = target_bin[a]
  BY <1>1, PaddedSpec
<1>0. n = Len(cells) /\ whole = Append2(padded, cells)
  OBVIOUS
<1>7. finished = Append2(whole, T)
  BY DEF finished
<1> HIDE DEF sz, cells, n, f, T, end, whole
<1>5. /\ n \in Nat /\ DOMAIN whole = 0 .. end + n - 1
      /\ \A a \in 0 .. end - 1 : whole[a] = padded[a]
      /\ \A i \in 1 .. n : whole[end + i - 1] = cells[i]
  <2>1. n \in Nat /\ Joined(whole, padded, end, cells, n)
    BY <1>0, <1>1, <1>4, AppendSpec
  <2> QED BY <2>1 DEF Joined
<1>6. behind \in Nat /\ DOMAIN whole = 0 .. behind - 1
  BY <1>4, <1>5
<1>8. behind = end + n
  OBVIOUS
<1> HIDE DEF behind
<1>9. /\ DOMAIN finished = 0 .. behind + f - 1
      /\ \A a \in 0 .. behind - 1 : finished[a] = whole[a]
      /\ \A i \in 1 .. f : finished[behind + i - 1] = T[i]
  <2>1. Joined(finished, whole, behind, T, f)
    BY <1>3, <1>6, <1>7, AppendSpec
  <2> QED BY <2>1 DEF Joined
<1>10. size(finished) = behind + f
  <2> DEFINE k == behind + f
  <2>1. k \in Nat /\ DOMAIN finished = 0 .. k - 1
    BY <1>2, <1>6, <1>9
  <2> HIDE DEF k
  <2>2. size(finished) = k
    BY <2>1, SizeSpec
  <2> QED BY <2>2 DEF k
<1>11. \A a \in 0 .. sz - 1 : finished[a] = target_bin[a]
  <2>1. \A a \in 0 .. sz - 1 : a \in 0 .. end - 1 /\ a \in 0 .. behind - 1
    BY <1>1, <1>4, <1>5, <1>8
  <2> QED BY <1>4, <1>5, <1>9, <2>1
<1>12. \A i \in 1 .. n : finished[end + i - 1] = cells[i]
  <2>1. \A i \in 1 .. n : end + i - 1 \in 0 .. behind - 1
    BY <1>4, <1>5, <1>8
  <2> QED BY <1>5, <1>9, <2>1
<1> QED BY <1>2, <1>3, <1>4, <1>5, <1>8, <1>9, <1>10, <1>11, <1>12 DEF sz, end, cells, n, f, T

\* When ld starts .text where finalize appends it, a block is in the image where
\* its symbol is.
LEMMA BlockLands ==
  ASSUME PatcherInv, pc = "append", Placed,
         NEW y, NEW content, IsSequence(content), Holds(patch_bin, y, content)
  PROVE  LET at == patch_bin.symtab[y] - MICROCODE_OFFSET IN
         /\ at \in Nat /\ at % 2 = 0 /\ at >= fw.size
         /\ at + Len(content) <= size(finished)
         /\ Len(content) \in Nat /\ DOMAIN content = 1 .. Len(content)
         /\ \A i \in 1 .. Len(content) :
              at + i - 1 \in DOMAIN finished /\ finished[at + i - 1] = resolve(content[i])
<1> DEFINE at == patch_bin.symtab[y] - MICROCODE_OFFSET
           off == patch_bin.symtab[y] - text0
           n == Len(patch_bin.cells)
           m == Len(content)
<1>1. /\ off \in Nat /\ off % 2 = 0 /\ off + m <= n
      /\ \A i \in 1 .. m : patch_bin.cells[off + i] = resolve(content[i])
  BY DEF Holds, CodeAt
<1>2. m \in Nat /\ DOMAIN content = 1 .. m
  <2>1. content \in Seq({content[i] : i \in DOMAIN content})
    BY DEF IsSequence
  <2> QED BY <2>1, SeqIsSequence
<1>3. text0 = code_start + MICROCODE_OFFSET
  BY DEF Placed, text0, code_start
<1>4. fw.size \in Nat /\ MICROCODE_OFFSET \in Nat
  BY FwFacts DEF PatcherInv
<1>5. code_start \in Nat /\ code_start % 2 = 0 /\ code_start >= fw.size
  BY <1>4 DEF code_start
<1>6. at = code_start + off
  <2> DEFINE x == patch_bin.symtab[y]
             c == code_start
             d == MICROCODE_OFFSET
  <2>1. x \in Nat /\ c \in Nat /\ d \in Nat
    BY <1>4, <1>5 DEF Holds
  <2> HIDE DEF x, c, d
  <2>2. x - d = c + (x - (c + d))
    BY <2>1
  <2> QED BY <1>3, <2>2 DEF x, c, d
<1>7. /\ n \in Nat /\ footer_size \in Nat
      /\ size(finished) = code_start + n + footer_size
      /\ DOMAIN finished = 0 .. code_start + n + footer_size - 1
      /\ \A i \in 1 .. n : finished[code_start + i - 1] = patch_bin.cells[i]
  BY FinishedSpec
<1> HIDE DEF at, off, n, m
<1>8. at \in Nat /\ at % 2 = 0 /\ at >= fw.size /\ at + m <= size(finished)
  <2>1. \A c, o, z \in Nat : c % 2 = 0 /\ o % 2 = 0 /\ c >= z =>
          c + o \in Nat /\ (c + o) % 2 = 0 /\ c + o >= z
    OBVIOUS
  <2>2. at \in Nat /\ at % 2 = 0 /\ at >= fw.size
    BY <1>1, <1>4, <1>5, <1>6, <2>1, Zenon
  <2>3. \A c, o, l, k, f \in Nat : o + l <= k => (c + o) + l <= c + k + f
    OBVIOUS
  <2>4. at + m <= size(finished)
    BY <1>1, <1>2, <1>5, <1>6, <1>7, <2>3, Zenon
  <2> QED BY <2>2, <2>4
<1>9. ASSUME NEW i \in 1 .. m
      PROVE  at + i - 1 \in DOMAIN finished /\ finished[at + i - 1] = resolve(content[i])
  <2>1. /\ off + i \in 1 .. n /\ at + i - 1 = code_start + (off + i) - 1
        /\ at + i - 1 \in 0 .. code_start + n + footer_size - 1
    BY <1>1, <1>2, <1>5, <1>6, <1>7
  <2> QED BY <1>1, <1>7, <2>1
<1> QED BY <1>2, <1>8, <1>9 DEF at, m

\* A branch of the queue.
LEMMA BranchSpec ==
  ASSUME Control, QueueInv, NEW k \in DOMAIN op_queue, op_queue[k].op = "branch"
  PROVE  \E s \in Symbols, a \in fw.starts :
           /\ op_queue[k] = BranchOf(s, a) /\ a + 6 <= fw.size
           /\ end_patch_addr(a) \in fw.starts /\ end_patch_addr(a) \in {a + 4, a + 6}
<1>1. Detour(op_queue[k])
  BY DEF QueueInv, Complete, Branch
<1> QED BY <1>1 DEF Detour, BranchOf

\* The linker resolves s__return to the address that the detour of s came with.
LEMMA ResolveSpec ==
  ASSUME Control, QueueInv, NEW b \in DOMAIN op_queue, NEW s \in Symbols, NEW a \in fw.starts,
         op_queue[b] = BranchOf(s, a), end_patch_addr(a) \in {a + 4, a + 6}
  PROVE  resolve(<<"goto", s, -1>>) = <<"goto", s, MICROCODE_OFFSET + return_addr(s, a)>>
<1> DEFINE P(k) == op_queue[k].op = "define" /\ op_queue[k].name = <<s, "__return">>
           d == CHOOSE k \in DOMAIN op_queue : P(k)
<1>1. /\ op_queue[b].op = "branch" /\ op_queue[b].symbol[1] = s
      /\ DefineOf(op_queue[b]).op = "define" /\ DefineOf(op_queue[b]).name = <<s, "__return">>
      /\ DefineOf(op_queue[b]).address = MICROCODE_OFFSET + return_addr(s, a)
  BY OpSpec
<1>2. PICK j \in DOMAIN op_queue : op_queue[j] = DefineOf(op_queue[b])
  BY <1>1 DEF QueueInv, Complete, Branch
<1>3. P(j)
  BY <1>1, <1>2
<1>4. d \in DOMAIN op_queue /\ P(d)
  BY <1>3, Zenon
<1> HIDE DEF d
<1>5. PICK c \in DOMAIN op_queue : Branch(c) /\ Belongs(op_queue[d], op_queue[c])
  BY <1>4 DEF QueueInv, NoStrayOps
<1>6. PICK t \in Symbols, e \in fw.starts :
        op_queue[c] = BranchOf(t, e) /\ end_patch_addr(e) \in {e + 4, e + 6}
  BY <1>5, BranchSpec DEF Branch
<1>7. /\ op_queue[c].op = "branch" /\ op_queue[c].symbol[1] = t
      /\ DefineOf(op_queue[c]).name = <<t, "__return">>
      /\ PassthruOf(op_queue[c]).op = "asm" /\ ProxyOf(op_queue[c]).op = "asm"
  BY <1>6, OpSpec
<1>8. op_queue[d] = DefineOf(op_queue[c])
  BY <1>4, <1>5, <1>7 DEF Belongs
<1>9. t = s
  BY <1>4, <1>7, <1>8
<1>10. b = c
  BY <1>1, <1>5, <1>7, <1>9 DEF QueueInv, Apart, Branch
<1>11. op_queue[d].address = MICROCODE_OFFSET + return_addr(s, a)
  BY <1>1, <1>8, <1>10
<1>12. resolve(<<"goto", s, -1>>) = <<"goto", s, op_queue[d].address>>
  BY DEF resolve, d
<1> QED BY <1>11, <1>12

LEMMA ResolveOthers ==
  /\ \A s, i : resolve(<<"code", s, i>>) = <<"code", s, i>>
  /\ \A a : resolve(FwCell(a)) = FwCell(a)
BY DEF resolve, FwCell

LEMMA ByteSpec ==
  ASSUME NEW v, NEW c, c = <<"byte", "", v>>
  PROVE  c[1] = "byte" /\ c[3] = v
<1>1. c[1] = "byte"
  OBVIOUS
<1>2. c[3] = v
  OBVIOUS
<1> QED BY <1>1, <1>2

LEMMA SymbolOf == \A a, y : PatchBranchOffset(a, y).symbol = y
BY DEF PatchBranchOffset

\* The code of a branch's symbol is in the patch where the symbol is.
LEMMA CodeLinked ==
  ASSUME PatcherInv, pc = "append", NEW k \in DOMAIN op_queue,
         NEW s \in Symbols, NEW a \in fw.starts, op_queue[k] = BranchOf(s, a),
         end_patch_addr(a) \in {a + 4, a + 6}
  PROVE  \E content : /\ IsSequence(content) /\ Holds(patch_bin, op_queue[k].symbol, content)
                      /\ Len(content) >= Len(Code(s))
                      /\ \A i \in 1 .. Len(Code(s)) : content[i] = Code(s)[i]
<1>0. Control /\ QueueInv
  BY DEF PatcherInv
<1>1. Code(s) \in Seq(Cell) /\ Len(Code(s)) \in Nat
  <2>1. 0 \in Nat /\ 0 <= 0
    OBVIOUS
  <2> QED BY <1>0, <2>1, BlockSpec, CodeSpec
<1>2. op_queue[k].op = "branch" /\ op_queue[k].symbol[1] = s
  BY <1>0, OpSpec
<1>3. CASE s \in Wrapped
  <2>0. BranchOf(s, a) = PatchBranchOffset(a, <<s, "">>)
    BY <1>3 DEF BranchOf
  <2>1. op_queue[k].symbol = <<s, "">>
    BY <2>0, SymbolOf, Zenon
  <2>2. <<s, "">> \in DOMAIN patch_bin.symtab
    <3>1. Unlinked = {}
      BY DEF PatcherInv, LinkInv
    <3> QED BY <1>2, <1>3, <2>1, <3>1 DEF Unlinked
  <2>3. Holds(patch_bin, <<s, "">>, Code(s))
    BY <1>3, <2>2 DEF PatcherInv, LinkInv
  <2>4. IsSequence(Code(s)) /\ Len(Code(s)) >= Len(Code(s))
    BY <1>1, SeqIsSequence
  <2> QED BY <2>1, <2>3, <2>4, Zenon
<1>4. CASE s \notin Wrapped
  <2>1. s \in Injected
    BY <1>4 DEF Symbols
  <2>2. PICK j \in DOMAIN op_queue : op_queue[j] = ProxyOf(op_queue[k])
    BY <1>0, <1>2, <2>1 DEF QueueInv, Complete, Branch
  <2> DEFINE content == proxy_asm(s)
  <2>3. op_queue[j].op = "asm" /\ op_queue[j].symbol = <<s, "__proxy">> /\ op_queue[j].content = content
    BY <1>2, <2>2 DEF ProxyOf, PatchAppendAsm
  <2>4. op_queue[k].symbol = <<s, "__proxy">>
    BY <1>4 DEF BranchOf, PatchBranchOffset
  <2>5. Holds(patch_bin, op_queue[j].symbol, op_queue[j].content)
    <3>1. Composed(j)
      BY <2>3 DEF Composed
    <3> QED BY <3>1 DEF PatcherInv, LinkInv
  <2>6. /\ content \in Seq(Cell) /\ Len(content) >= Len(Code(s))
        /\ \A i \in 1 .. Len(Code(s)) : content[i] = Code(s)[i]
    BY <1>0, ProxySpec
  <2> HIDE DEF content
  <2>7. IsSequence(content)
    BY <2>6, SeqIsSequence
  <2>8. Holds(patch_bin, op_queue[k].symbol, content)
    BY <2>3, <2>4, <2>5
  <2> QED BY <2>6, <2>7, <2>8, Zenon
<1> QED BY <1>3, <1>4

\* The halves of an instruction are put together from their bytes.
LEMMA BytesSpec ==
  \A offset \in Int :
    /\ encode(offset) = [hi |-> encode(offset).hi, lo |-> encode(offset).lo]
    /\ encode(offset).hi \in Int /\ encode(offset).lo \in Int
<1> SUFFICES ASSUME NEW offset \in Int
             PROVE  /\ encode(offset) = [hi |-> encode(offset).hi, lo |-> encode(offset).lo]
                    /\ encode(offset).hi \in Int /\ encode(offset).lo \in Int
  OBVIOUS
<1> DEFINE s == IF offset > 0 THEN 0 ELSE 1
           j1 == IF s # bit(offset, 8388608) THEN 0 ELSE 1
           j2 == IF s # bit(offset, 4194304) THEN 0 ELSE 1
           h == 61440 + s * 1024 + ((offset \div 2048) % 1024)
           l == 36864 + j1 * 8192 + j2 * 2048 + (offset % 2048)
<1>1. encode(offset) = [hi |-> h, lo |-> l]
  BY SMT DEF encode
<1>2. s \in Int /\ j1 \in Int /\ j2 \in Int
  BY SMT
<1> HIDE DEF s, j1, j2
<1>3. h \in Int /\ l \in Int
  BY SMT, <1>2
<1> HIDE DEF h, l
<1> QED BY <1>1, <1>3

LEMMA BranchLands ==
  ASSUME PatcherInv, pc = "append", Placed, size(finished) <= MAX_IMAGE_SIZE,
         NEW k \in DOMAIN op_queue, op_queue[k].op = "branch"
  PROVE  /\ IsBranch(finished, op_queue[k].address)
         /\ CellsAt(finished, Target(finished, op_queue[k].address), Code(op_queue[k].symbol[1]))
<1> DEFINE op == op_queue[k]
<1>0. Control /\ QueueInv
  BY DEF PatcherInv
<1>1. PICK s \in Symbols, a \in fw.starts :
        /\ op = BranchOf(s, a) /\ a + 6 <= fw.size
        /\ end_patch_addr(a) \in fw.starts /\ end_patch_addr(a) \in {a + 4, a + 6}
  BY <1>0, BranchSpec
<1>2. op.address = a /\ op.symbol[1] = s
  BY <1>0, <1>1, OpSpec
<1>3. a \in Nat /\ a % 2 = 0 /\ fw.size \in Nat
  BY <1>0, FwFacts
<1>4. PICK content : /\ IsSequence(content) /\ Holds(patch_bin, op.symbol, content)
                     /\ Len(content) >= Len(Code(s))
                     /\ \A i \in 1 .. Len(Code(s)) : content[i] = Code(s)[i]
  BY <1>1, CodeLinked
<1> DEFINE at == patch_bin.symtab[op.symbol] - MICROCODE_OFFSET
           c == Code(s)
           instr == encode(branch_offset(a, at))
<1>5. /\ at \in Nat /\ at % 2 = 0 /\ at >= fw.size
      /\ at + Len(content) <= size(finished) /\ Len(content) \in Nat
      /\ \A i \in 1 .. Len(content) :
           at + i - 1 \in DOMAIN finished /\ finished[at + i - 1] = resolve(content[i])
  BY <1>4, BlockLands
<1>6. Len(c) \in Nat /\ DOMAIN c = 1 .. Len(c) /\ \A i \in 1 .. Len(c) : c[i] = <<"code", s, i>>
  <2>1. c \in Seq(Cell) /\ Len(c) \in Nat
    BY <1>0, CodeSpec
  <2>2. DOMAIN c = 1 .. Len(c)
    BY <2>1, SeqIsSequence
  <2>3. \A i \in DOMAIN c : c[i] = <<"code", s, i>>
    BY DEF Code
  <2> QED BY <2>1, <2>2, <2>3
<1>7. branch_at(op) = instr
  BY <1>2 DEF branch_at
<1>8. \A i \in 1 .. 4 : finished[a + i - 1] = <<"byte", "", Bytes(instr)[i]>>
  <2>1. Pasted(k)
    BY DEF Pasted, Branch
  <2>2. \A i \in 1 .. 4 : target_bin[a + i - 1] = <<"byte", "", Bytes(instr)[i]>>
    BY <1>2, <1>7, <2>1 DEF PatcherInv, ImageInv
  <2>3. \A i \in 1 .. 4 : a + i - 1 \in 0 .. fw.size - 1
    BY <1>1, <1>3
  <2>4. \A x \in 0 .. fw.size - 1 : finished[x] = target_bin[x]
    BY FinishedSpec
  <2> QED BY <2>2, <2>3, <2>4
<1>9. size(finished) \in Nat /\ size(finished) <= 1048576
  <2>1. size(finished) \in Nat
    BY FinishedSpec
  <2>2. FLASH \in Nat /\ FLASH <= 1024 * 1024
    BY SMT, PatcherAssumption
  <2>3. MAX_IMAGE_SIZE = FLASH - MICROCODE_OFFSET /\ MICROCODE_OFFSET \in Nat
    BY <1>0, FwFacts DEF MAX_IMAGE_SIZE
  <2> QED BY SMT, <2>1, <2>2, <2>3
<1> HIDE DEF op, at, c, instr
<1>10. IsBranch(finished, a)
  <2>1. ASSUME NEW i \in a .. a + 3 PROVE finished[i][1] = "byte"
    <3>1. i - a + 1 \in 1 .. 4 /\ a + (i - a + 1) - 1 = i
      BY <1>3
    <3>2. finished[i] = <<"byte", "", Bytes(instr)[i - a + 1]>>
      BY <1>8, <3>1
    <3> DEFINE v == Bytes(instr)[i - a + 1]
    <3> HIDE DEF v
    <3>3. finished[i] = <<"byte", "", v>>
      BY <3>2 DEF v
    <3> QED BY <3>3, ByteSpec
  <2> QED BY <2>1 DEF IsBranch
<1>11. InstrAt(finished, a) = instr
  <2>1. branch_offset(a, at) \in Int
    BY <1>3, <1>5 DEF branch_offset
  <2>2. instr = [hi |-> instr.hi, lo |-> instr.lo] /\ instr.hi \in Int /\ instr.lo \in Int
    BY <2>1, BytesSpec DEF instr
  <2> DEFINE h == instr.hi
             l == instr.lo
  <2>3. /\ finished[a][3] = h % 256 /\ finished[a + 1][3] = h \div 256
        /\ finished[a + 2][3] = l % 256 /\ finished[a + 3][3] = l \div 256
    <3>1. /\ Bytes(instr)[1] = h % 256 /\ Bytes(instr)[2] = h \div 256
          /\ Bytes(instr)[3] = l % 256 /\ Bytes(instr)[4] = l \div 256
      BY DEF Bytes
    <3>2. /\ a + 1 - 1 = a /\ a + 2 - 1 = a + 1 /\ a + 3 - 1 = a + 2 /\ a + 4 - 1 = a + 3
          /\ 1 \in 1 .. 4 /\ 2 \in 1 .. 4 /\ 3 \in 1 .. 4 /\ 4 \in 1 .. 4
      BY <1>3
    <3>3. ASSUME NEW i \in 1 .. 4 PROVE finished[a + i - 1][3] = Bytes(instr)[i]
      <4> DEFINE v == Bytes(instr)[i]
      <4> HIDE DEF v
      <4>1. finished[a + i - 1] = <<"byte", "", v>>
        BY <1>8 DEF v
      <4>2. finished[a + i - 1][3] = v
        BY <4>1, ByteSpec
      <4> QED BY <4>2 DEF v
    <3>4. /\ finished[a + 1 - 1][3] = Bytes(instr)[1] /\ finished[a + 2 - 1][3] = Bytes(instr)[2]
          /\ finished[a + 3 - 1][3] = Bytes(instr)[3] /\ finished[a + 4 - 1][3] = Bytes(instr)[4]
      BY <3>2, <3>3
    <3> QED BY <3>1, <3>2, <3>4
  <2>4. \A x \in Int : (x % 256) + 256 * (x \div 256) = x
    OBVIOUS
  <2>5. InstrAt(finished, a) = [hi |-> h, lo |-> l]
    BY <2>2, <2>3, <2>4 DEF InstrAt
  <2> QED BY <2>2, <2>5
<1>12. Target(finished, a) = at
  <2>1. a + 4 < at /\ at < a + 4194304
    <3>1. at <= 1048576
      BY SMT, <1>5, <1>9
    <3> QED BY SMT, <1>1, <1>3, <1>5, <3>1
  <2>2. a \in Nat /\ a % 2 = 0 /\ at \in Nat /\ at % 2 = 0
    BY <1>3, <1>5
  <2>3. a + 4 + 2 * decode(encode(branch_offset(a, at))) = at
    BY SMT, <2>1, <2>2, BranchReaches
  <2> QED BY <1>11, <2>3 DEF Target, instr
<1>13. CellsAt(finished, at, c)
  <2>1. ASSUME NEW i \in 1 .. Len(c)
        PROVE  at + i - 1 \in DOMAIN finished /\ finished[at + i - 1] = c[i]
    <3>1. i \in 1 .. Len(content)
      BY <1>4, <1>5, <1>6 DEF c
    <3>2. content[i] = c[i] /\ c[i] = <<"code", s, i>>
      BY <1>4, <1>6 DEF c
    <3>3. resolve(content[i]) = c[i]
      BY <3>2, ResolveOthers
    <3> QED BY <1>5, <3>1, <3>3
  <2> QED BY <1>6, <2>1 DEF CellsAt
<1> QED BY <1>2, <1>10, <1>12, <1>13 DEF op, c

LEMMA PassthruLands ==
  ASSUME PatcherInv, pc = "append", Placed, size(finished) <= MAX_IMAGE_SIZE,
         NEW k \in DOMAIN op_queue, op_queue[k].op = "asm", op_queue[k].symbol[2] = "__passthru"
  PROVE  LET at == patch_bin.symtab[op_queue[k].symbol] - MICROCODE_OFFSET
             from == finished[at][3]
         IN  \E to \in {a \in fw.starts : a >= from + 4} :
               /\ IsBranch(finished, from)
               /\ CellsAt(finished, at, FwCells(from, to)
                    \o [i \in 1 .. 4 |-> <<"goto", op_queue[k].symbol[1], MICROCODE_OFFSET + to>>])
<1> DEFINE op == op_queue[k]
<1>0. Control /\ QueueInv
  BY DEF PatcherInv
<1>1. PICK b \in DOMAIN op_queue, s \in Symbols, a \in fw.starts :
           /\ op_queue[b] = BranchOf(s, a) /\ Branch(b)
           /\ end_patch_addr(a) \in fw.starts /\ end_patch_addr(a) \in {a + 4, a + 6}
           /\ \/ s \in Wrapped /\ op_queue[k] =
                   PatchAppendAsm(<<s, "__passthru">>, FwCells(a, end_patch_addr(a)) \o B_return(s))
              \/ s \in Injected /\ op_queue[k] =
                   PatchAppendAsm(<<s, "__proxy">>, proxy_asm(s))
  BY <1>0, AsmSpec
<1> DEFINE e == end_patch_addr(a)
           F == FwCells(a, e)
           R == B_return(s)
           content == F \o R
           goto == <<"goto", s, MICROCODE_OFFSET + e>>
           G == [i \in 1 .. 4 |-> goto]
           at == patch_bin.symtab[op.symbol] - MICROCODE_OFFSET
<1>2. op.symbol = <<s, "__passthru">> /\ op.content = content /\ op.symbol[1] = s /\ s \in Wrapped
  <2>1. op_queue[k] # PatchAppendAsm(<<s, "__proxy">>, proxy_asm(s))
    <3>1. \A y, c : PatchAppendAsm(y, c).symbol = y
      BY DEF PatchAppendAsm
    <3>2. <<s, "__proxy">>[2] # "__passthru"
      OBVIOUS
    <3> QED BY <3>1, <3>2
  <2>2. op_queue[k] = PatchAppendAsm(<<s, "__passthru">>, content) /\ s \in Wrapped
    BY <1>1, <2>1
  <2> HIDE DEF content
  <2>3. op.symbol = <<s, "__passthru">>
    BY <2>2 DEF PatchAppendAsm
  <2>4. op.content = content
    BY <2>2 DEF PatchAppendAsm
  <2>5. op.symbol[1] = s
    BY <2>3
  <2> QED BY <2>2, <2>3, <2>4, <2>5
<1>3. a \in Nat /\ e \in Nat /\ a <= e /\ a + 4 <= e
  BY <1>0, <1>1, FwFacts
<1>4. /\ F \in Seq(Cell) /\ Len(F) = e - a /\ R \in Seq(Cell) /\ Len(R) = 4
      /\ \A i \in 1 .. e - a : F[i] = FwCell(a + i - 1)
      /\ \A i \in 1 .. 4 : R[i] = <<"goto", s, -1>>
  <2>1. F \in Seq(Cell) /\ Len(F) = e - a /\ R \in Seq(Cell) /\ Len(R) = 4
    BY <1>0, <1>3, BlockSpec
  <2>2. \A i \in 1 .. e - a : F[i] = FwCell(a + i - 1)
    BY DEF FwCells
  <2>3. \A i \in 1 .. 4 : R[i] = <<"goto", s, -1>>
    BY DEF B_return
  <2> QED BY <2>1, <2>2, <2>3
<1>5. Holds(patch_bin, op.symbol, content)
  <2>1. Composed(k)
    BY DEF Composed
  <2> QED BY <1>2, <2>1 DEF PatcherInv, LinkInv
<1>6. resolve(<<"goto", s, -1>>) = goto
  <2>1. return_addr(s, a) = e
    BY <1>2 DEF return_addr
  <2> QED BY <1>0, <1>1, <2>1, ResolveSpec
<1>7. G \in Seq({goto}) /\ Len(G) = 4 /\ \A i \in 1 .. 4 : G[i] = goto
  <2> HIDE DEF goto
  <2>1. G \in [1 .. 4 -> {goto}]
    OBVIOUS
  <2> QED BY <2>1, TabulateSpec
<1>8. op_queue[b].address = a /\ op_queue[b].op = "branch"
  BY <1>0, <1>1, OpSpec
<1>9. IsBranch(finished, a)
  BY <1>8, BranchLands
<1> HIDE DEF op, e, F, R, goto, G
<1>10. /\ Len(content) = (e - a) + 4 /\ IsSequence(content)
       /\ \A i \in 1 .. e - a : content[i] = F[i]
       /\ \A i \in 1 .. 4 : content[(e - a) + i] = R[i]
  <2>1. IsSequence(F) /\ IsSequence(R)
    BY <1>4, SeqIsSequence
  <2>2. /\ IsSequence(F \o R) /\ Len(F \o R) = Len(F) + Len(R)
        /\ \A i \in 1 .. Len(F) : (F \o R)[i] = F[i]
        /\ \A i \in 1 .. Len(R) : (F \o R)[Len(F) + i] = R[i]
    BY <2>1, SequenceConcat
  <2> QED BY <1>4, <2>2
<1>11. /\ Len(F \o G) = (e - a) + 4 /\ IsSequence(F \o G)
       /\ \A i \in 1 .. e - a : (F \o G)[i] = F[i]
       /\ \A i \in 1 .. 4 : (F \o G)[(e - a) + i] = G[i]
  <2>1. IsSequence(F) /\ IsSequence(G)
    BY <1>4, <1>7, SeqIsSequence
  <2>2. /\ IsSequence(F \o G) /\ Len(F \o G) = Len(F) + Len(G)
        /\ \A i \in 1 .. Len(F) : (F \o G)[i] = F[i]
        /\ \A i \in 1 .. Len(G) : (F \o G)[Len(F) + i] = G[i]
    BY <2>1, SequenceConcat
  <2> QED BY <1>4, <1>7, <2>2
<1> DEFINE whole == F \o G
<1> HIDE DEF content
<1>12. /\ at \in Nat
       /\ \A i \in 1 .. Len(content) :
            at + i - 1 \in DOMAIN finished /\ finished[at + i - 1] = resolve(content[i])
  <2>1. IsSequence(content)
    BY <1>10
  <2> QED BY <1>5, <2>1, BlockLands
<1> HIDE DEF at, whole
<1>13. \A i \in 1 .. (e - a) + 4 : resolve(content[i]) = whole[i]
  <2>1. SUFFICES ASSUME NEW i \in 1 .. (e - a) + 4 PROVE resolve(content[i]) = whole[i]
    OBVIOUS
  <2>2. CASE i \in 1 .. e - a
    <3>1. content[i] = FwCell(a + i - 1) /\ whole[i] = FwCell(a + i - 1)
      BY <1>4, <1>10, <1>11, <2>2 DEF whole
    <3> QED BY <3>1, ResolveOthers
  <2>3. CASE i \notin 1 .. e - a
    <3>1. i - (e - a) \in 1 .. 4 /\ (e - a) + (i - (e - a)) = i
      BY <1>3, <2>3
    <3>2. content[i] = R[i - (e - a)] /\ whole[i] = G[i - (e - a)]
      BY <1>10, <1>11, <3>1 DEF whole
    <3>3. content[i] = <<"goto", s, -1>> /\ whole[i] = goto
      BY <1>4, <1>7, <3>1, <3>2
    <3> QED BY <1>6, <3>3
  <2> QED BY <2>2, <2>3
<1>14. CellsAt(finished, at, whole)
  <2>1. DOMAIN whole = 1 .. (e - a) + 4
    <3>1. whole \in Seq({whole[i] : i \in DOMAIN whole}) /\ Len(whole) = (e - a) + 4
      BY <1>11 DEF IsSequence, whole
    <3> QED BY <3>1, SeqIsSequence
  <2> QED BY <1>10, <1>12, <1>13, <2>1 DEF CellsAt
<1>15. finished[at][3] = a
  <2>1. 1 \in 1 .. Len(content) /\ 1 \in 1 .. e - a /\ at + 1 - 1 = at /\ a + 1 - 1 = a
    BY <1>3, <1>10, <1>12
  <2>2. finished[at] = resolve(content[1]) /\ content[1] = FwCell(a)
    <3>1. finished[at + 1 - 1] = resolve(content[1]) /\ content[1] = FwCell(a + 1 - 1)
      BY <1>4, <1>10, <1>12, <2>1
    <3> QED BY <2>1, <3>1
  <2>3. finished[at] = FwCell(a)
    BY <2>2, ResolveOthers
  <2>4. FwCell(a)[3] = a
    BY DEF FwCell
  <2> QED BY <2>3, <2>4
<1>16. e \in {x \in fw.starts : x >= a + 4}
  BY <1>1, <1>3 DEF e
<1>17. \E to \in {x \in fw.starts : x >= a + 4} :
         /\ IsBranch(finished, a)
         /\ CellsAt(finished, at, FwCells(a, to)
              \o [i \in 1 .. 4 |-> <<"goto", s, MICROCODE_OFFSET + to>>])
  <2>1. CellsAt(finished, at, FwCells(a, e) \o [i \in 1 .. 4 |-> <<"goto", s, MICROCODE_OFFSET + e>>])
    BY <1>14 DEF whole, F, G, goto
  <2> QED BY <1>9, <1>16, <2>1, Zenon
<1>18. op.symbol[1] = s
  BY <1>2
<1> QED BY <1>15, <1>17, <1>18, Zenon DEF op, at

LEMMA RestKept ==
  ASSUME PatcherInv, pc = "append", size(finished) <= MAX_IMAGE_SIZE
  PROVE  /\ size(finished) + BOOTLOADER_SIZE <= FLASH
         /\ \A a \in 0 .. fw.size - 1 :
              finished[a] = FwCell(a) \/ \E k \in DOMAIN op_queue :
                op_queue[k].op = "branch" /\ a \in op_queue[k].address .. op_queue[k].address + 3
         /\ CellsAt(finished, size(finished) - footer_size, trailing_bin_content)
<1>0. Control /\ QueueInv
  BY DEF PatcherInv
<1>1. size(finished) + BOOTLOADER_SIZE <= FLASH
  <2>1. size(finished) \in Nat /\ BOOTLOADER_SIZE \in Nat
    BY <1>0, FinishedSpec, FwFacts
  <2>2. FLASH \in Nat
    BY SMT, PatcherAssumption
  <2> QED BY <2>1, <2>2 DEF MAX_IMAGE_SIZE
<1>2. ASSUME NEW a \in 0 .. fw.size - 1, finished[a] # FwCell(a)
      PROVE  \E k \in DOMAIN op_queue :
               op_queue[k].op = "branch" /\ a \in op_queue[k].address .. op_queue[k].address + 3
  <2>1. target_bin[a] # FwCell(a)
    BY <1>2, FinishedSpec
  <2>2. PICK k \in DOMAIN op_queue : Pasted(k) /\ Covers(k, a)
    BY <2>1 DEF PatcherInv, ImageInv
  <2>3. op_queue[k].op = "branch"
    BY <2>2 DEF Pasted, Branch
  <2>4. PICK s \in Symbols, c \in fw.starts :
          op_queue[k] = BranchOf(s, c) /\ end_patch_addr(c) \in {c + 4, c + 6}
    BY <1>0, <2>3, BranchSpec
  <2>5. op_queue[k].address = c /\ c \in Nat /\ a \in Int
    BY <1>0, <2>4, OpSpec, FwFacts
  <2>6. c <= a /\ a < c + 4
    BY <2>2, <2>5 DEF Covers
  <2>7. a \in op_queue[k].address .. op_queue[k].address + 3
    BY <2>5, <2>6
  <2> QED BY <2>3, <2>7
<1>3. CellsAt(finished, size(finished) - footer_size, trailing_bin_content)
  <2> DEFINE p == code_start + Len(patch_bin.cells)
             f == footer_size
             T == trailing_bin_content
  <2>1. /\ p \in Nat /\ f \in Nat /\ size(finished) = p + f
        /\ DOMAIN finished = 0 .. p + f - 1 /\ DOMAIN T = 1 .. f
        /\ \A i \in 1 .. f : finished[p + i - 1] = T[i]
    BY FinishedSpec
  <2> HIDE DEF p, f, T
  <2>2. size(finished) - f = p
    BY <2>1
  <2>3. \A i \in DOMAIN T : p + i - 1 \in DOMAIN finished /\ finished[p + i - 1] = T[i]
    BY <2>1
  <2>4. CellsAt(finished, p, T)
    BY <2>3 DEF CellsAt
  <2> QED BY <2>2, <2>4 DEF f, T
<1> QED BY <1>1, <1>2, <1>3

\* The last step of finalize.
LEMMA AppendKeeps ==
  ASSUME PatcherInv, AppendPatch
  PROVE  PatcherInv'
<1>1. /\ pc = "append" /\ target_bin' = finished
      /\ UNCHANGED <<fw, target, op_queue, patch_bin, next_op>>
      /\ \/ size(finished) <= MAX_IMAGE_SIZE /\ pc' = "written" /\ out' = {finished}
         \/ pc' = "failed" /\ out' = out
  BY DEF AppendPatch
<1>2. out = {} /\ Control'
  BY <1>1 DEF PatcherInv, Control
<1>3. QueueInv'
  BY <1>1, SameQueue DEF PatcherInv
<1>4. PatchType'
  BY <1>1 DEF PatcherInv, PatchType
<1>5. LinkInv'
  <2>1. \A k \in DOMAIN op_queue : Composed(k)' => Composed(k)
    BY <1>1 DEF Composed
  <2>2. \A z, c : Holds(patch_bin, z, c)' <=> Holds(patch_bin, z, c)
    BY <1>1, SameQueue
  <2>3. Unlinked' = Unlinked
    BY <1>1 DEF Unlinked
  <2> QED BY <1>1, <2>1, <2>2, <2>3 DEF PatcherInv, LinkInv
<1>6. ImageInv'
  BY <1>1 DEF ImageInv
<1>7. CASE out' = {}
  BY <1>2, <1>3, <1>4, <1>5, <1>6, <1>7, NotWritten DEF PatcherInv
<1>8. CASE size(finished) <= MAX_IMAGE_SIZE /\ out' = {finished}
  <2>1. /\ Placed' <=> Placed
        /\ MICROCODE_OFFSET' = MICROCODE_OFFSET /\ BOOTLOADER_SIZE' = BOOTLOADER_SIZE
        /\ footer_size' = footer_size /\ trailing_bin_content' = trailing_bin_content
    <3>1. MICROCODE_OFFSET' = MICROCODE_OFFSET /\ BOOTLOADER_SIZE' = BOOTLOADER_SIZE
      BY <1>1 DEF MICROCODE_OFFSET, BOOTLOADER_SIZE
    <3>2. footer_size' = footer_size
      BY <1>1 DEF footer_size
    <3>3. trailing_bin_content' = trailing_bin_content
      BY <1>1, <3>2 DEF trailing_bin_content
    <3>4. Placed' <=> Placed
      BY <1>1, <3>1 DEF Placed
    <3> QED BY <3>1, <3>2, <3>3, <3>4
  <2>2. BranchesLand'
    BY <1>1, <1>8, <2>1, BranchLands DEF BranchesLand
  <2>3. DetourComplete'
    BY <1>1, <1>8, <2>1, PassthruLands DEF DetourComplete
  <2>4. RestOfImageKept'
    BY <1>1, <1>8, <2>1, RestKept DEF RestOfImageKept
  <2> QED BY <1>2, <1>3, <1>4, <1>5, <1>6, <2>2, <2>3, <2>4 DEF PatcherInv
<1> QED BY <1>1, <1>2, <1>7, <1>8

-----------------------------------------------------------------------------
(* The theorems.                                                           *)

LEMMA PatcherInitially == PatcherInit => PatcherInv
<1> SUFFICES ASSUME PatcherInit PROVE PatcherInv
  OBVIOUS
<1>1. /\ fw \in Firmwares /\ target \in {"hardware", "emulator"} /\ pc = "queue"
      /\ target_bin = [a \in 0 .. fw.size - 1 |-> FwCell(a)]
      /\ op_queue = << >> /\ patch_bin = [cells |-> << >>, symtab |-> << >>]
      /\ next_op = 1 /\ out = {}
  BY DEF PatcherInit
<1>2. Control
  BY <1>1 DEF Control
<1>3. DOMAIN op_queue = {} /\ op_queue \in Seq(Op)
  BY <1>1
<1>4. QueueInv
  BY <1>3 DEF QueueInv, NoStrayOps, Complete, Apart
<1>5. patch_bin.cells = << >> /\ DOMAIN patch_bin.symtab = {}
  BY <1>1
<1>6. PatchType
  <2>1. << >> \in Seq(Cell) /\ Len(<< >>) = 0
    OBVIOUS
  <2>2. IsSequence(<< >>)
    BY <2>1, SeqIsSequence
  <2>3. Len(<< >>) % 2 = 0
    BY <2>1
  <2> QED BY <1>5, <2>2, <2>3 DEF PatchType
<1>7. LinkInv
  BY <1>1, <1>3, <1>5 DEF LinkInv
<1>8. ImageInv
  BY <1>1, <1>3 DEF ImageInv
<1>9. BranchesLand /\ DetourComplete /\ RestOfImageKept
  BY <1>1 DEF BranchesLand, DetourComplete, RestOfImageKept
<1> QED BY <1>2, <1>4, <1>6, <1>7, <1>8, <1>9 DEF PatcherInv

LEMMA PatcherStutters ==
  ASSUME PatcherInv, UNCHANGED patcher_vars
  PROVE  PatcherInv'
<1>1. UNCHANGED <<fw, target, pc, target_bin, op_queue, patch_bin, next_op, out>>
  BY DEF patcher_vars
<1>2. Control'
  BY <1>1 DEF PatcherInv, Control
<1>3. QueueInv'
  BY <1>1, SameQueue DEF PatcherInv
<1>4. PatchType'
  BY <1>1 DEF PatcherInv, PatchType
<1>5. LinkInv'
  <2>1. \A k \in DOMAIN op_queue : Composed(k)' => Composed(k)
    BY <1>1 DEF Composed
  <2>2. \A z, c : Holds(patch_bin, z, c)' <=> Holds(patch_bin, z, c)
    BY <1>1, SameQueue
  <2>3. Unlinked' = Unlinked
    BY <1>1 DEF Unlinked
  <2> QED BY <1>1, <2>1, <2>2, <2>3 DEF PatcherInv, LinkInv
<1>6. ImageInv'
  <2>1. \A k \in DOMAIN op_queue : Pasted(k)' <=> Pasted(k)
    BY <1>1 DEF Pasted, Branch
  <2>2. \A o : branch_at(o)' = branch_at(o)
    BY <1>1, SameQueue DEF branch_at
  <2>3. \A k, a : Covers(k, a)' <=> Covers(k, a)
    BY <1>1, SameQueue
  <2> QED BY <1>1, <2>1, <2>2, <2>3 DEF PatcherInv, ImageInv, FwCell
<1>7. /\ Placed' <=> Placed
      /\ MICROCODE_OFFSET' = MICROCODE_OFFSET /\ BOOTLOADER_SIZE' = BOOTLOADER_SIZE
      /\ footer_size' = footer_size /\ trailing_bin_content' = trailing_bin_content
  <2>1. MICROCODE_OFFSET' = MICROCODE_OFFSET /\ BOOTLOADER_SIZE' = BOOTLOADER_SIZE
    BY <1>1 DEF MICROCODE_OFFSET, BOOTLOADER_SIZE
  <2>2. footer_size' = footer_size
    BY <1>1 DEF footer_size
  <2>3. trailing_bin_content' = trailing_bin_content
    BY <1>1, <2>2 DEF trailing_bin_content
  <2>4. Placed' <=> Placed
    BY <1>1, <2>1 DEF Placed
  <2> QED BY <2>1, <2>2, <2>3, <2>4
<1>8. BranchesLand'
  BY <1>1, <1>7 DEF PatcherInv, BranchesLand
<1>9. DetourComplete'
  BY <1>1, <1>7 DEF PatcherInv, DetourComplete
<1>10. RestOfImageKept'
  BY <1>1, <1>7 DEF PatcherInv, RestOfImageKept
<1> QED BY <1>2, <1>3, <1>4, <1>5, <1>6, <1>8, <1>9, <1>10 DEF PatcherInv

LEMMA PatcherSteps == PatcherInv /\ [PatcherNext]_patcher_vars => PatcherInv'
<1> SUFFICES ASSUME PatcherInv, [PatcherNext]_patcher_vars PROVE PatcherInv'
  OBVIOUS
<1>1. CASE \/ \E s \in Wrapped, addr \in fw.starts, passthru \in BOOLEAN : wrap(s, addr, passthru)
           \/ \E s \in Injected, addr \in fw.starts : inject(s, addr)
  BY <1>1, QueueKeeps
<1>2. CASE finalize
  BY <1>2, FinalizeKeeps
<1>3. CASE ComposeAsm
  BY <1>3, ComposeKeeps
<1>4. CASE \E s \in Wrapped : CompileC(s)
  BY <1>4, CompileKeeps
<1>5. CASE Link
  BY <1>5, LinkKeeps
<1>6. CASE Relocate
  BY <1>6, RelocateKeeps
<1>7. CASE RelocateEnd
  BY <1>7, RelocateEndKeeps
<1>8. CASE AppendPatch
  BY <1>8, AppendKeeps
<1>9. CASE UNCHANGED patcher_vars
  BY <1>9, PatcherStutters
<1> QED BY <1>1, <1>2, <1>3, <1>4, <1>5, <1>6, <1>7, <1>8, <1>9, Zenon DEF PatcherNext

LEMMA PatcherInvariance == PatcherSpec => []PatcherInv
BY PatcherInitially, PatcherSteps, PTL DEF PatcherSpec

\* Whatever finalize writes: when ld starts the code where finalize appends it, the
\* branch pasted at every detour is decoded by the processor to the address of its
\* symbol's code, and that code is there completely.
THEOREM BranchesAlwaysLand == PatcherSpec => []BranchesLand
<1>1. PatcherInv => BranchesLand
  BY DEF PatcherInv
<1> QED BY <1>1, PatcherInvariance, PTL

\* What wrap overwrote survives behind the symbol s__passthru, in whole
\* instructions, followed by a branch to the instruction behind them.
THEOREM DetoursAlwaysComplete == PatcherSpec => []DetourComplete
<1>1. PatcherInv => DetourComplete
  BY DEF PatcherInv
<1> QED BY <1>1, PatcherInvariance, PTL

\* A written image fits into the flash, has the stock firmware wherever no branch
\* was pasted, and ends with the firmware's footer, placed or not.
THEOREM RestAlwaysKept == PatcherSpec => []RestOfImageKept
<1>1. PatcherInv => RestOfImageKept
  BY DEF PatcherInv
<1> QED BY <1>1, PatcherInvariance, PTL

=============================================================================
